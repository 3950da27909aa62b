---------------------------- MODULE InboxDelivery ----------------------------
(***************************************************************************)
(* From a mutation of a conversation to positions in the streams of its    *)
(* members: the publication of a change with its mutation, the dispatchers *)
(* that send the outbox to Kafka, the partition, the inbox writers that    *)
(* consume it, and the streams they write.                                 *)
(*                                                                         *)
(* A conversation has one key, hence one partition.  The publication       *)
(* sequence numbers its changes without gaps, so the index of a change in  *)
(* the outbox of its conversation is its publication sequence, and the     *)
(* pair of both is its change id.                                          *)
(***************************************************************************)
EXTENDS Naturals, Sequences

CONSTANTS Conversations,
          Users,        \* some of the members: a conversation always has others
          Dispatchers,  \* processes that poll the outbox
          Writers,      \* members of the consumer group of the inbox writer
          MaxRetries,   \* OutboxEvent.MaxRetries
          Mutations,    \* bound: the kinds of mutations in a behaviour
          MaxChanges,   \* bound: changes of a conversation in a behaviour
          MaxFaults,    \* bound: failed sends, rollbacks, rebalances, errors
          Aging,        \* bound: the users whose rows grow older than the retention
          Established   \* the group has a committed offset from the start

ASSUME DeliveryAssumption ==
    /\ MaxRetries \in Nat \ {0} /\ MaxChanges \in Nat /\ MaxFaults \in Nat
    /\ Aging \subseteq Users /\ Established \in BOOLEAN
    /\ Mutations \subseteq {"send", "edit", "recall", "delete", "hide", "read",
                            "add", "remove", "close"}

VARIABLES conv,       \* the conversation with its members, messages and reads
          outbox,     \* the rows of messaging.outbox_events, by sequence
          batch,      \* what a dispatcher's open transaction has done
          partition,  \* the Kafka partition: sequence numbers as they arrived
          group,      \* the owner of the partition and its offset, if committed
          writer,     \* the ConsumeClaim goroutines
          stream,     \* inbox_streams, inbox_entries, inbox_applied_changes
          faults

deliveryVars == <<conv, outbox, batch, partition, group, writer, stream, faults>>

-----------------------------------------------------------------------------
(* Values *)

MessageKinds == {"new", "edited", "recalled", "deleted"}
Kinds == MessageKinds \cup {"read", "upsert", "removed"}

Messages == [edits: Nat, recalled: BOOLEAN, deleted: BOOLEAN, hidden: SUBSET Users]
(* joined: how many messages there were when the user last became a member. *)
ConversationRows == [open: BOOLEAN, members: SUBSET Users, joined: [Users -> Nat],
                     read: [Users -> Nat], messages: Seq(Messages)]

(* upTo is last_read_seq; to is recipient_ids or the user of a read.        *)
Changes == [kind: Kinds, message: Nat, upTo: Nat, to: SUBSET Users,
            status: {"pending", "sent", "failed"}, retries: Nat]
Change(kind, message, upTo, to) ==
    [kind |-> kind, message |-> message, upTo |-> upTo, to |-> to,
     status |-> "pending", retries |-> 0]

Outcomes == [conv: Conversations, change: Nat, status: {"pending", "sent", "failed"}]

(* marked: it has marked a record since it claimed the partition.            *)
Goroutines == [on: BOOLEAN, next: Nat, read: BOOLEAN, to: SUBSET Users, marked: BOOLEAN]
Off == [on |-> FALSE, next |-> 0, read |-> FALSE, to |-> {}, marked |-> FALSE]

Entries == [position: Nat, conv: Conversations, change: Nat, kind: Kinds,
            message: Nat, upTo: Nat]
(* Position 0 of an applied change: it was coalesced into a newer one.      *)
Applied == [conv: Conversations, change: Nat, position: Nat]
(* expired is the highest position whose row is older than the retention.   *)
Streams == [position: Nat, retained: Nat, expired: Nat,
            entries: SUBSET Entries, applied: SUBSET Applied]

-----------------------------------------------------------------------------
(* Mutations, each under the conversation lock and with its publication     *)

May(c, mutation) ==
    conv[c].open /\ mutation \in Mutations /\ Len(outbox[c]) < MaxChanges

(* PublishInboxChange                                                       *)
Publish(c, changes) == outbox' = [outbox EXCEPT ![c] = @ \o changes]

Mutate(c, row) ==
    /\ conv' = [conv EXCEPT ![c] = row]
    /\ UNCHANGED <<batch, partition, group, writer, stream, faults>>

SendMessage(c) ==
    /\ May(c, "send")
    /\ Publish(c, <<Change("new", Len(conv[c].messages) + 1, 0, conv[c].members)>>)
    /\ Mutate(c, [conv[c] EXCEPT !.messages = Append(@,
          [edits |-> 0, recalled |-> FALSE, deleted |-> FALSE, hidden |-> {}])])

EditMessage(c, m) ==
    /\ May(c, "edit")
    /\ ~conv[c].messages[m].deleted /\ ~conv[c].messages[m].recalled
    /\ Publish(c, <<Change("edited", m, 0, conv[c].members)>>)
    /\ Mutate(c, [conv[c] EXCEPT !.messages[m].edits = @ + 1])

RecallMessage(c, m) ==
    /\ May(c, "recall")
    /\ ~conv[c].messages[m].deleted /\ ~conv[c].messages[m].recalled
    /\ Publish(c, <<Change("recalled", m, 0, conv[c].members)>>)
    /\ Mutate(c, [conv[c] EXCEPT !.messages[m].recalled = TRUE])

DeleteForAll(c, m) ==
    /\ May(c, "delete")
    /\ ~conv[c].messages[m].deleted
    /\ Publish(c, <<Change("deleted", m, 0, conv[c].members)>>)
    /\ Mutate(c, [conv[c] EXCEPT !.messages[m].deleted = TRUE])

(* Only the actor's own devices hear of it.                                 *)
DeleteForMe(c, m, u) ==
    /\ May(c, "hide")
    /\ u \in conv[c].members
    /\ ~conv[c].messages[m].deleted /\ u \notin conv[c].messages[m].hidden
    /\ Publish(c, <<Change("deleted", m, 0, {u})>>)
    /\ Mutate(c, [conv[c] EXCEPT !.messages[m].hidden = @ \cup {u}])

MarkAsRead(c, u, seq) ==
    /\ May(c, "read")
    /\ u \in conv[c].members
    /\ conv[c].read[u] < seq /\ seq <= Len(conv[c].messages)
    /\ Publish(c, <<Change("read", 0, seq, {u})>>)
    /\ Mutate(c, [conv[c] EXCEPT !.read[u] = seq])

AddMember(c, u) ==
    /\ May(c, "add")
    /\ u \notin conv[c].members
    /\ Publish(c, <<Change("upsert", 0, 0, conv[c].members \cup {u})>>)
    /\ Mutate(c, [conv[c] EXCEPT !.members = @ \cup {u},
                                 !.joined[u] = Len(conv[c].messages)])

(* Those who stay hear of the conversation, then the other of the removal.  *)
RemoveMember(c, u) ==
    /\ May(c, "remove")
    /\ u \in conv[c].members
    /\ Publish(c, <<Change("upsert", 0, 0, conv[c].members \ {u}),
                    Change("removed", 0, 0, {u})>>)
    /\ Mutate(c, [conv[c] EXCEPT !.members = @ \ {u}])

DeleteConversation(c) ==
    /\ May(c, "close")
    /\ Publish(c, <<Change("removed", 0, 0, conv[c].members)>>)
    /\ Mutate(c, [conv[c] EXCEPT !.open = FALSE, !.members = {},
                                 !.read = [u \in Users |-> 0]])

MutateSome(c) ==
    \/ SendMessage(c) \/ DeleteConversation(c)
    \/ \E m \in DOMAIN conv[c].messages :
          \/ EditMessage(c, m) \/ RecallMessage(c, m) \/ DeleteForAll(c, m)
          \/ \E u \in Users : DeleteForMe(c, m, u) \/ MarkAsRead(c, u, m)
    \/ \E u \in Users : AddMember(c, u) \/ RemoveMember(c, u)

-----------------------------------------------------------------------------
(* Dispatching (OutboxDispatcher.dispatchBatch): one transaction sends many *)
(* changes, sees its own outcomes, and locks their rows until it ends.      *)

Fault == faults < MaxFaults /\ faults' = faults + 1

StatusFor(d, c, i) ==
    IF \E o \in batch[d] : o.conv = c /\ o.change = i
    THEN (CHOOSE o \in batch[d] : o.conv = c /\ o.change = i).status
    ELSE outbox[c][i].status

Locked(c, i) == \E d \in Dispatchers : \E o \in batch[d] : o.conv = c /\ o.change = i

FetchPendingOnce(d, c) ==
    {i \in DOMAIN outbox[c] :
        /\ outbox[c][i].status = "pending" /\ ~Locked(c, i)
        /\ outbox[c][i].retries = 0
        /\ \A j \in 1 .. i - 1 : StatusFor(d, c, j) = "sent"}
FetchPendingUnordered(d, c) ==
    {i \in DOMAIN outbox[c] : outbox[c][i].status = "pending" /\ ~Locked(c, i)}
(* The rows it can lock and that no older unsent change of their            *)
(* conversation precedes.                                                   *)
FetchPending(d, c) ==
    {i \in DOMAIN outbox[c] :
        /\ outbox[c][i].status = "pending" /\ ~Locked(c, i)
        /\ \A j \in 1 .. i - 1 : StatusFor(d, c, j) = "sent"}

Note(d, c, i, status) ==
    batch' = [batch EXCEPT ![d] = @ \cup {[conv |-> c, change |-> i, status |-> status]}]

Dispatch(d, c) ==
    /\ \E i \in FetchPending(d, c) :
          /\ partition' = [partition EXCEPT ![c] = Append(@, i)]
          /\ Note(d, c, i, "sent")
    /\ UNCHANGED <<conv, outbox, group, writer, stream, faults>>

(* A send that fails may have arrived all the same.                         *)
DispatchFails(d, c) ==
    /\ Fault
    /\ \E i \in FetchPending(d, c) :
          /\ \/ UNCHANGED partition
             \/ partition' = [partition EXCEPT ![c] = Append(@, i)]
          /\ Note(d, c, i, IF outbox[c][i].retries + 1 >= MaxRetries
                           THEN "failed" ELSE "pending")
    /\ UNCHANGED <<conv, outbox, group, writer, stream>>

Settled(c, i, e) ==
    [e EXCEPT !.status = i.status,
              !.retries = IF i.status = "sent" THEN @ ELSE @ + 1]

CommitBatch(d) ==
    /\ batch[d] # {}
    /\ outbox' = [c \in Conversations |-> [i \in DOMAIN outbox[c] |->
          IF \E o \in batch[d] : o.conv = c /\ o.change = i
          THEN Settled(c, CHOOSE o \in batch[d] : o.conv = c /\ o.change = i, outbox[c][i])
          ELSE outbox[c][i]]]
    /\ batch' = [batch EXCEPT ![d] = {}]
    /\ UNCHANGED <<conv, partition, group, writer, stream, faults>>

(* The database or the process fails: what was sent stays sent.             *)
RollBackBatch(d) ==
    /\ batch[d] # {}
    /\ Fault
    /\ batch' = [batch EXCEPT ![d] = {}]
    /\ UNCHANGED <<conv, outbox, partition, group, writer, stream>>

-----------------------------------------------------------------------------
(* Consuming (InboxWriter.ConsumeClaim, handleMessageCreated)               *)

Reading(w, c) == outbox[c][partition[c][writer[w][c].next]]

RecipientsNow(w, c) ==
    LET e == Reading(w, c)
    IN IF e.kind = "removed" THEN e.to ELSE conv[c].members
(* A removed user's last change survives the loss of membership; any other  *)
(* goes to recipients of the publication who are still members.             *)
Recipients(w, c) ==
    LET e == Reading(w, c)
    IN IF e.kind = "removed" THEN e.to ELSE e.to \cap conv[c].members

ReadMembers(w, c) ==
    /\ writer[w][c].on /\ ~writer[w][c].read
    /\ writer[w][c].next <= Len(partition[c])
    /\ writer' = [writer EXCEPT ![w][c].read = TRUE, ![w][c].to = Recipients(w, c)]
    /\ UNCHANGED <<conv, outbox, batch, partition, group, stream, faults>>

Coalesced(s, c, e) ==
    IF e.kind = "read" THEN {o \in s.entries : o.conv = c /\ o.kind = "read"} ELSE {}

InsertAgain(s, c, i) ==
    LET e == outbox[c][i]
        next == s.position + 1
    IN [s EXCEPT !.position = next,
          !.entries = (@ \ Coalesced(s, c, e)) \cup
             {[position |-> next, conv |-> c, change |-> i, kind |-> e.kind,
               message |-> e.message, upTo |-> e.upTo]},
          !.applied = @ \cup {[conv |-> c, change |-> i, position |-> next]}]
InsertForgetful(s, c, i) ==
    IF \E a \in s.applied : a.conv = c /\ a.change = i THEN s
    ELSE [InsertAgain(s, c, i) EXCEPT
             !.applied = s.applied \cup {[conv |-> c, change |-> i, position |-> 0]}]
(* BatchInsert for one user: every change once; a read replaces an older    *)
(* one, whose position stays known.                                         *)
Insert(s, c, i) ==
    LET e == outbox[c][i]
    IN IF \E a \in s.applied : a.conv = c /\ a.change = i THEN s
       ELSE IF \E o \in Coalesced(s, c, e) : o.upTo >= e.upTo
       THEN [s EXCEPT !.applied = @ \cup {[conv |-> c, change |-> i, position |-> 0]}]
       ELSE InsertAgain(s, c, i)

BatchInsert(w, c) ==
    stream' = [u \in Users |-> IF u \in writer[w][c].to
                               THEN Insert(stream[u], c, partition[c][writer[w][c].next])
                               ELSE stream[u]]

(* The transaction, the live hints, MarkMessage.                            *)
WriteInbox(w, c) ==
    /\ writer[w][c].read
    /\ BatchInsert(w, c)
    /\ writer' = [writer EXCEPT ![w][c].read = FALSE, ![w][c].to = {},
                                ![w][c].next = @ + 1, ![w][c].marked = TRUE]
    /\ UNCHANGED <<conv, outbox, batch, partition, group, faults>>

(* The transaction or, after it, a hint fails: handled again from the start.*)
WriteInboxFails(w, c) ==
    /\ writer[w][c].read
    /\ Fault
    /\ BatchInsert(w, c) \/ UNCHANGED stream
    /\ writer' = [writer EXCEPT ![w][c].read = FALSE, ![w][c].to = {}]
    /\ UNCHANGED <<conv, outbox, batch, partition, group>>

(* Marked offsets are committed from time to time, by the owner only: one   *)
(* that has marked nothing commits nothing, wherever its claim started.     *)
CommitOffset(w, c) ==
    /\ group[c].owner = w /\ writer[w][c].on /\ writer[w][c].marked
    /\ group[c].committed < writer[w][c].next - 1
    /\ group' = [group EXCEPT ![c].committed = writer[w][c].next - 1, ![c].known = TRUE]
    /\ UNCHANGED <<conv, outbox, batch, partition, writer, stream, faults>>

OffsetNewest(c) == Len(partition[c]) + 1
(* Where a claim starts (Consumer.Offsets.Initial).                         *)
NextOffset(c) == IF group[c].known THEN group[c].committed + 1 ELSE OffsetNewest(c)

(* A rebalance hands the partition to w; the old owner learns of it later.  *)
Rebalance(w, c) ==
    /\ group[c].owner # w /\ ~writer[w][c].on
    /\ Fault
    /\ group' = [group EXCEPT ![c].owner = w]
    /\ writer' = [writer EXCEPT ![w][c] = [Off EXCEPT !.on = TRUE, !.next = NextOffset(c)]]
    /\ UNCHANGED <<conv, outbox, batch, partition, stream>>

LeaveMidway(w, c) ==
    /\ group[c].owner # w /\ writer[w][c].on
    /\ writer' = [writer EXCEPT ![w][c].on = FALSE, ![w][c].next = 0]
    /\ UNCHANGED <<conv, outbox, batch, partition, group, stream, faults>>
Leave(w, c) ==
    /\ group[c].owner # w /\ writer[w][c].on
    /\ writer' = [writer EXCEPT ![w][c] = Off]
    /\ UNCHANGED <<conv, outbox, batch, partition, group, stream, faults>>

-----------------------------------------------------------------------------
(* Retention (InboxRepo.Prune)                                              *)

Allocated(s) == {e.position : e \in s.entries} \cup {a.position : a \in s.applied}

(* Time passes, or the configured retention changes.  The writers' clocks   *)
(* differ, so rows need not expire in order.                                *)
Expire(u) ==
    /\ \E p \in Allocated(stream[u]) \cup {0} :
          p # stream[u].expired /\ stream' = [stream EXCEPT ![u].expired = p]
    /\ UNCHANGED <<conv, outbox, batch, partition, group, writer, faults>>

Larger(a, b) == IF a > b THEN a ELSE b

PruneOnly(s) == [s EXCEPT !.entries = {e \in @ : e.position > s.expired}]
(* A prefix goes, and the boundary moves with it.                           *)
Prune(s) == [PruneOnly(s) EXCEPT !.retained = Larger(@, s.expired)]

PruneStream(u) ==
    /\ stream[u].expired > 0
    /\ Prune(stream[u]) # stream[u]
    /\ stream' = [stream EXCEPT ![u] = Prune(@)]
    /\ UNCHANGED <<conv, outbox, batch, partition, group, writer, faults>>

-----------------------------------------------------------------------------
DeliveryInit ==
    /\ conv \in [Conversations ->
          [open: {TRUE}, members: SUBSET Users, joined: {[u \in Users |-> 0]},
           read: {[u \in Users |-> 0]}, messages: {<<>>}]]
    /\ outbox = [c \in Conversations |-> <<>>]
    /\ batch = [d \in Dispatchers |-> {}]
    /\ partition = [c \in Conversations |-> <<>>]
    /\ group \in [Conversations -> [owner: Writers, committed: {0}, known: {Established}]]
    /\ writer = [w \in Writers |-> [c \in Conversations |->
          IF group[c].owner = w THEN [Off EXCEPT !.on = TRUE, !.next = 1] ELSE Off]]
    /\ stream = [u \in Users |-> [position |-> 0, retained |-> 0, expired |-> 0,
                                  entries |-> {}, applied |-> {}]]
    /\ faults = 0

DispatcherStep(d) ==
    \/ CommitBatch(d) \/ RollBackBatch(d)
    \/ \E c \in Conversations : Dispatch(d, c) \/ DispatchFails(d, c)

WriterStep(w, c) ==
    \/ ReadMembers(w, c) \/ WriteInbox(w, c) \/ WriteInboxFails(w, c)
    \/ CommitOffset(w, c) \/ Rebalance(w, c) \/ Leave(w, c)

DeliveryNext ==
    \/ \E c \in Conversations : MutateSome(c)
    \/ \E d \in Dispatchers : DispatcherStep(d)
    \/ \E w \in Writers, c \in Conversations : WriterStep(w, c)
    \/ \E u \in Aging : Expire(u) \/ PruneStream(u)

DeliverySpec == DeliveryInit /\ [][DeliveryNext]_deliveryVars

(* The dispatcher polls every 100 ms; a writer retries for as long as it    *)
(* owns the partition and commits what it marked every second.              *)
DeliveryFairness ==
    /\ \A d \in Dispatchers :
          /\ WF_deliveryVars(CommitBatch(d))
          /\ \A c \in Conversations : WF_deliveryVars(Dispatch(d, c))
    /\ \A w \in Writers, c \in Conversations :
          /\ WF_deliveryVars(ReadMembers(w, c))
          /\ WF_deliveryVars(WriteInbox(w, c))
          /\ WF_deliveryVars(CommitOffset(w, c))

-----------------------------------------------------------------------------
(* Properties                                                               *)

(* Rows, offsets and goroutines stay in their domains; a goroutine has a    *)
(* position while it runs, and stands at a record of the partition once it  *)
(* has read the members (ConsumeClaim).                                     *)
DeliveryTypeOK ==
    /\ conv \in [Conversations -> ConversationRows]
    /\ outbox \in [Conversations -> Seq(Changes)]
    /\ batch \in [Dispatchers -> SUBSET Outcomes]
    /\ partition \in [Conversations -> Seq(Nat)]
    /\ \A c \in Conversations : \A k \in DOMAIN partition[c] :
          partition[c][k] \in DOMAIN outbox[c]
    /\ group \in [Conversations -> [owner: Writers, committed: Nat, known: BOOLEAN]]
    /\ writer \in [Writers -> [Conversations -> Goroutines]]
    /\ \A w \in Writers, c \in Conversations :
          /\ writer[w][c].on => writer[w][c].next > 0
          /\ writer[w][c].read => writer[w][c].next \in DOMAIN partition[c]
    /\ stream \in [Users -> Streams]
    /\ faults \in 0 .. MaxFaults

(* Whatever dispatchers roll back, repeat or do at the same time, a change  *)
(* reaches Kafka for the first time only after all older changes of its     *)
(* conversation did (FetchPending, InTransaction).                          *)
SentInOrder ==
    \A c \in Conversations : \A k \in DOMAIN partition[c] :
        \A i \in 1 .. partition[c][k] - 1 : \E l \in 1 .. k - 1 : partition[c][l] = i

(* Through repeated sends, redelivery and concurrent owners of a partition, *)
(* a user's stream takes a change once, at a position of its own            *)
(* (BatchInsert, inbox_applied_changes).                                    *)
OncePerChange ==
    \A u \in Users :
        LET s == stream[u] IN
        /\ \A a, b \in s.applied : a.conv = b.conv /\ a.change = b.change => a = b
        /\ \A e, f \in s.entries : e.position = f.position => e = f
        /\ \A e \in s.entries :
              /\ e.position <= s.position
              /\ \E a \in s.applied : /\ a.conv = e.conv /\ a.change = e.change
                                      /\ a.position = e.position

(* However late a change is written, nobody gets it who was not meant to    *)
(* when it was published: a retry never adds a member who joined since      *)
(* (PublishInboxChange, handleMessageCreated).                              *)
OnlyRecipients ==
    \A u \in Users : \A e \in stream[u].entries : u \in outbox[e.conv][e.change].to

(* A consumed change is in the stream of every user it was for who did not  *)
(* leave in the meantime, although the members are read apart from the      *)
(* write and others come and go (ChangeCommitted, ConsumeClaim).            *)
NothingSkipped ==
    \A c \in Conversations : \A k \in 1 .. group[c].committed :
        LET i == partition[c][k]
            e == outbox[c][i]
            stayed(u) == /\ u \in conv[c].members
                         /\ \A j \in i + 1 .. Len(outbox[c]) :
                               outbox[c][j].kind = "upsert" => u \in outbox[c][j].to
        IN \A u \in e.to : e.kind = "removed" \/ stayed(u) =>
              \E a \in stream[u].applied : a.conv = c /\ a.change = i

=============================================================================
