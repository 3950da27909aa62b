------------------------ MODULE InboxDelivery_proofs ------------------------
(***************************************************************************)
(* What holds of InboxDelivery for any conversations, users, dispatchers,  *)
(* writers, retries and faults.                                            *)
(***************************************************************************)
EXTENDS InboxDelivery, SequenceTheorems, TLAPS

-----------------------------------------------------------------------------
(* Mutations                                                                *)

(* The part of DeliveryTypeOK about the rows a mutation writes. *)
RowsTyped ==
    /\ conv \in [Conversations -> ConversationRows]
    /\ outbox \in [Conversations -> Seq(Changes)]

(* A mutation publishes one or two pending changes. *)
Fresh == {e \in Changes : e.status = "pending"}

(* Everything but the conversation and its outbox is left alone. *)
OthersUnchanged == UNCHANGED <<batch, partition, group, writer, stream, faults>>

(* What a mutation of a conversation amounts to for everybody else. *)
Published(c) ==
    /\ conv' \in [Conversations -> ConversationRows]
    /\ \E changes \in Seq(Fresh) : Publish(c, changes)
    /\ OthersUnchanged

(* PublishInboxChange writes rows of the outbox. *)
LEMMA ChangeFresh ==
  ASSUME NEW kind \in Kinds, NEW message \in Nat, NEW upTo \in Nat, NEW to \in SUBSET Users
  PROVE  Change(kind, message, upTo, to) \in Fresh
  BY DEF Change, Fresh, Changes

(* A mutation writes a row of conversations. *)
LEMMA MutateTyped ==
  ASSUME RowsTyped, NEW c \in Conversations, NEW row \in ConversationRows, Mutate(c, row)
  PROVE  conv' \in [Conversations -> ConversationRows] /\ OthersUnchanged
  BY DEF RowsTyped, Mutate, OthersUnchanged

(* The conversation's row and its messages. *)
LEMMA RowFacts ==
  ASSUME RowsTyped, NEW c \in Conversations
  PROVE  /\ conv[c] \in ConversationRows
         /\ conv[c].messages \in Seq(Messages) /\ Len(conv[c].messages) \in Nat
         /\ conv[c].members \subseteq Users
         /\ \A m \in DOMAIN conv[c].messages : m \in Nat /\ conv[c].messages[m] \in Messages
<1>1. conv[c] \in ConversationRows
  BY DEF RowsTyped
<1>2. conv[c].messages \in Seq(Messages) /\ conv[c].members \subseteq Users
  BY <1>1 DEF ConversationRows
<1> QED
  BY <1>1, <1>2

(* A message replaced by a message leaves a row of conversations. *)
LEMMA MessageReplaced ==
  ASSUME NEW row \in ConversationRows, NEW m \in DOMAIN row.messages, NEW msg \in Messages
  PROVE  [row EXCEPT !.messages = [@ EXCEPT ![m] = msg]] \in ConversationRows
<1>1. row.messages \in Seq(Messages)
  BY DEF ConversationRows
<1>2. [row.messages EXCEPT ![m] = msg] \in Seq(Messages)
  BY <1>1
<1> QED
  BY <1>2 DEF ConversationRows

(* SendMessage inserts a message and publishes it. *)
LEMMA SendMessagePublishes ==
  ASSUME RowsTyped, NEW c \in Conversations, SendMessage(c) PROVE Published(c)
<1> DEFINE msg == [edits |-> 0, recalled |-> FALSE, deleted |-> FALSE, hidden |-> {}]
           row == [conv[c] EXCEPT !.messages = Append(@, msg)]
           e == Change("new", Len(conv[c].messages) + 1, 0, conv[c].members)
<1>1. msg \in Messages
  BY DEF Messages
<1>2. Append(conv[c].messages, msg) \in Seq(Messages)
  BY <1>1, RowFacts
<1>3. row \in ConversationRows
  BY <1>2, RowFacts DEF ConversationRows
<1>4. Publish(c, <<e>>) /\ Mutate(c, row)
  BY DEF SendMessage
<1>5. /\ "new" \in Kinds /\ 0 \in Nat
      /\ Len(conv[c].messages) + 1 \in Nat /\ conv[c].members \in SUBSET Users
  BY RowFacts DEF Kinds, MessageKinds
<1>6. e \in Fresh
  BY <1>5, ChangeFresh
<1>7. <<e>> \in Seq(Fresh)
  BY <1>6
<1> QED
  BY <1>3, <1>4, <1>7, MutateTyped DEF Published

(* EditMessage changes a message in place and publishes it. *)
LEMMA EditMessagePublishes ==
  ASSUME RowsTyped, NEW c \in Conversations, NEW m \in DOMAIN conv[c].messages, EditMessage(c, m)
  PROVE  Published(c)
<1> DEFINE msg == [conv[c].messages[m] EXCEPT !.edits = @ + 1]
           row == [conv[c] EXCEPT !.messages = [@ EXCEPT ![m] = msg]]
           e == Change("edited", m, 0, conv[c].members)
<1>1. msg \in Messages
  <2>1. conv[c].messages[m] \in Messages
    BY RowFacts
  <2> QED
    BY <2>1 DEF Messages
<1>2. row \in ConversationRows
  BY <1>1, RowFacts, MessageReplaced
<1>3. Publish(c, <<e>>) /\ Mutate(c, row)
  BY DEF EditMessage
<1>4. "edited" \in Kinds /\ m \in Nat /\ 0 \in Nat /\ conv[c].members \in SUBSET Users
  BY RowFacts DEF Kinds, MessageKinds
<1>5. e \in Fresh
  BY <1>4, ChangeFresh
<1>6. <<e>> \in Seq(Fresh)
  BY <1>5
<1> QED
  BY <1>2, <1>3, <1>6, MutateTyped DEF Published

(* RecallMessage marks a message and publishes it. *)
LEMMA RecallMessagePublishes ==
  ASSUME RowsTyped, NEW c \in Conversations, NEW m \in DOMAIN conv[c].messages,
         RecallMessage(c, m)
  PROVE  Published(c)
<1> DEFINE msg == [conv[c].messages[m] EXCEPT !.recalled = TRUE]
           row == [conv[c] EXCEPT !.messages = [@ EXCEPT ![m] = msg]]
           e == Change("recalled", m, 0, conv[c].members)
<1>1. msg \in Messages
  <2>1. conv[c].messages[m] \in Messages
    BY RowFacts
  <2> QED
    BY <2>1 DEF Messages
<1>2. row \in ConversationRows
  BY <1>1, RowFacts, MessageReplaced
<1>3. Publish(c, <<e>>) /\ Mutate(c, row)
  BY DEF RecallMessage
<1>4. "recalled" \in Kinds /\ m \in Nat /\ 0 \in Nat /\ conv[c].members \in SUBSET Users
  BY RowFacts DEF Kinds, MessageKinds
<1>5. e \in Fresh
  BY <1>4, ChangeFresh
<1>6. <<e>> \in Seq(Fresh)
  BY <1>5
<1> QED
  BY <1>2, <1>3, <1>6, MutateTyped DEF Published

(* A deletion for all removes a message and publishes it. *)
LEMMA DeleteForAllPublishes ==
  ASSUME RowsTyped, NEW c \in Conversations, NEW m \in DOMAIN conv[c].messages,
         DeleteForAll(c, m)
  PROVE  Published(c)
<1> DEFINE msg == [conv[c].messages[m] EXCEPT !.deleted = TRUE]
           row == [conv[c] EXCEPT !.messages = [@ EXCEPT ![m] = msg]]
           e == Change("deleted", m, 0, conv[c].members)
<1>1. msg \in Messages
  <2>1. conv[c].messages[m] \in Messages
    BY RowFacts
  <2> QED
    BY <2>1 DEF Messages
<1>2. row \in ConversationRows
  BY <1>1, RowFacts, MessageReplaced
<1>3. Publish(c, <<e>>) /\ Mutate(c, row)
  BY DEF DeleteForAll
<1>4. "deleted" \in Kinds /\ m \in Nat /\ 0 \in Nat /\ conv[c].members \in SUBSET Users
  BY RowFacts DEF Kinds, MessageKinds
<1>5. e \in Fresh
  BY <1>4, ChangeFresh
<1>6. <<e>> \in Seq(Fresh)
  BY <1>5
<1> QED
  BY <1>2, <1>3, <1>6, MutateTyped DEF Published

(* A personal deletion is published to its actor. *)
LEMMA DeleteForMePublishes ==
  ASSUME RowsTyped, NEW c \in Conversations, NEW m \in DOMAIN conv[c].messages,
         NEW u \in Users, DeleteForMe(c, m, u)
  PROVE  Published(c)
<1> DEFINE msg == [conv[c].messages[m] EXCEPT !.hidden = @ \cup {u}]
           row == [conv[c] EXCEPT !.messages = [@ EXCEPT ![m] = msg]]
           e == Change("deleted", m, 0, {u})
<1>1. msg \in Messages
  <2>1. conv[c].messages[m] \in Messages
    BY RowFacts
  <2> QED
    BY <2>1 DEF Messages
<1>2. row \in ConversationRows
  BY <1>1, RowFacts, MessageReplaced
<1>3. Publish(c, <<e>>) /\ Mutate(c, row)
  BY DEF DeleteForMe
<1>4. "deleted" \in Kinds /\ m \in Nat /\ 0 \in Nat /\ {u} \in SUBSET Users
  BY RowFacts DEF Kinds, MessageKinds
<1>5. e \in Fresh
  BY <1>4, ChangeFresh
<1>6. <<e>> \in Seq(Fresh)
  BY <1>5
<1> QED
  BY <1>2, <1>3, <1>6, MutateTyped DEF Published

(* MarkAsRead advances a user's read sequence and publishes it to the user. *)
LEMMA MarkAsReadPublishes ==
  ASSUME RowsTyped, NEW c \in Conversations, NEW u \in Users,
         NEW m \in DOMAIN conv[c].messages, MarkAsRead(c, u, m)
  PROVE  Published(c)
<1> DEFINE row == [conv[c] EXCEPT !.read = [@ EXCEPT ![u] = m]]
           e == Change("read", 0, m, {u})
<1>1. row \in ConversationRows
  BY RowFacts DEF ConversationRows
<1>2. Publish(c, <<e>>) /\ Mutate(c, row)
  BY DEF MarkAsRead
<1>3. m \in Nat /\ "read" \in Kinds /\ 0 \in Nat
  BY RowFacts DEF Kinds
<1>4. e \in Fresh
  BY <1>3, ChangeFresh
<1>5. <<e>> \in Seq(Fresh)
  BY <1>4
<1> QED
  BY <1>1, <1>2, <1>5, MutateTyped DEF Published

(* AddMembers publishes the conversation to the old and the new members. *)
LEMMA AddMemberPublishes ==
  ASSUME RowsTyped, NEW c \in Conversations, NEW u \in Users, AddMember(c, u)
  PROVE  Published(c)
<1> DEFINE row == [conv[c] EXCEPT !.members = @ \cup {u},
                                  !.joined = [@ EXCEPT ![u] = Len(conv[c].messages)]]
           e == Change("upsert", 0, 0, conv[c].members \cup {u})
<1>1. row \in ConversationRows
  BY RowFacts DEF ConversationRows
<1>2. Publish(c, <<e>>) /\ Mutate(c, row)
  BY DEF AddMember
<1>3. "upsert" \in Kinds /\ 0 \in Nat /\ conv[c].members \cup {u} \in SUBSET Users
  BY RowFacts DEF Kinds
<1>4. e \in Fresh
  BY <1>3, ChangeFresh
<1>5. <<e>> \in Seq(Fresh)
  BY <1>4
<1> QED
  BY <1>1, <1>2, <1>5, MutateTyped DEF Published

(* RemoveMembers publishes to those who stay, then to the one who left. *)
LEMMA RemoveMemberPublishes ==
  ASSUME RowsTyped, NEW c \in Conversations, NEW u \in Users, RemoveMember(c, u)
  PROVE  Published(c)
<1> DEFINE row == [conv[c] EXCEPT !.members = @ \ {u}]
           stay == Change("upsert", 0, 0, conv[c].members \ {u})
           left == Change("removed", 0, 0, {u})
<1>1. row \in ConversationRows
  BY RowFacts DEF ConversationRows
<1>2. Publish(c, <<stay, left>>) /\ Mutate(c, row)
  BY DEF RemoveMember
<1>3. /\ {"upsert", "removed"} \subseteq Kinds /\ 0 \in Nat
      /\ conv[c].members \ {u} \in SUBSET Users /\ {u} \in SUBSET Users
  BY RowFacts DEF Kinds
<1>4. stay \in Fresh /\ left \in Fresh
  BY <1>3, ChangeFresh
<1>5. <<stay, left>> \in Seq(Fresh)
  BY <1>4
<1> QED
  BY <1>1, <1>2, <1>5, MutateTyped DEF Published

(* DeleteConversation publishes the removal to the last members. *)
LEMMA DeleteConversationPublishes ==
  ASSUME RowsTyped, NEW c \in Conversations, DeleteConversation(c)
  PROVE  Published(c)
<1> DEFINE row == [conv[c] EXCEPT !.open = FALSE, !.members = {},
                                  !.read = [u \in Users |-> 0]]
           e == Change("removed", 0, 0, conv[c].members)
<1>1. row \in ConversationRows
  BY RowFacts DEF ConversationRows
<1>2. Publish(c, <<e>>) /\ Mutate(c, row)
  BY DEF DeleteConversation
<1>3. "removed" \in Kinds /\ 0 \in Nat /\ conv[c].members \in SUBSET Users
  BY RowFacts DEF Kinds
<1>4. e \in Fresh
  BY <1>3, ChangeFresh
<1>5. <<e>> \in Seq(Fresh)
  BY <1>4
<1> QED
  BY <1>1, <1>2, <1>5, MutateTyped DEF Published

(* Every mutation publishes what it did in the same transaction. *)
LEMMA MutationsPublish ==
  ASSUME RowsTyped, NEW c \in Conversations, MutateSome(c) PROVE Published(c)
<1>1. CASE SendMessage(c) \/ DeleteConversation(c)
  BY <1>1, SendMessagePublishes, DeleteConversationPublishes
<1>2. CASE \E m \in DOMAIN conv[c].messages :
             EditMessage(c, m) \/ RecallMessage(c, m) \/ DeleteForAll(c, m)
  BY <1>2, EditMessagePublishes, RecallMessagePublishes, DeleteForAllPublishes
<1>3. CASE \E m \in DOMAIN conv[c].messages : \E u \in Users :
             DeleteForMe(c, m, u) \/ MarkAsRead(c, u, m)
  BY <1>3, DeleteForMePublishes, MarkAsReadPublishes
<1>4. CASE \E u \in Users : AddMember(c, u) \/ RemoveMember(c, u)
  BY <1>4, AddMemberPublishes, RemoveMemberPublishes
<1> QED
  BY <1>1, <1>2, <1>3, <1>4 DEF MutateSome

(* The outbox only grows, and what was published stays what it was: only    *)
(* the status and the retries of a row change.                              *)
OutboxKept ==
    \A c \in Conversations :
        /\ DOMAIN outbox[c] \subseteq DOMAIN outbox'[c]
        /\ \A i \in DOMAIN outbox[c] : outbox'[c][i].to = outbox[c][i].to

(* A publication appends pending rows to one conversation's outbox. *)
LEMMA PublishAppends ==
  ASSUME RowsTyped, NEW c \in Conversations, Published(c)
  PROVE  /\ outbox' \in [Conversations -> Seq(Changes)]
         /\ OutboxKept
         /\ \A b \in Conversations : \A i \in DOMAIN outbox'[b] :
               \/ i \in DOMAIN outbox[b] /\ outbox'[b][i] = outbox[b][i]
               \/ outbox'[b][i].status = "pending"
<1>1. PICK changes \in Seq(Fresh) : Publish(c, changes)
  BY DEF Published
<1>2. outbox \in [Conversations -> Seq(Changes)] /\ changes \in Seq(Changes)
  <2>1. Fresh \subseteq Changes
    BY DEF Fresh
  <2> QED
    BY <2>1 DEF RowsTyped
<1>3. outbox' = [outbox EXCEPT ![c] = outbox[c] \o changes]
  BY <1>1 DEF Publish
<1>4. outbox[c] \in Seq(Changes) /\ outbox[c] \o changes \in Seq(Changes)
  BY <1>2
<1>5. outbox' \in [Conversations -> Seq(Changes)]
  BY <1>2, <1>3, <1>4
<1>6. /\ DOMAIN outbox[c] \subseteq DOMAIN outbox'[c]
      /\ \A i \in DOMAIN outbox[c] : outbox'[c][i] = outbox[c][i]
  BY <1>2, <1>3, <1>4
<1>7. \A i \in DOMAIN outbox'[c] : i \notin DOMAIN outbox[c] =>
         outbox'[c][i].status = "pending"
  <2> SUFFICES ASSUME NEW i \in DOMAIN outbox'[c], i \notin DOMAIN outbox[c]
               PROVE  outbox'[c][i].status = "pending"
    OBVIOUS
  <2>1. /\ i - Len(outbox[c]) \in DOMAIN changes
        /\ outbox'[c][i] = changes[i - Len(outbox[c])]
    BY <1>2, <1>3, <1>4
  <2>2. changes[i - Len(outbox[c])] \in Fresh
    BY <2>1
  <2> QED
    BY <2>1, <2>2 DEF Fresh
<1>8. \A b \in Conversations : b # c => outbox'[b] = outbox[b]
  BY <1>2, <1>3
<1> QED
  BY <1>5, <1>6, <1>7, <1>8 DEF OutboxKept

-----------------------------------------------------------------------------
(* Types                                                                    *)

(* The part of DeliveryTypeOK about the way from the outbox to the streams. *)
ChannelTyped ==
    /\ batch \in [Dispatchers -> SUBSET Outcomes]
    /\ partition \in [Conversations -> Seq(Nat)]
    /\ group \in [Conversations -> [owner: Writers, committed: Nat, known: BOOLEAN]]
    /\ writer \in [Writers -> [Conversations -> Goroutines]]
    /\ stream \in [Users -> Streams]
    /\ faults \in 0 .. MaxFaults

(* Records name rows of the outbox; whoever read members stands at a record. *)
RecordsExist ==
    \A c \in Conversations : \A k \in DOMAIN partition[c] :
        partition[c][k] \in DOMAIN outbox[c]
ReadersStand ==
    \A w \in Writers, c \in Conversations :
        /\ writer[w][c].on => writer[w][c].next > 0
        /\ writer[w][c].read => writer[w][c].next \in DOMAIN partition[c]

(* DeliveryTypeOK is the conjunction of these parts. *)
LEMMA TypeParts ==
  DeliveryTypeOK <=> RowsTyped /\ ChannelTyped /\ RecordsExist /\ ReadersStand
  BY DEF DeliveryTypeOK, RowsTyped, ChannelTyped, RecordsExist, ReadersStand

(* Kafka appends: no record of a partition changes. *)
PartitionKept ==
    \A c \in Conversations :
        /\ DOMAIN partition[c] \subseteq DOMAIN partition'[c]
        /\ \A k \in DOMAIN partition[c] : partition'[c][k] = partition[c][k]

Kept == OutboxKept /\ PartitionKept

(* A record of the outbox, its number, and the record a goroutine stands at. *)
LEMMA ReadingTyped ==
  ASSUME DeliveryTypeOK, NEW w \in Writers, NEW c \in Conversations,
         writer[w][c].next \in DOMAIN partition[c]
  PROVE  /\ partition[c][writer[w][c].next] \in DOMAIN outbox[c]
         /\ partition[c][writer[w][c].next] \in Nat
         /\ Reading(w, c) \in Changes
<1>1. partition[c][writer[w][c].next] \in DOMAIN outbox[c] /\ outbox[c] \in Seq(Changes)
  BY DEF DeliveryTypeOK
<1> QED
  BY <1>1 DEF Reading

(* BatchInsert for one user leaves rows of its stream. *)
LEMMA InsertTyped ==
  ASSUME DeliveryTypeOK, NEW c \in Conversations, NEW i \in DOMAIN outbox[c], i \in Nat,
         NEW s \in Streams
  PROVE  Insert(s, c, i) \in Streams
<1> DEFINE e == outbox[c][i]
           entry == [position |-> s.position + 1, conv |-> c, change |-> i,
                     kind |-> e.kind, message |-> e.message, upTo |-> e.upTo]
           mark(n) == [conv |-> c, change |-> i, position |-> n]
<1>1. e \in Changes
  BY DEF DeliveryTypeOK
<1>2. s.position + 1 \in Nat /\ s.entries \subseteq Entries /\ s.applied \subseteq Applied
  BY DEF Streams
<1>3. entry \in Entries /\ mark(0) \in Applied /\ mark(s.position + 1) \in Applied
  BY <1>1, <1>2 DEF Entries, Applied, Changes
<1>4. (s.entries \ Coalesced(s, c, e)) \cup {entry} \subseteq Entries
  BY <1>2, <1>3
<1>5. InsertAgain(s, c, i) \in Streams
  BY <1>2, <1>3, <1>4 DEF InsertAgain, Streams
<1>6. [s EXCEPT !.applied = @ \cup {mark(0)}] \in Streams
  BY <1>2, <1>3 DEF Streams
<1> QED
  BY <1>5, <1>6 DEF Insert

(* BatchInsert leaves rows of every stream. *)
LEMMA BatchInsertTyped ==
  ASSUME DeliveryTypeOK, NEW w \in Writers, NEW c \in Conversations,
         writer[w][c].read, BatchInsert(w, c)
  PROVE  stream' \in [Users -> Streams]
<1>1. writer[w][c].next \in DOMAIN partition[c]
  BY DEF DeliveryTypeOK
<1>2. \A u \in Users : stream[u] \in Streams
  BY DEF DeliveryTypeOK
<1>3. \A u \in Users : Insert(stream[u], c, partition[c][writer[w][c].next]) \in Streams
  BY <1>1, <1>2, ReadingTyped, InsertTyped
<1> QED
  BY <1>2, <1>3 DEF BatchInsert

(* A function on 1 .. n is a sequence. *)
LEMMA FunctionIsSeq ==
  ASSUME NEW S, NEW n \in Nat, NEW q \in [1 .. n -> S] PROVE q \in Seq(S)
  OBVIOUS

(* MarkSent .. MarkFailed change the status and the retries of a row. *)
LEMMA SettledTyped ==
  ASSUME NEW c, NEW o \in Outcomes, NEW e \in Changes
  PROVE  /\ Settled(c, o, e) \in Changes
         /\ Settled(c, o, e).to = e.to
         /\ Settled(c, o, e).status = o.status
<1> DEFINE tries == IF o.status = "sent" THEN e.retries ELSE e.retries + 1
<1>1. tries \in Nat /\ o.status \in {"pending", "sent", "failed"}
  BY DEF Changes, Outcomes
<1>2. Settled(c, o, e) = [[e EXCEPT !.status = o.status] EXCEPT !.retries = tries]
  BY DEF Settled, Changes
<1> HIDE DEF tries
<1> QED
  BY <1>1, <1>2 DEF Changes

(* A commit settles the rows of its batch and leaves the others alone. *)
LEMMA CommitBatchRows ==
  ASSUME DeliveryTypeOK, NEW d \in Dispatchers, CommitBatch(d)
  PROVE  /\ outbox' \in [Conversations -> Seq(Changes)]
         /\ OutboxKept
         /\ \A c \in Conversations :
               /\ DOMAIN outbox'[c] = DOMAIN outbox[c]
               /\ \A i \in DOMAIN outbox[c] :
                     \/ outbox'[c][i] = outbox[c][i]
                     \/ \E o \in batch[d] : /\ o.conv = c /\ o.change = i
                                            /\ outbox'[c][i].status = o.status
<1> DEFINE new(c, i) ==
             IF \E o \in batch[d] : o.conv = c /\ o.change = i
             THEN Settled(c, CHOOSE o \in batch[d] : o.conv = c /\ o.change = i, outbox[c][i])
             ELSE outbox[c][i]
<1>1. outbox' = [c \in Conversations |-> [i \in DOMAIN outbox[c] |-> new(c, i)]]
  BY DEF CommitBatch
<1>2. \A c \in Conversations : outbox[c] \in Seq(Changes)
  BY DEF DeliveryTypeOK
<1>3. ASSUME NEW c \in Conversations, NEW i \in DOMAIN outbox[c]
      PROVE  /\ new(c, i) \in Changes
             /\ new(c, i).to = outbox[c][i].to
             /\ \/ new(c, i) = outbox[c][i]
                \/ \E o \in batch[d] : /\ o.conv = c /\ o.change = i
                                       /\ new(c, i).status = o.status
  <2>1. outbox[c][i] \in Changes
    BY <1>2
  <2>2. CASE \E o \in batch[d] : o.conv = c /\ o.change = i
    <3> DEFINE o == CHOOSE x \in batch[d] : x.conv = c /\ x.change = i
    <3>1. o \in batch[d] /\ o.conv = c /\ o.change = i
      BY <2>2
    <3>2. new(c, i) = Settled(c, o, outbox[c][i])
      BY <2>2
    <3> HIDE DEF o, new
    <3>3. o \in Outcomes
      BY <3>1 DEF DeliveryTypeOK
    <3>4. /\ new(c, i) \in Changes /\ new(c, i).to = outbox[c][i].to
          /\ new(c, i).status = o.status
      BY <2>1, <3>2, <3>3, SettledTyped
    <3> QED
      BY <3>1, <3>4
  <2>3. CASE ~ \E o \in batch[d] : o.conv = c /\ o.change = i
    BY <2>1, <2>3
  <2> QED
    BY <2>2, <2>3
<1> HIDE DEF new
<1>4. ASSUME NEW c \in Conversations
      PROVE  /\ outbox'[c] = [i \in 1 .. Len(outbox[c]) |-> new(c, i)]
             /\ DOMAIN outbox'[c] = DOMAIN outbox[c]
             /\ \A i \in DOMAIN outbox[c] : outbox'[c][i] = new(c, i)
  BY <1>1, <1>2
<1>5. ASSUME NEW c \in Conversations PROVE outbox'[c] \in Seq(Changes)
  <2>1. Len(outbox[c]) \in Nat /\ DOMAIN outbox[c] = 1 .. Len(outbox[c])
    BY <1>2
  <2>2. \A i \in 1 .. Len(outbox[c]) : new(c, i) \in Changes
    BY <2>1, <1>3
  <2>3. outbox'[c] \in [1 .. Len(outbox[c]) -> Changes]
    BY <1>4, <2>2
  <2> QED
    BY <2>1, <2>3, FunctionIsSeq
<1>6. outbox' \in [Conversations -> Seq(Changes)]
  BY <1>1, <1>5
<1> QED
  BY <1>3, <1>4, <1>6 DEF OutboxKept

(* A mutation leaves what is on its way, and what is on its way stays typed. *)
LEMMA MutateSomeTyped ==
  ASSUME DeliveryTypeOK, NEW c \in Conversations, MutateSome(c)
  PROVE  DeliveryTypeOK' /\ Kept
<1>1. RowsTyped
  BY DEF DeliveryTypeOK, RowsTyped
<1>2. Published(c)
  BY <1>1, MutationsPublish
<1>3. conv' \in [Conversations -> ConversationRows] /\ OthersUnchanged
  BY <1>2 DEF Published
<1>4. outbox' \in [Conversations -> Seq(Changes)] /\ OutboxKept
  BY <1>1, <1>2, PublishAppends
<1>5. PartitionKept /\ RecordsExist'
  BY <1>3, <1>4 DEF DeliveryTypeOK, OthersUnchanged, OutboxKept, PartitionKept, RecordsExist
<1> QED
  BY <1>3, <1>4, <1>5
  DEF DeliveryTypeOK, OthersUnchanged, Kept, RecordsExist

-----------------------------------------------------------------------------
(* Dispatching                                                              *)

(* A note of a dispatcher is an outcome of a row. *)
LEMMA NoteTyped ==
  ASSUME DeliveryTypeOK, NEW d \in Dispatchers, NEW c \in Conversations, NEW i \in Nat,
         NEW status \in {"pending", "sent", "failed"}, Note(d, c, i, status)
  PROVE  batch' \in [Dispatchers -> SUBSET Outcomes]
<1> DEFINE o == [conv |-> c, change |-> i, status |-> status]
<1>1. o \in Outcomes
  BY DEF Outcomes
<1>2. batch' = [batch EXCEPT ![d] = batch[d] \cup {o}]
  BY DEF Note
<1> HIDE DEF o
<1> QED
  BY <1>1, <1>2 DEF DeliveryTypeOK

(* FetchPending returns rows of the outbox. *)
LEMMA PendingRows ==
  ASSUME DeliveryTypeOK, NEW d \in Dispatchers, NEW c \in Conversations,
         NEW i \in FetchPending(d, c)
  PROVE  i \in DOMAIN outbox[c] /\ i \in Nat
<1>1. i \in DOMAIN outbox[c] /\ outbox[c] \in Seq(Changes)
  BY DEF FetchPending, DeliveryTypeOK
<1> QED
  BY <1>1

(* Sending a row of the outbox appends it to the partition. *)
LEMMA AppendTyped ==
  ASSUME DeliveryTypeOK, NEW c \in Conversations, NEW i \in DOMAIN outbox[c], i \in Nat,
         partition' = [partition EXCEPT ![c] = Append(@, i)], UNCHANGED <<outbox, writer>>
  PROVE  /\ partition' \in [Conversations -> Seq(Nat)]
         /\ Kept /\ RecordsExist' /\ ReadersStand'
<1>1. partition[c] \in Seq(Nat) /\ Append(partition[c], i) \in Seq(Nat)
  BY DEF DeliveryTypeOK
<1>2. partition' \in [Conversations -> Seq(Nat)]
  BY <1>1 DEF DeliveryTypeOK
<1>3. partition'[c] = Append(partition[c], i)
  BY DEF DeliveryTypeOK
<1>4. \A b \in Conversations : b # c => partition'[b] = partition[b]
  BY DEF DeliveryTypeOK
<1>5. /\ DOMAIN partition[c] \subseteq DOMAIN partition'[c]
      /\ \A k \in DOMAIN partition[c] : partition'[c][k] = partition[c][k]
      /\ \A k \in DOMAIN partition'[c] : k \notin DOMAIN partition[c] => partition'[c][k] = i
  BY <1>1, <1>3
<1>6. PartitionKept
  BY <1>4, <1>5 DEF PartitionKept
<1>7. OutboxKept
  BY DEF OutboxKept
<1>8. RecordsExist'
  BY <1>4, <1>5 DEF RecordsExist, DeliveryTypeOK
<1>9. ReadersStand'
  BY <1>6 DEF ReadersStand, DeliveryTypeOK, PartitionKept
<1> QED
  BY <1>2, <1>6, <1>7, <1>8, <1>9 DEF Kept

(* A change that is sent. *)
LEMMA DispatchTyped ==
  ASSUME DeliveryTypeOK, NEW d \in Dispatchers, NEW c \in Conversations, Dispatch(d, c)
  PROVE  DeliveryTypeOK' /\ Kept
<1>1. PICK i \in FetchPending(d, c) :
         partition' = [partition EXCEPT ![c] = Append(@, i)] /\ Note(d, c, i, "sent")
  BY DEF Dispatch
<1>2. UNCHANGED <<conv, outbox, group, writer, stream, faults>>
  BY DEF Dispatch
<1>3. i \in DOMAIN outbox[c] /\ i \in Nat
  BY PendingRows
<1>4. batch' \in [Dispatchers -> SUBSET Outcomes]
  BY <1>1, <1>3, NoteTyped
<1>5. partition' \in [Conversations -> Seq(Nat)] /\ Kept /\ RecordsExist' /\ ReadersStand'
  BY <1>1, <1>2, <1>3, AppendTyped
<1> QED
  BY <1>2, <1>4, <1>5 DEF DeliveryTypeOK, RecordsExist, ReadersStand

(* A fault is counted. *)
LEMMA FaultTyped ==
  ASSUME DeliveryTypeOK, Fault PROVE faults' \in 0 .. MaxFaults
  BY DeliveryAssumption DEF Fault, DeliveryTypeOK

(* A change whose sending failed, whether it arrived or not. *)
LEMMA DispatchFailsTyped ==
  ASSUME DeliveryTypeOK, NEW d \in Dispatchers, NEW c \in Conversations, DispatchFails(d, c)
  PROVE  DeliveryTypeOK' /\ Kept
<1>1. PICK i \in FetchPending(d, c) :
         /\ UNCHANGED partition \/ partition' = [partition EXCEPT ![c] = Append(@, i)]
         /\ Note(d, c, i, IF outbox[c][i].retries + 1 >= MaxRetries
                          THEN "failed" ELSE "pending")
  BY DEF DispatchFails
<1>2. UNCHANGED <<conv, outbox, group, writer, stream>> /\ faults' \in 0 .. MaxFaults
  BY FaultTyped DEF DispatchFails
<1>3. i \in DOMAIN outbox[c] /\ i \in Nat
  BY PendingRows
<1> DEFINE status == IF outbox[c][i].retries + 1 >= MaxRetries THEN "failed" ELSE "pending"
<1>4. Note(d, c, i, status) /\ status \in {"pending", "sent", "failed"}
  BY <1>1
<1> HIDE DEF status
<1>5. batch' \in [Dispatchers -> SUBSET Outcomes]
  BY <1>3, <1>4, NoteTyped
<1>6. CASE UNCHANGED partition
  BY <1>2, <1>5, <1>6 DEF DeliveryTypeOK, Kept, OutboxKept, PartitionKept
<1>7. CASE partition' = [partition EXCEPT ![c] = Append(@, i)]
  <2>1. partition' \in [Conversations -> Seq(Nat)] /\ Kept /\ RecordsExist' /\ ReadersStand'
    BY <1>2, <1>3, <1>7, AppendTyped
  <2> QED
    BY <1>2, <1>5, <2>1 DEF DeliveryTypeOK, RecordsExist, ReadersStand
<1> QED
  BY <1>1, <1>6, <1>7

(* The end of a dispatcher's transaction, one way or the other. *)
LEMMA CommitBatchTyped ==
  ASSUME DeliveryTypeOK, NEW d \in Dispatchers, CommitBatch(d)
  PROVE  DeliveryTypeOK' /\ Kept
<1>1. outbox' \in [Conversations -> Seq(Changes)] /\ OutboxKept
  BY CommitBatchRows
<1>2. UNCHANGED <<conv, partition, group, writer, stream, faults>>
  BY DEF CommitBatch
<1>3. batch' \in [Dispatchers -> SUBSET Outcomes]
  BY DEF CommitBatch, DeliveryTypeOK
<1>4. PartitionKept /\ RecordsExist'
  BY <1>1, <1>2 DEF PartitionKept, RecordsExist, OutboxKept, DeliveryTypeOK
<1> QED
  BY <1>1, <1>2, <1>3, <1>4 DEF DeliveryTypeOK, Kept, RecordsExist

(* A transaction that is rolled back leaves the outbox as it was. *)
LEMMA RollBackBatchTyped ==
  ASSUME DeliveryTypeOK, NEW d \in Dispatchers, RollBackBatch(d)
  PROVE  DeliveryTypeOK' /\ Kept
<1>1. UNCHANGED <<conv, outbox, partition, group, writer, stream>>
  BY DEF RollBackBatch
<1>2. batch' \in [Dispatchers -> SUBSET Outcomes] /\ faults' \in 0 .. MaxFaults
  BY FaultTyped DEF RollBackBatch, DeliveryTypeOK
<1> QED
  BY <1>1, <1>2 DEF DeliveryTypeOK, Kept, OutboxKept, PartitionKept

-----------------------------------------------------------------------------
(* Consuming                                                                *)

(* A goroutine that stands where it may leaves the goroutines typed. *)
LEMMA WriterTyped ==
  ASSUME DeliveryTypeOK, NEW w \in Writers, NEW c \in Conversations, NEW g \in Goroutines,
         g.on => g.next > 0, g.read => g.next \in DOMAIN partition[c],
         writer' = [writer EXCEPT ![w] = [@ EXCEPT ![c] = g]], UNCHANGED partition
  PROVE  writer' \in [Writers -> [Conversations -> Goroutines]] /\ ReadersStand'
<1>1. writer[w] \in [Conversations -> Goroutines]
  BY DEF DeliveryTypeOK
<1>2. writer' \in [Writers -> [Conversations -> Goroutines]]
  BY <1>1 DEF DeliveryTypeOK
<1>3. \A v \in Writers, b \in Conversations :
         writer'[v][b] = IF v = w /\ b = c THEN g ELSE writer[v][b]
  BY <1>1 DEF DeliveryTypeOK
<1> QED
  BY <1>2, <1>3 DEF ReadersStand, DeliveryTypeOK

(* What is known of a goroutine and of the record it reads. *)
LEMMA WriterFacts ==
  ASSUME DeliveryTypeOK, NEW w \in Writers, NEW c \in Conversations
  PROVE  /\ writer \in [Writers -> [Conversations -> Goroutines]]
         /\ writer[w] \in [Conversations -> Goroutines]
         /\ writer[w][c] \in Goroutines
         /\ writer[w][c].next \in Nat /\ writer[w][c].on \in BOOLEAN
         /\ writer[w][c].on => writer[w][c].next > 0
         /\ writer[w][c].read => writer[w][c].next \in DOMAIN partition[c]
         /\ partition[c] \in Seq(Nat)
         /\ DOMAIN partition[c] = 1 .. Len(partition[c]) /\ Len(partition[c]) \in Nat
<1>1. writer[w] \in [Conversations -> Goroutines] /\ partition[c] \in Seq(Nat)
  BY DEF DeliveryTypeOK
<1>2. writer[w][c] \in Goroutines
  BY <1>1
<1>3. writer[w][c].next \in Nat /\ writer[w][c].on \in BOOLEAN
  BY <1>2 DEF Goroutines
<1>4. /\ writer \in [Writers -> [Conversations -> Goroutines]]
      /\ writer[w][c].on => writer[w][c].next > 0
      /\ writer[w][c].read => writer[w][c].next \in DOMAIN partition[c]
  BY DEF DeliveryTypeOK
<1>5. DOMAIN partition[c] = 1 .. Len(partition[c]) /\ Len(partition[c]) \in Nat
  BY <1>1
<1> QED
  BY <1>1, <1>2, <1>3, <1>4, <1>5

(* handleMessageCreated chooses among the users. *)
LEMMA RecipientsTyped ==
  ASSUME DeliveryTypeOK, NEW w \in Writers, NEW c \in Conversations,
         writer[w][c].next \in DOMAIN partition[c]
  PROVE  Recipients(w, c) \in SUBSET Users
<1>1. Reading(w, c).to \in SUBSET Users
  BY ReadingTyped DEF Changes
<1> QED
  BY <1>1 DEF Recipients

(* The members are read: the goroutine holds the recipients. *)
LEMMA ReadMembersTyped ==
  ASSUME DeliveryTypeOK, NEW w \in Writers, NEW c \in Conversations, ReadMembers(w, c)
  PROVE  DeliveryTypeOK' /\ Kept
<1> DEFINE g == [[writer[w][c] EXCEPT !.read = TRUE] EXCEPT !.to = Recipients(w, c)]
<1>1. writer[w][c].next \in DOMAIN partition[c]
  BY WriterFacts DEF ReadMembers
<1>2. Recipients(w, c) \in SUBSET Users
  BY <1>1, RecipientsTyped
<1>3. /\ g \in Goroutines
      /\ g.on = writer[w][c].on /\ g.next = writer[w][c].next
  BY <1>2, WriterFacts DEF Goroutines
<1>4. writer' = [writer EXCEPT ![w] = [@ EXCEPT ![c] = g]]
  BY WriterFacts DEF ReadMembers, Goroutines
<1>5. UNCHANGED <<conv, outbox, batch, partition, group, stream, faults>>
  BY DEF ReadMembers
<1>6. (g.on => g.next > 0) /\ (g.read => g.next \in DOMAIN partition[c])
  BY <1>1, <1>3, WriterFacts
<1> HIDE DEF g
<1>7. writer' \in [Writers -> [Conversations -> Goroutines]] /\ ReadersStand'
  BY <1>3, <1>4, <1>5, <1>6, WriterTyped
<1> QED
  BY <1>5, <1>7 DEF DeliveryTypeOK, Kept, OutboxKept, PartitionKept, ReadersStand

(* The goroutine goes on to the record it is at, or to the next. *)
LEMMA DoneTyped ==
  ASSUME DeliveryTypeOK, NEW w \in Writers, NEW c \in Conversations, NEW g,
         \/ g = [[writer[w][c] EXCEPT !.read = FALSE] EXCEPT !.to = {}]
         \/ g = [[[[writer[w][c] EXCEPT !.read = FALSE] EXCEPT !.to = {}]
                    EXCEPT !.next = writer[w][c].next + 1] EXCEPT !.marked = TRUE]
  PROVE  /\ g \in Goroutines /\ g.read = FALSE
         /\ g.on => g.next > 0
<1> DEFINE old == writer[w][c]
<1>1. old \in Goroutines /\ old.next \in Nat /\ (old.on => old.next > 0)
  BY WriterFacts
<1> HIDE DEF old
<1>2. CASE g = [[old EXCEPT !.read = FALSE] EXCEPT !.to = {}]
  BY <1>1, <1>2 DEF Goroutines
<1>3. CASE g = [[[[old EXCEPT !.read = FALSE] EXCEPT !.to = {}]
                    EXCEPT !.next = old.next + 1] EXCEPT !.marked = TRUE]
  <2>1. g = [on |-> old.on, next |-> old.next + 1, read |-> FALSE, to |-> {},
             marked |-> TRUE]
    BY <1>1, <1>3 DEF Goroutines
  <2>2. old.on \in BOOLEAN /\ old.next + 1 \in Nat /\ old.next + 1 > 0
    BY <1>1 DEF Goroutines
  <2> QED
    BY <2>1, <2>2 DEF Goroutines
<1> QED
  BY <1>2, <1>3 DEF old

(* The inbox of every recipient is written and the record is marked. *)
LEMMA WriteInboxTyped ==
  ASSUME DeliveryTypeOK, NEW w \in Writers, NEW c \in Conversations, WriteInbox(w, c)
  PROVE  DeliveryTypeOK' /\ Kept
<1> DEFINE g == [[[[writer[w][c] EXCEPT !.read = FALSE] EXCEPT !.to = {}]
                    EXCEPT !.next = writer[w][c].next + 1] EXCEPT !.marked = TRUE]
<1>1. stream' \in [Users -> Streams]
  BY BatchInsertTyped DEF WriteInbox
<1>2. g \in Goroutines /\ g.read = FALSE /\ (g.on => g.next > 0)
  BY DoneTyped
<1>3. writer' = [writer EXCEPT ![w] = [@ EXCEPT ![c] = g]]
  BY WriterFacts DEF WriteInbox, Goroutines
<1>4. UNCHANGED <<conv, outbox, batch, partition, group, faults>>
  BY DEF WriteInbox
<1> HIDE DEF g
<1>5. writer' \in [Writers -> [Conversations -> Goroutines]] /\ ReadersStand'
  BY <1>2, <1>3, <1>4, WriterTyped
<1> QED
  BY <1>1, <1>4, <1>5 DEF DeliveryTypeOK, Kept, OutboxKept, PartitionKept, ReadersStand

(* The record will be handled again, whether it was written or not. *)
LEMMA WriteInboxFailsTyped ==
  ASSUME DeliveryTypeOK, NEW w \in Writers, NEW c \in Conversations, WriteInboxFails(w, c)
  PROVE  DeliveryTypeOK' /\ Kept
<1> DEFINE g == [[writer[w][c] EXCEPT !.read = FALSE] EXCEPT !.to = {}]
<1>1. stream' \in [Users -> Streams]
  <2>1. CASE BatchInsert(w, c)
    BY <2>1, BatchInsertTyped DEF WriteInboxFails
  <2>2. CASE UNCHANGED stream
    BY <2>2 DEF DeliveryTypeOK
  <2> QED
    BY <2>1, <2>2 DEF WriteInboxFails
<1>2. g \in Goroutines /\ g.read = FALSE /\ (g.on => g.next > 0)
  BY DoneTyped
<1>3. writer' = [writer EXCEPT ![w] = [@ EXCEPT ![c] = g]]
  BY WriterFacts DEF WriteInboxFails, Goroutines
<1>4. UNCHANGED <<conv, outbox, batch, partition, group>> /\ faults' \in 0 .. MaxFaults
  BY FaultTyped DEF WriteInboxFails
<1> HIDE DEF g
<1>5. writer' \in [Writers -> [Conversations -> Goroutines]] /\ ReadersStand'
  BY <1>2, <1>3, <1>4, WriterTyped
<1> QED
  BY <1>1, <1>4, <1>5 DEF DeliveryTypeOK, Kept, OutboxKept, PartitionKept, ReadersStand

(* A claim starts behind a record. *)
LEMMA ClaimTyped ==
  ASSUME NEW next \in Nat \ {0}
  PROVE  LET g == [Off EXCEPT !.on = TRUE, !.next = next]
         IN  g \in Goroutines /\ g.read = FALSE /\ g.next > 0
<1> DEFINE g == [Off EXCEPT !.on = TRUE, !.next = next]
<1>1. Off \in Goroutines /\ Off.read = FALSE
  BY DEF Off, Goroutines
<1> DEFINE h == [Off EXCEPT !.on = TRUE]
<1>2. h \in Goroutines /\ h.read = FALSE
  BY <1>1 DEF Goroutines
<1>3. g = [h EXCEPT !.next = next]
  OBVIOUS
<1> HIDE DEF h, g
<1>4. g \in Goroutines /\ g.read = FALSE /\ g.next > 0
  BY <1>2, <1>3 DEF Goroutines
<1> QED
  BY <1>4 DEF g

(* A rebalance gives the partition away and starts a goroutine. *)
LEMMA RebalanceTyped ==
  ASSUME DeliveryTypeOK, NEW w \in Writers, NEW c \in Conversations, Rebalance(w, c)
  PROVE  DeliveryTypeOK' /\ Kept
<1> DEFINE g == [Off EXCEPT !.on = TRUE, !.next = NextOffset(c)]
<1>1. group[c] \in [owner: Writers, committed: Nat, known: BOOLEAN]
  BY DEF DeliveryTypeOK
<1>2. NextOffset(c) \in Nat \ {0}
  BY <1>1, WriterFacts DEF NextOffset, OffsetNewest
<1>3. g \in Goroutines /\ g.read = FALSE /\ g.next > 0
  BY <1>2, ClaimTyped
<1>4. writer' = [writer EXCEPT ![w] = [@ EXCEPT ![c] = g]]
  BY DEF Rebalance
<1> HIDE DEF g
<1>5. UNCHANGED <<conv, outbox, batch, partition, stream>> /\ faults' \in 0 .. MaxFaults
  BY FaultTyped DEF Rebalance
<1>6. [group[c] EXCEPT !.owner = w] \in [owner: Writers, committed: Nat, known: BOOLEAN]
  BY <1>1
<1>7. group' \in [Conversations -> [owner: Writers, committed: Nat, known: BOOLEAN]]
  BY <1>6 DEF Rebalance, DeliveryTypeOK
<1>8. writer' \in [Writers -> [Conversations -> Goroutines]] /\ ReadersStand'
  BY <1>3, <1>4, <1>5, WriterTyped
<1> QED
  BY <1>5, <1>7, <1>8 DEF DeliveryTypeOK, Kept, OutboxKept, PartitionKept, ReadersStand

(* The goroutine of a former owner ends. *)
LEMMA LeaveTyped ==
  ASSUME DeliveryTypeOK, NEW w \in Writers, NEW c \in Conversations, Leave(w, c)
  PROVE  DeliveryTypeOK' /\ Kept
<1>1. Off \in Goroutines /\ Off.on = FALSE /\ Off.read = FALSE
  BY DEF Off, Goroutines
<1>2. writer' = [writer EXCEPT ![w] = [@ EXCEPT ![c] = Off]]
  BY WriterFacts DEF Leave
<1>3. UNCHANGED <<conv, outbox, batch, partition, group, stream, faults>>
  BY DEF Leave
<1>4. writer' \in [Writers -> [Conversations -> Goroutines]] /\ ReadersStand'
  BY <1>1, <1>2, <1>3, WriterTyped
<1> QED
  BY <1>3, <1>4 DEF DeliveryTypeOK, Kept, OutboxKept, PartitionKept, ReadersStand

(* The offset behind the last marked record is committed. *)
LEMMA CommitOffsetTyped ==
  ASSUME DeliveryTypeOK, NEW w \in Writers, NEW c \in Conversations, CommitOffset(w, c)
  PROVE  DeliveryTypeOK' /\ Kept
<1> DEFINE offset == writer[w][c].next - 1
<1>1. offset \in Nat
  BY WriterFacts DEF CommitOffset
<1> HIDE DEF offset
<1>2. group[c] \in [owner: Writers, committed: Nat, known: BOOLEAN]
  BY DEF DeliveryTypeOK
<1>3. [group[c] EXCEPT !.committed = offset, !.known = TRUE]
         \in [owner: Writers, committed: Nat, known: BOOLEAN]
  BY <1>1, <1>2
<1>4. group' = [group EXCEPT ![c] = [group[c] EXCEPT !.committed = offset, !.known = TRUE]]
  BY <1>2 DEF CommitOffset, DeliveryTypeOK, offset
<1>5. group' \in [Conversations -> [owner: Writers, committed: Nat, known: BOOLEAN]]
  BY <1>3, <1>4 DEF DeliveryTypeOK
<1>6. UNCHANGED <<conv, outbox, batch, partition, writer, stream, faults>>
  BY DEF CommitOffset
<1> QED
  BY <1>5, <1>6 DEF DeliveryTypeOK, Kept, OutboxKept, PartitionKept

-----------------------------------------------------------------------------
(* Retention                                                                *)

(* Rows expire and a prefix of a stream goes. *)
LEMMA RetentionTyped ==
  ASSUME DeliveryTypeOK, NEW u \in Users, Expire(u) \/ PruneStream(u)
  PROVE  DeliveryTypeOK' /\ Kept
<1>1. UNCHANGED <<conv, outbox, batch, partition, group, writer, faults>>
  BY DEF Expire, PruneStream
<1>2. stream[u] \in Streams /\ stream \in [Users -> Streams]
  BY DEF DeliveryTypeOK
<1>3. stream' \in [Users -> Streams]
  <2>1. CASE Expire(u)
    <3>1. PICK p \in Allocated(stream[u]) \cup {0} :
             stream' = [stream EXCEPT ![u] = [@ EXCEPT !.expired = p]]
      BY <2>1, <1>2 DEF Expire
    <3>2. p \in Nat
      BY <1>2 DEF Allocated, Streams, Entries, Applied
    <3>3. [stream[u] EXCEPT !.expired = p] \in Streams
      BY <1>2, <3>2 DEF Streams
    <3> QED
      BY <1>2, <3>1, <3>3
  <2>2. CASE PruneStream(u)
    <3>1. stream[u].retained \in Nat /\ stream[u].expired \in Nat
      BY <1>2 DEF Streams
    <3>2. Larger(stream[u].retained, stream[u].expired) \in Nat
      BY <3>1 DEF Larger
    <3>3. PruneOnly(stream[u]) \in Streams
      BY <1>2 DEF PruneOnly, Streams
    <3>4. PruneOnly(stream[u]).retained = stream[u].retained
      BY <1>2 DEF PruneOnly, Streams
    <3>5. Prune(stream[u]) =
             [PruneOnly(stream[u]) EXCEPT
                !.retained = Larger(stream[u].retained, stream[u].expired)]
      BY <3>4 DEF Prune
    <3>6. Prune(stream[u]) \in Streams
      BY <3>2, <3>3, <3>5 DEF Streams
    <3> QED
      BY <1>2, <2>2, <3>6 DEF PruneStream
  <2> QED
    BY <2>1, <2>2
<1> QED
  BY <1>1, <1>3 DEF DeliveryTypeOK, Kept, OutboxKept, PartitionKept

-----------------------------------------------------------------------------
(* Type correctness                                                         *)

(* The initial states are typed. *)
LEMMA InitTyped ==
  ASSUME DeliveryInit PROVE DeliveryTypeOK
<1> DEFINE First == [open: {TRUE}, members: SUBSET Users, joined: {[u \in Users |-> 0]},
                     read: {[u \in Users |-> 0]}, messages: {<<>>}]
           g(w, c) == IF group[c].owner = w THEN [Off EXCEPT !.on = TRUE, !.next = 1] ELSE Off
<1>1. conv \in [Conversations -> ConversationRows]
  <2>1. First \subseteq ConversationRows
    <3> SUFFICES ASSUME NEW r \in First PROVE r \in ConversationRows
      OBVIOUS
    <3>1. /\ r.joined = [u \in Users |-> 0] /\ r.read = [u \in Users |-> 0]
          /\ r.open = TRUE /\ r.members \subseteq Users /\ r.messages = <<>>
          /\ r = [open |-> r.open, members |-> r.members, joined |-> r.joined,
                  read |-> r.read, messages |-> r.messages]
      OBVIOUS
    <3>2. [u \in Users |-> 0] \in [Users -> Nat] /\ <<>> \in Seq(Messages)
      OBVIOUS
    <3> HIDE DEF First
    <3> QED
      BY <3>1, <3>2 DEF ConversationRows
  <2>2. conv \in [Conversations -> First]
    BY DEF DeliveryInit
  <2> HIDE DEF First
  <2> QED
    BY <2>1, <2>2
<1>2. outbox \in [Conversations -> Seq(Changes)] /\ partition \in [Conversations -> Seq(Nat)]
  BY DEF DeliveryInit
<1>3. batch \in [Dispatchers -> SUBSET Outcomes] /\ faults \in 0 .. MaxFaults
  BY DeliveryAssumption DEF DeliveryInit
<1>4. group \in [Conversations -> [owner: Writers, committed: Nat, known: BOOLEAN]]
  BY DeliveryAssumption DEF DeliveryInit
<1>5. \A c \in Conversations : DOMAIN partition[c] = {}
  <2>1. \A c \in Conversations : partition[c] = <<>>
    BY DEF DeliveryInit
  <2>2. <<>> \in Seq(Nat) /\ Len(<<>>) = 0
    BY EmptySeq
  <2>3. DOMAIN <<>> = 1 .. 0 /\ 1 .. 0 = {}
    BY <2>2, LenProperties
  <2> QED
    BY <2>1, <2>3, Zenon
<1>6. stream \in [Users -> Streams]
  <2> DEFINE empty == [position |-> 0, retained |-> 0, expired |-> 0,
                       entries |-> {}, applied |-> {}]
  <2>1. empty \in Streams
    BY DEF Streams
  <2>2. stream = [u \in Users |-> empty]
    BY DEF DeliveryInit
  <2> HIDE DEF empty
  <2> QED
    BY <2>1, <2>2
<1>7. ASSUME NEW w \in Writers, NEW c \in Conversations
      PROVE  g(w, c) \in Goroutines /\ g(w, c).read = FALSE /\ (g(w, c).on => g(w, c).next > 0)
  <2>1. CASE group[c].owner = w
    <3>1. g(w, c) = [Off EXCEPT !.on = TRUE, !.next = 1] /\ 1 \in Nat \ {0}
      BY <2>1
    <3> QED
      BY <3>1, ClaimTyped
  <2>2. CASE group[c].owner # w
    BY <2>2 DEF Off, Goroutines
  <2> QED
    BY <2>1, <2>2
<1>8. writer = [w \in Writers |-> [c \in Conversations |-> g(w, c)]]
  BY DEF DeliveryInit
<1> HIDE DEF g
<1>9. writer \in [Writers -> [Conversations -> Goroutines]] /\ ReadersStand
  BY <1>7, <1>8 DEF ReadersStand
<1> QED
  BY <1>1, <1>2, <1>3, <1>4, <1>5, <1>6, <1>9 DEF DeliveryTypeOK, ReadersStand

(* Every step keeps the types, the published changes and the records. *)
LEMMA StepTyped ==
  ASSUME DeliveryTypeOK, [DeliveryNext]_deliveryVars PROVE DeliveryTypeOK' /\ Kept
<1>1. CASE UNCHANGED deliveryVars
  BY <1>1 DEF deliveryVars, DeliveryTypeOK, Kept, OutboxKept, PartitionKept
<1>2. CASE \E c \in Conversations : MutateSome(c)
  BY <1>2, MutateSomeTyped
<1>3. CASE \E d \in Dispatchers : DispatcherStep(d)
  BY <1>3, DispatchTyped, DispatchFailsTyped, CommitBatchTyped, RollBackBatchTyped
  DEF DispatcherStep
<1>4. CASE \E w \in Writers, c \in Conversations : WriterStep(w, c)
  BY <1>4, ReadMembersTyped, WriteInboxTyped, WriteInboxFailsTyped, CommitOffsetTyped,
     RebalanceTyped, LeaveTyped
  DEF WriterStep
<1>5. CASE \E u \in Aging : Expire(u) \/ PruneStream(u)
  BY <1>5, RetentionTyped, DeliveryAssumption
<1> QED
  BY <1>1, <1>2, <1>3, <1>4, <1>5 DEF DeliveryNext

(* Through every interleaving of mutations, dispatchers, goroutines and     *)
(* rebalances, rows and offsets stay in their domains: a record always      *)
(* names a published change, a goroutine that has read the members stands   *)
(* at a record (ConsumeClaim, dispatchBatch, BatchInsert).                  *)
THEOREM DeliveryTypeCorrect == DeliverySpec => []DeliveryTypeOK
<1>1. DeliveryInit => DeliveryTypeOK
  BY InitTyped
<1>2. DeliveryTypeOK /\ [DeliveryNext]_deliveryVars => DeliveryTypeOK'
  BY StepTyped
<1> QED
  BY <1>1, <1>2, PTL DEF DeliverySpec

-----------------------------------------------------------------------------
(* Order                                                                    *)

Arrived(c, i) == \E l \in DOMAIN partition[c] : partition[c][l] = i

(* What is marked as sent, in the table or in a transaction, has arrived.   *)
SentArrived ==
    \A c \in Conversations : \A i \in DOMAIN outbox[c] :
        outbox[c][i].status = "sent" => Arrived(c, i)
NotedArrived ==
    \A d \in Dispatchers : \A o \in batch[d] :
        o.status = "sent" => Arrived(o.conv, o.change)

(* SentInOrder alone is not inductive: FetchPending goes by the marks. *)
OrderInv == DeliveryTypeOK /\ SentArrived /\ NotedArrived /\ SentInOrder

(* What has arrived stays where it is. *)
LEMMA ArrivedKept ==
  ASSUME PartitionKept, NEW c \in Conversations, NEW i, Arrived(c, i)
  PROVE  Arrived(c, i)'
  BY DEF PartitionKept, Arrived

(* FetchPending returns a change only when all older ones have arrived. *)
LEMMA OlderArrived ==
  ASSUME OrderInv, NEW d \in Dispatchers, NEW c \in Conversations,
         NEW i \in FetchPending(d, c), NEW j \in 1 .. i - 1
  PROVE  Arrived(c, j)
<1>1. i \in DOMAIN outbox[c] /\ i \in Nat
  BY PendingRows DEF OrderInv
<1>2. j \in DOMAIN outbox[c]
  <2>1. outbox[c] \in Seq(Changes)
    BY DEF OrderInv, DeliveryTypeOK
  <2> QED
    BY <1>1, <2>1
<1>3. StatusFor(d, c, j) = "sent"
  BY DEF FetchPending
<1>4. CASE \E o \in batch[d] : o.conv = c /\ o.change = j
  <2> DEFINE o == CHOOSE x \in batch[d] : x.conv = c /\ x.change = j
  <2>1. o \in batch[d] /\ o.conv = c /\ o.change = j
    BY <1>4
  <2>2. StatusFor(d, c, j) = o.status
    BY <1>4 DEF StatusFor
  <2> HIDE DEF o
  <2> QED
    BY <1>3, <2>1, <2>2 DEF OrderInv, NotedArrived
<1>5. CASE ~ \E o \in batch[d] : o.conv = c /\ o.change = j
  BY <1>2, <1>3, <1>5 DEF StatusFor, OrderInv, SentArrived
<1> QED
  BY <1>4, <1>5

(* Sending such a change keeps the order of first arrivals. *)
LEMMA AppendInOrder ==
  ASSUME OrderInv, NEW d \in Dispatchers, NEW c \in Conversations,
         NEW i \in FetchPending(d, c),
         partition' = [partition EXCEPT ![c] = Append(@, i)]
  PROVE  SentInOrder' /\ Arrived(c, i)'
<1>1. partition[c] \in Seq(Nat) /\ i \in Nat
  BY PendingRows DEF OrderInv, DeliveryTypeOK
<1>2. partition'[c] = Append(partition[c], i)
  BY DEF OrderInv, DeliveryTypeOK
<1> DEFINE n == Len(partition[c])
<1>3. n \in Nat /\ DOMAIN partition[c] = 1 .. n
  BY <1>1
<1>4. /\ DOMAIN partition'[c] = 1 .. n + 1
      /\ partition'[c][n + 1] = i
      /\ \A k \in 1 .. n : partition'[c][k] = partition[c][k]
  BY <1>1, <1>2
<1> HIDE DEF n
<1>5. \A b \in Conversations : b # c => partition'[b] = partition[b]
  BY DEF OrderInv, DeliveryTypeOK
<1>6. ASSUME NEW k \in DOMAIN partition'[c], NEW j \in 1 .. partition'[c][k] - 1
      PROVE  \E l \in 1 .. k - 1 : partition'[c][l] = j
  <2>1. CASE k = n + 1
    <3>1. PICK l \in DOMAIN partition[c] : partition[c][l] = j
      BY <1>4, <1>6, <2>1, OlderArrived DEF Arrived
    <3>2. l \in 1 .. k - 1
      BY <1>3, <2>1, <3>1
    <3> QED
      BY <1>3, <1>4, <3>1, <3>2
  <2>2. CASE k # n + 1
    <3>1. k \in 1 .. n /\ j \in 1 .. partition[c][k] - 1
      BY <1>3, <1>4, <1>6, <2>2
    <3>2. PICK l \in 1 .. k - 1 : partition[c][l] = j
      BY <1>3, <3>1 DEF OrderInv, SentInOrder
    <3>3. l \in 1 .. n
      BY <1>3, <3>1, <3>2
    <3> QED
      BY <1>4, <3>2, <3>3
  <2> QED
    BY <2>1, <2>2
<1>7. SentInOrder'
  BY <1>5, <1>6 DEF OrderInv, SentInOrder
<1>8. Arrived(c, i)'
  BY <1>3, <1>4 DEF Arrived
<1> QED
  BY <1>7, <1>8

(* A step that marks nothing on its own authority keeps the marks true. *)
MarksFollow ==
    /\ \A c \in Conversations : \A i \in DOMAIN outbox'[c] :
          outbox'[c][i].status = "sent" =>
             \/ i \in DOMAIN outbox[c] /\ outbox[c][i].status = "sent"
             \/ \E d \in Dispatchers : \E o \in batch[d] :
                   o.conv = c /\ o.change = i /\ o.status = "sent"
    /\ \A d \in Dispatchers : \A o \in batch'[d] :
          o.status = "sent" => o \in batch[d] \/ Arrived(o.conv, o.change)'

(* Marks that follow arrivals, kept by a step. *)
LEMMA OrderFollows ==
  ASSUME OrderInv, DeliveryTypeOK', PartitionKept, MarksFollow, SentInOrder'
  PROVE  OrderInv'
<1>1. ASSUME NEW d \in Dispatchers, NEW o \in batch[d], o.status = "sent"
      PROVE  o.conv \in Conversations /\ Arrived(o.conv, o.change)'
  <2>1. o \in Outcomes
    BY DEF OrderInv, DeliveryTypeOK
  <2>2. o.conv \in Conversations
    BY <2>1 DEF Outcomes
  <2>3. Arrived(o.conv, o.change)
    BY <1>1 DEF OrderInv, NotedArrived
  <2> QED
    BY <2>2, <2>3, ArrivedKept
<1>2. SentArrived'
  <2> SUFFICES ASSUME NEW c \in Conversations, NEW i \in DOMAIN outbox'[c],
                      outbox'[c][i].status = "sent"
               PROVE  Arrived(c, i)'
    BY DEF SentArrived
  <2>1. CASE i \in DOMAIN outbox[c] /\ outbox[c][i].status = "sent"
    BY <2>1, ArrivedKept DEF OrderInv, SentArrived
  <2>2. CASE \E d \in Dispatchers : \E o \in batch[d] :
               o.conv = c /\ o.change = i /\ o.status = "sent"
    BY <1>1, <2>2
  <2> QED
    BY <2>1, <2>2 DEF MarksFollow
<1>3. NotedArrived'
  BY <1>1 DEF NotedArrived, MarksFollow
<1> QED
  BY <1>2, <1>3 DEF OrderInv

(* A step that neither sends nor marks. *)
LEMMA QuietOrder ==
  ASSUME OrderInv, UNCHANGED <<outbox, batch, partition>>
  PROVE  MarksFollow /\ SentInOrder'
  BY DEF MarksFollow, OrderInv, SentInOrder

(* A mutation publishes pending changes. *)
LEMMA MutationOrder ==
  ASSUME OrderInv, NEW c \in Conversations, MutateSome(c)
  PROVE  MarksFollow /\ SentInOrder'
<1>1. RowsTyped
  BY DEF OrderInv, DeliveryTypeOK, RowsTyped
<1>2. Published(c)
  BY <1>1, MutationsPublish
<1>3. \A b \in Conversations : \A i \in DOMAIN outbox'[b] :
         \/ i \in DOMAIN outbox[b] /\ outbox'[b][i] = outbox[b][i]
         \/ outbox'[b][i].status = "pending"
  BY <1>1, <1>2, PublishAppends
<1>4. UNCHANGED <<batch, partition>>
  BY <1>2 DEF Published, OthersUnchanged
<1> QED
  BY <1>3, <1>4 DEF MarksFollow, OrderInv, SentInOrder

(* A dispatcher notes a change as sent when Kafka has taken it. *)
LEMMA NoteOrder ==
  ASSUME OrderInv, NEW d \in Dispatchers, NEW c \in Conversations, NEW i,
         NEW status, Note(d, c, i, status), UNCHANGED outbox,
         status = "sent" => Arrived(c, i)'
  PROVE  MarksFollow
<1> DEFINE new == [conv |-> c, change |-> i, status |-> status]
<1>1. batch' = [batch EXCEPT ![d] = batch[d] \cup {new}]
  BY DEF Note
<1>2. new.conv = c /\ new.change = i /\ new.status = status
  OBVIOUS
<1> HIDE DEF new
<1>3. ASSUME NEW b \in Dispatchers, NEW o \in batch'[b] PROVE o \in batch[b] \/ o = new
  BY <1>1, <1>3 DEF OrderInv, DeliveryTypeOK
<1> QED
  BY <1>2, <1>3 DEF MarksFollow

(* A change that is sent arrives behind all older ones. *)
LEMMA DispatchOrder ==
  ASSUME OrderInv, NEW d \in Dispatchers, NEW c \in Conversations, Dispatch(d, c)
  PROVE  MarksFollow /\ SentInOrder'
<1>1. PICK i \in FetchPending(d, c) :
         partition' = [partition EXCEPT ![c] = Append(@, i)] /\ Note(d, c, i, "sent")
  BY DEF Dispatch
<1>2. SentInOrder' /\ Arrived(c, i)'
  BY <1>1, AppendInOrder
<1>3. UNCHANGED outbox
  BY DEF Dispatch
<1> QED
  BY <1>1, <1>2, <1>3, NoteOrder

(* So does one that arrives although its sending failed; it is not marked. *)
LEMMA DispatchFailsOrder ==
  ASSUME OrderInv, NEW d \in Dispatchers, NEW c \in Conversations, DispatchFails(d, c)
  PROVE  MarksFollow /\ SentInOrder'
<1>1. PICK i \in FetchPending(d, c) :
         /\ UNCHANGED partition \/ partition' = [partition EXCEPT ![c] = Append(@, i)]
         /\ Note(d, c, i, IF outbox[c][i].retries + 1 >= MaxRetries
                          THEN "failed" ELSE "pending")
  BY DEF DispatchFails
<1> DEFINE status == IF outbox[c][i].retries + 1 >= MaxRetries THEN "failed" ELSE "pending"
<1>2. Note(d, c, i, status) /\ status # "sent"
  BY <1>1
<1> HIDE DEF status
<1>3. MarksFollow
  BY <1>2, NoteOrder DEF DispatchFails
<1>4. SentInOrder'
  BY <1>1, AppendInOrder DEF OrderInv, SentInOrder
<1> QED
  BY <1>3, <1>4

(* The end of a transaction moves its marks to the table or forgets them. *)
LEMMA BatchEndOrder ==
  ASSUME OrderInv, NEW d \in Dispatchers, CommitBatch(d) \/ RollBackBatch(d)
  PROVE  MarksFollow /\ SentInOrder'
<1>1. DeliveryTypeOK /\ UNCHANGED partition
  BY DEF OrderInv, CommitBatch, RollBackBatch
<1>2. \A b \in Dispatchers : batch'[b] \subseteq batch[b]
  BY DEF OrderInv, DeliveryTypeOK, CommitBatch, RollBackBatch
<1>3. ASSUME NEW c \in Conversations, NEW i \in DOMAIN outbox'[c],
             outbox'[c][i].status = "sent"
      PROVE  \/ i \in DOMAIN outbox[c] /\ outbox[c][i].status = "sent"
             \/ \E o \in batch[d] : o.conv = c /\ o.change = i /\ o.status = "sent"
  <2>1. CASE CommitBatch(d)
    BY <1>1, <1>3, <2>1, CommitBatchRows
  <2>2. CASE RollBackBatch(d)
    BY <1>3, <2>2 DEF RollBackBatch
  <2> QED
    BY <2>1, <2>2
<1> QED
  BY <1>1, <1>2, <1>3 DEF MarksFollow, OrderInv, SentInOrder

(* Every step keeps the marks true and the order of first arrivals. *)
LEMMA StepOrdered ==
  ASSUME OrderInv, [DeliveryNext]_deliveryVars PROVE OrderInv'
<1>1. DeliveryTypeOK' /\ PartitionKept
  BY StepTyped DEF OrderInv, Kept
<1>2. MarksFollow /\ SentInOrder'
  <2>1. CASE UNCHANGED deliveryVars
    BY <2>1, QuietOrder DEF deliveryVars
  <2>2. CASE \E c \in Conversations : MutateSome(c)
    BY <2>2, MutationOrder
  <2>3. CASE \E d \in Dispatchers : DispatcherStep(d)
    BY <2>3, DispatchOrder, DispatchFailsOrder, BatchEndOrder DEF DispatcherStep
  <2>4. CASE \E w \in Writers, c \in Conversations : WriterStep(w, c)
    <3>1. UNCHANGED <<outbox, batch, partition>>
      BY <2>4 DEF WriterStep, ReadMembers, WriteInbox, WriteInboxFails, CommitOffset,
                  Rebalance, Leave
    <3> QED
      BY <3>1, QuietOrder
  <2>5. CASE \E u \in Aging : Expire(u) \/ PruneStream(u)
    <3>1. UNCHANGED <<outbox, batch, partition>>
      BY <2>5 DEF Expire, PruneStream
    <3> QED
      BY <3>1, QuietOrder
  <2> QED
    BY <2>1, <2>2, <2>3, <2>4, <2>5 DEF DeliveryNext
<1> QED
  BY <1>1, <1>2, OrderFollows

(* Before the first change nothing has arrived. *)
LEMMA InitOrdered ==
  ASSUME DeliveryInit PROVE OrderInv
<1> SUFFICES ASSUME DeliveryInit PROVE OrderInv
  OBVIOUS
<1>1. /\ \A c \in Conversations : outbox[c] = <<>> /\ partition[c] = <<>>
      /\ \A d \in Dispatchers : batch[d] = {}
  BY DEF DeliveryInit
<1>2. <<>> \in Seq(Nat) /\ Len(<<>>) = 0
  BY EmptySeq
<1>3. DOMAIN <<>> = {}
  BY <1>2, LenProperties
<1> QED
  BY <1>1, <1>3, InitTyped DEF OrderInv, SentArrived, NotedArrived, SentInOrder

(* However many dispatchers run, roll back, fail and repeat, the changes of *)
(* a conversation reach Kafka for the first time in the order in which they *)
(* were published (FetchPending, InTransaction).                            *)
THEOREM ChangesSentInOrder == DeliverySpec => []SentInOrder
<1>1. DeliveryInit => OrderInv
  BY InitOrdered
<1>2. OrderInv /\ [DeliveryNext]_deliveryVars => OrderInv'
  BY StepOrdered
<1>3. OrderInv => SentInOrder
  BY DEF OrderInv
<1> QED
  BY <1>1, <1>2, <1>3, PTL DEF DeliverySpec

-----------------------------------------------------------------------------
(* Every change once                                                        *)

(* OncePerChange for one stream. *)
Once(s) ==
    /\ \A a, b \in s.applied : a.conv = b.conv /\ a.change = b.change => a = b
    /\ \A e, f \in s.entries : e.position = f.position => e = f
    /\ \A e \in s.entries :
          /\ e.position <= s.position
          /\ \E a \in s.applied : /\ a.conv = e.conv /\ a.change = e.change
                                  /\ a.position = e.position

(* BatchInsert looks an applied change up before it inserts, and takes the  *)
(* position behind the last one.                                            *)
LEMMA InsertOnce ==
  ASSUME DeliveryTypeOK, NEW c \in Conversations, NEW i \in DOMAIN outbox[c], i \in Nat,
         NEW s \in Streams, Once(s)
  PROVE  Once(Insert(s, c, i))
<1> DEFINE r == outbox[c][i]
           next == s.position + 1
           entry == [position |-> next, conv |-> c, change |-> i, kind |-> r.kind,
                     message |-> r.message, upTo |-> r.upTo]
           mark(n) == [conv |-> c, change |-> i, position |-> n]
<1>1. /\ s.position \in Nat /\ next \in Nat /\ next > s.position
      /\ \A e \in s.entries : e.position \in Nat
  BY DEF Streams, Entries
<1>2. CASE \E a \in s.applied : a.conv = c /\ a.change = i
  BY <1>2 DEF Insert
<1>3. CASE ~ \E a \in s.applied : a.conv = c /\ a.change = i
  <2>1. ASSUME NEW n \in Nat
        PROVE  \A a, b \in s.applied \cup {mark(n)} :
                  a.conv = b.conv /\ a.change = b.change => a = b
    BY <1>3 DEF Once
  <2>2. CASE Insert(s, c, i) = [s EXCEPT !.applied = @ \cup {mark(0)}]
    <3> DEFINE t == [s EXCEPT !.applied = @ \cup {mark(0)}]
    <3>1. /\ t.applied = s.applied \cup {mark(0)}
          /\ t.entries = s.entries /\ t.position = s.position
      BY DEF Streams
    <3> HIDE DEF t, mark
    <3>2. Once(t)
      BY <2>1, <3>1 DEF Once
    <3> QED
      BY <2>2, <3>2 DEF t
  <2>3. CASE Insert(s, c, i) = InsertAgain(s, c, i)
    <3> DEFINE t == InsertAgain(s, c, i)
               gone == Coalesced(s, c, r)
    <3>1. /\ t.applied = s.applied \cup {mark(next)} /\ t.position = next
          /\ t.entries = (s.entries \ gone) \cup {entry}
      BY DEF InsertAgain, Streams
    <3>2. /\ entry.position = next /\ entry.conv = c /\ entry.change = i
          /\ mark(next).position = next /\ mark(next).conv = c /\ mark(next).change = i
      OBVIOUS
    <3> HIDE DEF t, gone, mark, entry, next
    <3>3. \A a, b \in t.applied : a.conv = b.conv /\ a.change = b.change => a = b
      BY <1>1, <2>1, <3>1
    <3>4. \A e \in t.entries : e = entry \/ e \in s.entries
      BY <3>1
    <3>5. \A e, f \in t.entries : e.position = f.position => e = f
      <4>1. \A e \in s.entries : e.position # entry.position
        BY <1>1, <3>2 DEF Once
      <4>2. \A e, f \in s.entries : e.position = f.position => e = f
        BY DEF Once
      <4> QED
        BY <3>4, <4>1, <4>2
    <3>6. \A e \in t.entries :
             /\ e.position <= t.position
             /\ \E a \in t.applied : /\ a.conv = e.conv /\ a.change = e.change
                                     /\ a.position = e.position
      <4> SUFFICES ASSUME NEW e \in t.entries
                   PROVE  /\ e.position <= t.position
                          /\ \E a \in t.applied :
                                /\ a.conv = e.conv /\ a.change = e.change
                                /\ a.position = e.position
        OBVIOUS
      <4>1. CASE e = entry
        BY <1>1, <3>1, <3>2, <4>1
      <4>2. CASE e \in s.entries
        BY <1>1, <3>1, <4>2 DEF Once
      <4> QED
        BY <3>4, <4>1, <4>2
    <3>7. Once(t)
      BY <3>3, <3>5, <3>6 DEF Once
    <3> QED
      BY <2>3, <3>7 DEF t
  <2> QED
    BY <1>3, <2>2, <2>3 DEF Insert
<1> QED
  BY <1>2, <1>3

(* The streams a writer writes. *)
LEMMA BatchInsertOnce ==
  ASSUME DeliveryTypeOK, OncePerChange, NEW w \in Writers, NEW c \in Conversations,
         writer[w][c].read, BatchInsert(w, c)
  PROVE  OncePerChange'
<1> DEFINE i == partition[c][writer[w][c].next]
<1>1. i \in DOMAIN outbox[c] /\ i \in Nat
  BY ReadingTyped DEF DeliveryTypeOK
<1>2. \A u \in Users : stream[u] \in Streams /\ Once(stream[u])
  BY DEF DeliveryTypeOK, OncePerChange, Once
<1>3. \A u \in Users : stream'[u] = stream[u] \/ stream'[u] = Insert(stream[u], c, i)
  BY DEF BatchInsert
<1> HIDE DEF i
<1>4. \A u \in Users : Once(stream'[u])
  BY <1>1, <1>2, <1>3, InsertOnce
<1> QED
  BY <1>4 DEF OncePerChange, Once

(* Retention takes entries away and nothing else that counts here. *)
LEMMA RetentionEntries ==
  ASSUME DeliveryTypeOK, NEW u \in Users, Expire(u) \/ PruneStream(u)
  PROVE  \A v \in Users :
            /\ stream'[v].applied = stream[v].applied
            /\ stream'[v].position = stream[v].position
            /\ stream'[v].entries \subseteq stream[v].entries
<1>1. stream[u] \in Streams /\ stream \in [Users -> Streams]
  BY DEF DeliveryTypeOK
<1>2. \A v \in Users : v # u => stream'[v] = stream[v]
  BY <1>1 DEF Expire, PruneStream
<1>3. /\ stream'[u].applied = stream[u].applied /\ stream'[u].position = stream[u].position
      /\ stream'[u].entries \subseteq stream[u].entries
  <2>1. CASE Expire(u)
    BY <1>1, <2>1 DEF Expire, Streams
  <2>2. CASE PruneStream(u)
    <3>1. stream'[u] = Prune(stream[u])
      BY <1>1, <2>2 DEF PruneStream
    <3>2. PruneOnly(stream[u]) \in Streams
      BY <1>1 DEF PruneOnly, Streams
    <3>3. /\ PruneOnly(stream[u]).applied = stream[u].applied
          /\ PruneOnly(stream[u]).position = stream[u].position
          /\ PruneOnly(stream[u]).entries \subseteq stream[u].entries
      BY <1>1 DEF PruneOnly, Streams
    <3>4. /\ Prune(stream[u]).applied = PruneOnly(stream[u]).applied
          /\ Prune(stream[u]).position = PruneOnly(stream[u]).position
          /\ Prune(stream[u]).entries = PruneOnly(stream[u]).entries
      BY <3>2 DEF Prune, Streams
    <3> QED
      BY <3>1, <3>3, <3>4
  <2> QED
    BY <2>1, <2>2
<1> QED
  BY <1>2, <1>3

(* What is left of a stream has every change once. *)
LEMMA RetentionOnce ==
  ASSUME DeliveryTypeOK, OncePerChange, NEW u \in Users, Expire(u) \/ PruneStream(u)
  PROVE  OncePerChange'
  BY RetentionEntries DEF OncePerChange

(* Only a writer's transaction adds to a stream. *)
LEMMA StepOnce ==
  ASSUME DeliveryTypeOK, OncePerChange, [DeliveryNext]_deliveryVars PROVE OncePerChange'
<1>1. CASE \E w \in Writers, c \in Conversations : WriterStep(w, c)
  <2>1. PICK w \in Writers, c \in Conversations : WriterStep(w, c)
    BY <1>1
  <2>2. CASE BatchInsert(w, c) /\ writer[w][c].read
    BY <2>2, BatchInsertOnce
  <2>3. CASE UNCHANGED stream
    BY <2>3 DEF OncePerChange
  <2> QED
    BY <2>1, <2>2, <2>3 DEF WriterStep, ReadMembers, WriteInbox, WriteInboxFails,
                            CommitOffset, Rebalance, Leave
<1>2. CASE \E u \in Aging : Expire(u) \/ PruneStream(u)
  BY <1>2, RetentionOnce, DeliveryAssumption
<1>3. CASE UNCHANGED stream
  BY <1>3 DEF OncePerChange
<1>4. ASSUME NEW c \in Conversations, MutateSome(c) PROVE UNCHANGED stream
  BY <1>4 DEF MutateSome, Mutate, SendMessage, DeleteConversation, EditMessage,
     RecallMessage, DeleteForAll, DeleteForMe, MarkAsRead, AddMember, RemoveMember
<1>5. ASSUME NEW d \in Dispatchers, DispatcherStep(d) PROVE UNCHANGED stream
  BY <1>5 DEF DispatcherStep, CommitBatch, RollBackBatch, Dispatch, DispatchFails
<1> QED
  BY <1>1, <1>2, <1>3, <1>4, <1>5 DEF DeliveryNext, deliveryVars

(* Sent twice, delivered twice or handled by two owners at once, a change   *)
(* has one position in a stream (BatchInsert).                              *)
THEOREM ChangesAppliedOnce == DeliverySpec => []OncePerChange
<1>1. DeliveryInit => OncePerChange
  BY DEF DeliveryInit, OncePerChange
<1>2. DeliveryTypeOK /\ OncePerChange /\ [DeliveryNext]_deliveryVars => OncePerChange'
  BY StepOnce
<1> QED
  BY <1>1, <1>2, DeliveryTypeCorrect, PTL DEF DeliverySpec

-----------------------------------------------------------------------------
(* Recipients                                                               *)

(* An entry is of a published change that was for the stream's user. *)
EntriesMeant ==
    \A u \in Users : \A e \in stream[u].entries :
        /\ e.conv \in Conversations /\ e.change \in DOMAIN outbox[e.conv]
        /\ u \in outbox[e.conv][e.change].to

(* So are the recipients a goroutine holds, of the record it stands at. *)
ReadersMean ==
    \A w \in Writers, c \in Conversations :
        writer[w][c].read => writer[w][c].to \subseteq Reading(w, c).to

(* OnlyRecipients is not inductive: the recipients wait in the goroutine    *)
(* while members, outbox and partition change.                              *)
MeantInv == DeliveryTypeOK /\ EntriesMeant /\ ReadersMean

(* What was meant stays meant. *)
LEMMA EntriesStayMeant ==
  ASSUME EntriesMeant, OutboxKept, NEW u \in Users, NEW e \in stream[u].entries
  PROVE  /\ e.conv \in Conversations /\ e.change \in DOMAIN outbox'[e.conv]
         /\ u \in outbox'[e.conv][e.change].to
  BY DEF EntriesMeant, OutboxKept

(* The record a goroutine stands at keeps its recipients. *)
LEMMA ReadersStayMeaning ==
  ASSUME MeantInv, Kept, NEW w \in Writers, NEW c \in Conversations,
         writer'[w][c] = writer[w][c], writer[w][c].read
  PROVE  writer'[w][c].to \subseteq Reading(w, c)'.to
<1> DEFINE n == writer[w][c].next
           i == partition[c][n]
<1>1. n \in DOMAIN partition[c] /\ i \in DOMAIN outbox[c]
  BY DEF MeantInv, DeliveryTypeOK
<1>2. partition'[c][n] = i /\ outbox'[c][i].to = outbox[c][i].to
  BY <1>1 DEF Kept, PartitionKept, OutboxKept
<1>3. Reading(w, c)'.to = Reading(w, c).to
  BY <1>2 DEF Reading
<1> QED
  BY <1>3 DEF MeantInv, ReadersMean

(* A step that writes no stream and reads no members. *)
LEMMA QuietMeant ==
  ASSUME MeantInv, DeliveryTypeOK', Kept, UNCHANGED stream,
         \A w \in Writers, c \in Conversations :
            writer'[w][c] = writer[w][c] \/ writer'[w][c].read = FALSE
  PROVE  MeantInv'
<1>1. EntriesMeant'
  BY EntriesStayMeant DEF EntriesMeant, MeantInv, Kept
<1>2. ReadersMean'
  BY ReadersStayMeaning DEF ReadersMean
<1> QED
  BY <1>1, <1>2 DEF MeantInv

(* BatchInsert gives the users it is given an entry of the record. *)
LEMMA BatchInsertMeant ==
  ASSUME MeantInv, NEW w \in Writers, NEW c \in Conversations, writer[w][c].read,
         BatchInsert(w, c), UNCHANGED outbox
  PROVE  EntriesMeant'
<1> DEFINE i == partition[c][writer[w][c].next]
<1>1. /\ i \in DOMAIN outbox[c] /\ Reading(w, c) = outbox[c][i]
      /\ writer[w][c].to \subseteq Reading(w, c).to
  BY DEF MeantInv, DeliveryTypeOK, ReadersMean, Reading
<1>2. \A u \in Users : stream'[u] = IF u \in writer[w][c].to
                                    THEN Insert(stream[u], c, i) ELSE stream[u]
  BY DEF BatchInsert
<1> HIDE DEF i
<1>3. ASSUME NEW u \in Users, NEW e \in stream'[u].entries, e \notin stream[u].entries
      PROVE  e.conv = c /\ e.change = i /\ u \in writer[w][c].to
  <2>1. u \in writer[w][c].to /\ stream'[u] = Insert(stream[u], c, i)
    BY <1>2, <1>3
  <2>2. stream[u] \in Streams
    BY DEF MeantInv, DeliveryTypeOK
  <2>3. CASE Insert(stream[u], c, i) = InsertAgain(stream[u], c, i)
    BY <1>3, <2>1, <2>2, <2>3 DEF InsertAgain, Streams
  <2>4. CASE Insert(stream[u], c, i).entries = stream[u].entries
    BY <1>3, <2>1, <2>4
  <2> QED
    BY <2>2, <2>3, <2>4 DEF Insert, Streams
<1> SUFFICES ASSUME NEW u \in Users, NEW e \in stream'[u].entries
             PROVE  /\ e.conv \in Conversations /\ e.change \in DOMAIN outbox[e.conv]
                    /\ u \in outbox[e.conv][e.change].to
  BY DEF EntriesMeant
<1>4. CASE e \in stream[u].entries
  BY <1>4 DEF MeantInv, EntriesMeant
<1>5. CASE e \notin stream[u].entries
  BY <1>1, <1>3, <1>5
<1> QED
  BY <1>4, <1>5

(* handleMessageCreated chooses among the recipients of the publication. *)
LEMMA ReadMembersMeant ==
  ASSUME MeantInv, NEW w \in Writers, NEW c \in Conversations, ReadMembers(w, c)
  PROVE  MeantInv'
<1>1. DeliveryTypeOK' /\ Kept
  BY ReadMembersTyped DEF MeantInv
<1>2. UNCHANGED <<outbox, partition, stream>>
  BY DEF ReadMembers
<1>3. /\ writer'[w][c].to = Recipients(w, c)
      /\ writer'[w][c].next = writer[w][c].next
  BY WriterFacts DEF ReadMembers, Goroutines, MeantInv
<1>4. Recipients(w, c) \subseteq Reading(w, c).to
  BY DEF Recipients
<1>5. Reading(w, c)' = Reading(w, c)
  BY <1>2, <1>3 DEF Reading
<1>6. \A v \in Writers, b \in Conversations :
         v # w \/ b # c => writer'[v][b] = writer[v][b]
  BY WriterFacts DEF ReadMembers, MeantInv
<1>7. ReadersMean'
  <2> SUFFICES ASSUME NEW v \in Writers, NEW b \in Conversations, writer'[v][b].read
               PROVE  writer'[v][b].to \subseteq Reading(v, b)'.to
    BY DEF ReadersMean
  <2>1. CASE v = w /\ b = c
    BY <1>3, <1>4, <1>5, <2>1
  <2>2. CASE v # w \/ b # c
    <3>1. writer'[v][b] = writer[v][b]
      BY <1>6, <2>2
    <3> QED
      BY <1>1, <3>1, ReadersStayMeaning
  <2> QED
    BY <2>1, <2>2
<1>8. EntriesMeant'
  BY <1>2 DEF EntriesMeant, MeantInv
<1> QED
  BY <1>1, <1>7, <1>8 DEF MeantInv

(* A goroutine that writes, ends or begins holds no recipients afterwards. *)
LEMMA GoroutineReset ==
  ASSUME DeliveryTypeOK, NEW w \in Writers, NEW c \in Conversations,
         WriteInbox(w, c) \/ WriteInboxFails(w, c) \/ Rebalance(w, c) \/ Leave(w, c)
  PROVE  \A v \in Writers, b \in Conversations :
            writer'[v][b] = writer[v][b] \/ writer'[v][b].read = FALSE
<1> SUFFICES ASSUME NEW v \in Writers, NEW b \in Conversations
             PROVE  writer'[v][b] = writer[v][b] \/ writer'[v][b].read = FALSE
  OBVIOUS
<1> DEFINE quit == [[writer[w][c] EXCEPT !.read = FALSE] EXCEPT !.to = {}]
           done == [[quit EXCEPT !.next = writer[w][c].next + 1] EXCEPT !.marked = TRUE]
           claim == [Off EXCEPT !.on = TRUE, !.next = NextOffset(c)]
<1>1. quit.read = FALSE /\ done.read = FALSE
  BY DoneTyped
<1>2. Off.read = FALSE /\ claim.read = FALSE
  <2>1. Off \in Goroutines /\ Off.read = FALSE
    BY DEF Off, Goroutines
  <2> HIDE DEF claim
  <2>2. group[c] \in [owner: Writers, committed: Nat, known: BOOLEAN]
    BY DEF DeliveryTypeOK
  <2>3. NextOffset(c) \in Nat \ {0}
    BY <2>2, WriterFacts DEF NextOffset, OffsetNewest
  <2>4. claim.read = FALSE
    BY <2>3, ClaimTyped DEF claim
  <2> QED
    BY <2>1, <2>4
<1>3. \E g \in {quit, done, claim, Off} : writer' = [writer EXCEPT ![w] = [@ EXCEPT ![c] = g]]
  <2>1. CASE WriteInbox(w, c)
    <3>1. writer' = [writer EXCEPT ![w] = [@ EXCEPT ![c] = done]]
      BY <2>1, WriterFacts DEF WriteInbox, Goroutines
    <3> HIDE DEF quit, done, claim
    <3> QED
      BY <3>1
  <2>2. CASE WriteInboxFails(w, c)
    <3>1. writer' = [writer EXCEPT ![w] = [@ EXCEPT ![c] = quit]]
      BY <2>2, WriterFacts DEF WriteInboxFails, Goroutines
    <3> HIDE DEF quit, done, claim
    <3> QED
      BY <3>1
  <2>3. CASE Rebalance(w, c)
    <3>1. writer' = [writer EXCEPT ![w] = [@ EXCEPT ![c] = claim]]
      BY <2>3 DEF Rebalance
    <3> HIDE DEF quit, done, claim
    <3> QED
      BY <3>1
  <2>4. CASE Leave(w, c)
    <3> HIDE DEF quit, done, claim
    <3>1. writer' = [writer EXCEPT ![w] = [@ EXCEPT ![c] = Off]]
      BY <2>4 DEF Leave
    <3> QED
      BY <3>1
  <2> QED
    BY <2>1, <2>2, <2>3, <2>4
<1> HIDE DEF quit, done, claim
<1>4. PICK g \in {quit, done, claim, Off} : writer' = [writer EXCEPT ![w] = [@ EXCEPT ![c] = g]]
  BY <1>3
<1>5. g.read = FALSE
  BY <1>1, <1>2, <1>4
<1> QED
  BY <1>4, <1>5, WriterFacts

(* Before the first change there is nothing to be meant for. *)
LEMMA InitMeant ==
  ASSUME DeliveryInit PROVE MeantInv
<1> SUFFICES ASSUME DeliveryInit PROVE MeantInv
  OBVIOUS
<1>1. \A u \in Users : stream[u].entries = {}
  BY DEF DeliveryInit
<1>2. ASSUME NEW w \in Writers, NEW c \in Conversations PROVE writer[w][c].read = FALSE
  <2>1. writer[w][c] = Off \/ writer[w][c] = [Off EXCEPT !.on = TRUE, !.next = 1]
    BY DEF DeliveryInit
  <2>2. Off.read = FALSE /\ 1 \in Nat \ {0}
    BY DEF Off
  <2> QED
    BY <2>1, <2>2, ClaimTyped
<1> QED
  BY <1>1, <1>2, InitTyped DEF MeantInv, EntriesMeant, ReadersMean

(* Goroutines keep their recipients while everything else moves on. *)
LEMMA StepMeant ==
  ASSUME MeantInv, [DeliveryNext]_deliveryVars PROVE MeantInv'
<1>1. DeliveryTypeOK' /\ Kept
  BY StepTyped DEF MeantInv
<1>2. CASE UNCHANGED <<writer, stream>>
  BY <1>1, <1>2, QuietMeant
<1>3. ASSUME NEW w \in Writers, NEW c \in Conversations, WriterStep(w, c) PROVE MeantInv'
  <2>1. CASE ReadMembers(w, c)
    BY <2>1, ReadMembersMeant
  <2>2. CASE CommitOffset(w, c)
    BY <1>1, <2>2, QuietMeant DEF CommitOffset
  <2>3. CASE WriteInbox(w, c) \/ WriteInboxFails(w, c) \/ Rebalance(w, c) \/ Leave(w, c)
    <3>1. \A v \in Writers, b \in Conversations :
             writer'[v][b] = writer[v][b] \/ writer'[v][b].read = FALSE
      BY <2>3, GoroutineReset DEF MeantInv
    <3>2. CASE UNCHANGED stream
      BY <1>1, <3>1, <3>2, QuietMeant
    <3>3. CASE BatchInsert(w, c) /\ writer[w][c].read /\ UNCHANGED outbox
      <4>1. EntriesMeant'
        BY <3>3, BatchInsertMeant
      <4>2. ReadersMean'
        BY <1>1, <3>1, ReadersStayMeaning DEF ReadersMean
      <4> QED
        BY <1>1, <4>1, <4>2 DEF MeantInv
    <3> QED
      BY <2>3, <3>2, <3>3 DEF WriteInbox, WriteInboxFails, Rebalance, Leave
  <2> QED
    BY <1>3, <2>1, <2>2, <2>3 DEF WriterStep
<1>4. ASSUME NEW u \in Aging, Expire(u) \/ PruneStream(u) PROVE MeantInv'
  <2>1. u \in Users /\ UNCHANGED <<writer, outbox, partition>>
    BY <1>4, DeliveryAssumption DEF Expire, PruneStream
  <2>2. \A v \in Users : stream'[v].entries \subseteq stream[v].entries
    BY <1>4, <2>1, RetentionEntries DEF MeantInv
  <2>3. EntriesMeant'
    BY <2>1, <2>2 DEF EntriesMeant, MeantInv
  <2>4. ReadersMean'
    BY <1>1, <2>1, ReadersStayMeaning DEF ReadersMean
  <2> QED
    BY <1>1, <2>3, <2>4 DEF MeantInv
<1>5. ASSUME NEW c \in Conversations, MutateSome(c) PROVE UNCHANGED <<writer, stream>>
  BY <1>5 DEF MutateSome, Mutate, SendMessage, DeleteConversation, EditMessage,
     RecallMessage, DeleteForAll, DeleteForMe, MarkAsRead, AddMember, RemoveMember
<1>6. ASSUME NEW d \in Dispatchers, DispatcherStep(d) PROVE UNCHANGED <<writer, stream>>
  BY <1>6 DEF DispatcherStep, CommitBatch, RollBackBatch, Dispatch, DispatchFails
<1> QED
  BY <1>2, <1>3, <1>4, <1>5, <1>6 DEF DeliveryNext, deliveryVars

(* Nobody but the recipients of its publication ever has a change in a      *)
(* stream, although members are read apart from the write and are retried   *)
(* later (PublishInboxChange, handleMessageCreated, BatchInsert).           *)
THEOREM EntriesOnlyForRecipients == DeliverySpec => []OnlyRecipients
<1>1. DeliveryInit => MeantInv
  BY InitMeant
<1>2. MeantInv /\ [DeliveryNext]_deliveryVars => MeantInv'
  BY StepMeant
<1>3. MeantInv => OnlyRecipients
  BY DEF MeantInv, EntriesMeant, OnlyRecipients
<1> QED
  BY <1>1, <1>2, <1>3, PTL DEF DeliverySpec

-----------------------------------------------------------------------------
(* No consumed change is missing from the stream of a user it was for: the  *)
(* members are read apart from the write, goroutines overlap and records    *)
(* are handled again, while members come and go.                            *)

(* The group of the consumer has a committed offset before the first        *)
(* change.  A group without one starts at the newest offset of a partition  *)
(* (Consumer.Offsets.Initial), behind what was sent before.                 *)
StartsWithOffset == Established = TRUE

-----------------------------------------------------------------------------
(* What a change owes to whom                                               *)

(* The user is a member and no later change of the conversation was for     *)
(* the others only.                                                         *)
Stays(c, i, u) ==
    /\ u \in conv[c].members
    /\ \A j \in DOMAIN outbox[c] :
          j > i /\ outbox[c][j].kind = "upsert" => u \in outbox[c][j].to

Owed(c, i, u) ==
    /\ u \in outbox[c][i].to
    /\ outbox[c][i].kind = "removed" \/ Stays(c, i, u)

Has(u, c, i) == \E a \in stream[u].applied : a.conv = c /\ a.change = i

(* A record that nobody needs any more. *)
Covered(c, k) ==
    /\ k \in DOMAIN partition[c]
    /\ \A u \in Users : Owed(c, partition[c][k], u) => Has(u, c, partition[c][k])

(* Whoever left an open conversation was left out of a later change of it,  *)
(* also if the user has come back since.                                    *)
LeaversLeftOut ==
    \A c \in Conversations : \A i \in DOMAIN outbox[c] : \A u \in outbox[c][i].to :
        conv[c].open /\ outbox[c][i].kind # "removed" /\ u \notin conv[c].members =>
            \E j \in DOMAIN outbox[c] :
                j > i /\ outbox[c][j].kind = "upsert" /\ u \notin outbox[c][j].to

(* What is committed, and what a goroutine has passed, is covered.          *)
CommittedCovered ==
    \A c \in Conversations :
        group[c].known /\ \A k \in 1 .. group[c].committed : Covered(c, k)
PassedCovered ==
    \A w \in Writers, c \in Conversations :
        writer[w][c].on => \A k \in 1 .. writer[w][c].next - 1 : Covered(c, k)

(* A goroutine that has read the members holds everybody its record is owed *)
(* to, whoever has joined since.                                            *)
ReadersHold ==
    \A w \in Writers, c \in Conversations :
        writer[w][c].read =>
            \A u \in Users :
                Owed(c, partition[c][writer[w][c].next], u) => u \in writer[w][c].to

(* NothingSkipped is about committed offsets alone.  They follow the        *)
(* goroutines, which follow the members they have read, which follow the    *)
(* changes that tell of every departure.                                    *)
SkipInv ==
    /\ DeliveryTypeOK
    /\ LeaversLeftOut /\ CommittedCovered /\ PassedCovered /\ ReadersHold

-----------------------------------------------------------------------------
(* What a step does to changes, records, members and streams                *)

(* Published changes keep what they are and whom they were for. *)
RowsKept ==
    \A c \in Conversations : \A i \in DOMAIN outbox[c] :
        /\ i \in DOMAIN outbox'[c]
        /\ outbox'[c][i].kind = outbox[c][i].kind
        /\ outbox'[c][i].to = outbox[c][i].to
        /\ outbox'[c][i].message = outbox[c][i].message
        /\ outbox'[c][i].upTo = outbox[c][i].upTo

(* No stream forgets a change. *)
HasKept ==
    \A u \in Users, c \in Conversations : \A i \in Nat : Has(u, c, i) => Has(u, c, i)'

(* No change and no member is added to the conversation or taken from it. *)
Rests(c) == conv'[c] = conv[c] /\ DOMAIN outbox'[c] = DOMAIN outbox[c]

(* Of a change of an open conversation its members hear, and those who      *)
(* leave are left out.                                                      *)
Told(c) ==
    /\ conv[c].open
    /\ \A i \in DOMAIN outbox'[c] \ DOMAIN outbox[c] :
          \/ outbox'[c][i].kind = "removed"
          \/ outbox'[c][i].to \subseteq conv'[c].members
    /\ conv'[c].open =>
          \A u \in conv[c].members \ conv'[c].members :
              \E j \in DOMAIN outbox'[c] \ DOMAIN outbox[c] :
                  outbox'[c][j].kind = "upsert" /\ u \notin outbox'[c][j].to

Onward ==
    /\ RowsKept /\ PartitionKept /\ HasKept
    /\ \A c \in Conversations : Rests(c) \/ Told(c)

(* The rows of an outbox and their numbers. *)
LEMMA RowNumbers ==
  ASSUME DeliveryTypeOK, NEW c \in Conversations
  PROVE  /\ outbox[c] \in Seq(Changes) /\ Len(outbox[c]) \in Nat
         /\ DOMAIN outbox[c] = 1 .. Len(outbox[c])
         /\ partition[c] \in Seq(Nat)
  BY DEF DeliveryTypeOK

(* What PublishInboxChange appends, row by row. *)
LEMMA PublishRows ==
  ASSUME DeliveryTypeOK, NEW c \in Conversations, NEW changes \in Seq(Changes),
         Publish(c, changes)
  PROVE  /\ RowsKept
         /\ \A b \in Conversations : b # c => outbox'[b] = outbox[b]
         /\ \A i \in DOMAIN outbox'[c] \ DOMAIN outbox[c] :
               \E n \in DOMAIN changes : outbox'[c][i] = changes[n]
         /\ \A n \in DOMAIN changes :
               \E i \in DOMAIN outbox'[c] \ DOMAIN outbox[c] : outbox'[c][i] = changes[n]
<1>1. outbox[c] \in Seq(Changes) /\ outbox \in [Conversations -> Seq(Changes)]
  BY DEF DeliveryTypeOK
<1>2. outbox' = [outbox EXCEPT ![c] = outbox[c] \o changes]
  BY DEF Publish
<1>3. outbox'[c] = outbox[c] \o changes
  BY <1>1, <1>2
<1>4. \A b \in Conversations : b # c => outbox'[b] = outbox[b]
  BY <1>1, <1>2
<1> DEFINE q == outbox[c]
           p == outbox'[c]
<1>5. /\ Len(q) \in Nat /\ DOMAIN q = 1 .. Len(q)
      /\ Len(changes) \in Nat /\ DOMAIN changes = 1 .. Len(changes)
      /\ DOMAIN p = 1 .. Len(q) + Len(changes)
      /\ \A i \in 1 .. Len(q) + Len(changes) :
            p[i] = IF i <= Len(q) THEN q[i] ELSE changes[i - Len(q)]
  BY <1>1, <1>3
<1> HIDE DEF q, p
<1>6. \A i \in DOMAIN q : i \in DOMAIN p /\ p[i] = q[i]
  BY <1>5
<1>7. ASSUME NEW i \in DOMAIN p \ DOMAIN q PROVE \E n \in DOMAIN changes : p[i] = changes[n]
  <2>1. i - Len(q) \in DOMAIN changes /\ p[i] = changes[i - Len(q)]
    BY <1>5
  <2> QED
    BY <2>1
<1>8. ASSUME NEW n \in DOMAIN changes PROVE \E i \in DOMAIN p \ DOMAIN q : p[i] = changes[n]
  <2>1. /\ Len(q) + n \in DOMAIN p \ DOMAIN q
        /\ p[Len(q) + n] = changes[Len(q) + n - Len(q)] /\ Len(q) + n - Len(q) = n
    BY <1>5
  <2> QED
    BY <2>1
<1>9. RowsKept
  BY <1>4, <1>6 DEF RowsKept, q, p
<1> QED
  BY <1>4, <1>7, <1>8, <1>9 DEF q, p

(* A mutation, as everybody else sees it. *)
Tells(c) ==
    /\ RowsKept /\ Told(c)
    /\ \A b \in Conversations : b # c => Rests(b)
    /\ UNCHANGED <<partition, group, writer, stream>>

(* A publication to the new members, and to those who stay when some leave. *)
LEMMA PublicationTells ==
  ASSUME DeliveryTypeOK, NEW c \in Conversations, NEW row \in ConversationRows,
         NEW changes \in Seq(Changes),
         Publish(c, changes), Mutate(c, row), conv[c].open,
         \A n \in DOMAIN changes :
            changes[n].kind = "removed" \/ changes[n].to \subseteq row.members,
         row.open => \A u \in conv[c].members \ row.members :
            \E n \in DOMAIN changes : changes[n].kind = "upsert" /\ u \notin changes[n].to
  PROVE  Tells(c)
<1>1. conv'[c] = row /\ \A b \in Conversations : b # c => conv'[b] = conv[b]
  BY DEF Mutate, DeliveryTypeOK
<1>2. /\ RowsKept
      /\ \A b \in Conversations : b # c => outbox'[b] = outbox[b]
      /\ \A i \in DOMAIN outbox'[c] \ DOMAIN outbox[c] :
            \E n \in DOMAIN changes : outbox'[c][i] = changes[n]
      /\ \A n \in DOMAIN changes :
            \E i \in DOMAIN outbox'[c] \ DOMAIN outbox[c] : outbox'[c][i] = changes[n]
  BY PublishRows
<1>3. \A b \in Conversations : b # c => Rests(b)
  BY <1>1, <1>2 DEF Rests
<1>4. ASSUME NEW i \in DOMAIN outbox'[c] \ DOMAIN outbox[c]
      PROVE  outbox'[c][i].kind = "removed" \/ outbox'[c][i].to \subseteq conv'[c].members
  <2>1. PICK n \in DOMAIN changes : outbox'[c][i] = changes[n]
    BY <1>2
  <2> QED
    BY <1>1, <2>1
<1>5. ASSUME conv'[c].open, NEW u \in conv[c].members \ conv'[c].members
      PROVE  \E j \in DOMAIN outbox'[c] \ DOMAIN outbox[c] :
                outbox'[c][j].kind = "upsert" /\ u \notin outbox'[c][j].to
  <2>1. PICK n \in DOMAIN changes : changes[n].kind = "upsert" /\ u \notin changes[n].to
    BY <1>1, <1>5
  <2>2. PICK j \in DOMAIN outbox'[c] \ DOMAIN outbox[c] : outbox'[c][j] = changes[n]
    BY <1>2
  <2> QED
    BY <2>1, <2>2
<1>6. UNCHANGED <<partition, group, writer, stream>>
  BY DEF Mutate
<1> QED
  BY <1>2, <1>3, <1>4, <1>5, <1>6 DEF Tells, Told

(* One change, of which nobody but the new members hears. *)
LEMMA SingleTells ==
  ASSUME DeliveryTypeOK, NEW c \in Conversations, NEW row \in ConversationRows,
         NEW e \in Changes, Publish(c, <<e>>), Mutate(c, row), conv[c].open,
         e.kind = "removed" \/ e.to \subseteq row.members,
         row.open => conv[c].members \subseteq row.members
  PROVE  Tells(c)
<1> DEFINE changes == <<e>>
<1>1. changes \in Seq(Changes) /\ DOMAIN changes = {1} /\ changes[1] = e
  OBVIOUS
<1>2. Publish(c, changes)
  OBVIOUS
<1> HIDE DEF changes
<1> QED
  BY <1>1, <1>2, PublicationTells

(* A change as the table holds it. *)
LEMMA ChangeTyped ==
  ASSUME NEW kind \in Kinds, NEW message \in Nat, NEW upTo \in Nat, NEW to \in SUBSET Users
  PROVE  /\ Change(kind, message, upTo, to) \in Changes
         /\ Change(kind, message, upTo, to).kind = kind
         /\ Change(kind, message, upTo, to).to = to
  BY DEF Change, Changes

(* SendMessage tells the members. *)
LEMMA SendMessageTells ==
  ASSUME DeliveryTypeOK, NEW c \in Conversations, SendMessage(c) PROVE Tells(c)
<1> DEFINE msg == [edits |-> 0, recalled |-> FALSE, deleted |-> FALSE, hidden |-> {}]
           row == [conv[c] EXCEPT !.messages = Append(@, msg)]
           e == Change("new", Len(conv[c].messages) + 1, 0, conv[c].members)
<1>1. RowsTyped
  BY DEF DeliveryTypeOK, RowsTyped
<1>2. row \in ConversationRows /\ row.members = conv[c].members
  <2>1. msg \in Messages
    BY DEF Messages
  <2>2. Append(conv[c].messages, msg) \in Seq(Messages)
    BY <1>1, <2>1, RowFacts
  <2> QED
    BY <1>1, <2>2, RowFacts DEF ConversationRows
<1>3. Publish(c, <<e>>) /\ Mutate(c, row) /\ conv[c].open
  BY DEF SendMessage, May
<1>4. /\ "new" \in Kinds /\ 0 \in Nat
      /\ Len(conv[c].messages) + 1 \in Nat /\ conv[c].members \in SUBSET Users
  BY <1>1, RowFacts DEF Kinds, MessageKinds
<1>5. e \in Changes /\ e.to = conv[c].members
  BY <1>4, ChangeTyped
<1> HIDE DEF e, row
<1> QED
  BY <1>2, <1>3, <1>5, SingleTells

(* A change of a message in place leaves the members alone. *)
LEMMA MessageChanged ==
  ASSUME DeliveryTypeOK, NEW c \in Conversations, NEW m \in DOMAIN conv[c].messages,
         NEW msg \in Messages
  PROVE  LET row == [conv[c] EXCEPT !.messages = [@ EXCEPT ![m] = msg]]
         IN  row \in ConversationRows /\ row.members = conv[c].members
<1>1. RowsTyped
  BY DEF DeliveryTypeOK, RowsTyped
<1>2. conv[c] \in ConversationRows
  BY <1>1, RowFacts
<1> QED
  BY <1>2, MessageReplaced DEF ConversationRows

(* A message, its number and the members of its conversation. *)
LEMMA MessageFacts ==
  ASSUME DeliveryTypeOK, NEW c \in Conversations, NEW m \in DOMAIN conv[c].messages
  PROVE  /\ m \in Nat /\ 0 \in Nat /\ conv[c].messages[m] \in Messages
         /\ conv[c].members \in SUBSET Users /\ conv[c] \in ConversationRows
         /\ {"edited", "recalled", "deleted", "read", "upsert", "removed"} \subseteq Kinds
<1>1. RowsTyped
  BY DEF DeliveryTypeOK, RowsTyped
<1> QED
  BY <1>1, RowFacts DEF Kinds, MessageKinds

(* EditMessage, RecallMessage and DeleteForAll tell the members. *)
LEMMA ChangedMessageTells ==
  ASSUME DeliveryTypeOK, NEW c \in Conversations, NEW m \in DOMAIN conv[c].messages,
         EditMessage(c, m) \/ RecallMessage(c, m) \/ DeleteForAll(c, m)
  PROVE  Tells(c)
<1> DEFINE old == conv[c].messages[m]
           row(msg) == [conv[c] EXCEPT !.messages = [@ EXCEPT ![m] = msg]]
           e(kind) == Change(kind, m, 0, conv[c].members)
<1>1. /\ [old EXCEPT !.edits = @ + 1] \in Messages
      /\ [old EXCEPT !.recalled = TRUE] \in Messages
      /\ [old EXCEPT !.deleted = TRUE] \in Messages
  <2>1. old \in Messages
    BY MessageFacts
  <2> HIDE DEF old
  <2>2. [old EXCEPT !.edits = @ + 1] \in Messages
    BY <2>1 DEF Messages
  <2>3. [old EXCEPT !.recalled = TRUE] \in Messages
    BY <2>1 DEF Messages
  <2>4. [old EXCEPT !.deleted = TRUE] \in Messages
    BY <2>1 DEF Messages
  <2> QED
    BY <2>2, <2>3, <2>4
<1>2. PICK msg \in Messages, kind \in {"edited", "recalled", "deleted"} :
         Publish(c, <<e(kind)>>) /\ Mutate(c, row(msg))
  <2>1. CASE EditMessage(c, m)
    <3>1. /\ Publish(c, <<e("edited")>>)
          /\ Mutate(c, row([old EXCEPT !.edits = @ + 1]))
      BY <2>1 DEF EditMessage
    <3> HIDE DEF old, row, e
    <3> QED
      BY <1>1, <3>1
  <2>2. CASE RecallMessage(c, m)
    <3>1. /\ Publish(c, <<e("recalled")>>)
          /\ Mutate(c, row([old EXCEPT !.recalled = TRUE]))
      BY <2>2 DEF RecallMessage
    <3> HIDE DEF old, row, e
    <3> QED
      BY <1>1, <3>1
  <2>3. CASE DeleteForAll(c, m)
    <3>1. /\ Publish(c, <<e("deleted")>>)
          /\ Mutate(c, row([old EXCEPT !.deleted = TRUE]))
      BY <2>3 DEF DeleteForAll
    <3> HIDE DEF old, row, e
    <3> QED
      BY <1>1, <3>1
  <2> QED
    BY <2>1, <2>2, <2>3
<1>3. row(msg) \in ConversationRows /\ row(msg).members = conv[c].members
  BY MessageChanged
<1>4. e(kind) \in Changes /\ e(kind).to = conv[c].members
  BY MessageFacts, ChangeTyped
<1>5. conv[c].open
  BY DEF EditMessage, RecallMessage, DeleteForAll, May
<1> HIDE DEF row, e
<1> QED
  BY <1>2, <1>3, <1>4, <1>5, SingleTells

(* DeleteForMe and MarkAsRead tell the member alone. *)
LEMMA OwnChangeTells ==
  ASSUME DeliveryTypeOK, NEW c \in Conversations, NEW m \in DOMAIN conv[c].messages,
         NEW u \in Users, DeleteForMe(c, m, u) \/ MarkAsRead(c, u, m)
  PROVE  Tells(c)
<1>1. CASE DeleteForMe(c, m, u)
  <2> DEFINE msg == [conv[c].messages[m] EXCEPT !.hidden = @ \cup {u}]
             row == [conv[c] EXCEPT !.messages = [@ EXCEPT ![m] = msg]]
             e == Change("deleted", m, 0, {u})
  <2>1. msg \in Messages
    <3>1. conv[c].messages[m] \in Messages
      BY MessageFacts
    <3> QED
      BY <3>1 DEF Messages
  <2>2. row \in ConversationRows /\ row.members = conv[c].members
    BY <2>1, MessageChanged
  <2>3. e \in Changes /\ e.to = {u}
    BY MessageFacts, ChangeTyped
  <2>4. Publish(c, <<e>>) /\ Mutate(c, row) /\ conv[c].open /\ u \in conv[c].members
    BY <1>1 DEF DeleteForMe, May
  <2> HIDE DEF row, e
  <2> QED
    BY <2>2, <2>3, <2>4, SingleTells
<1>2. CASE MarkAsRead(c, u, m)
  <2> DEFINE row == [conv[c] EXCEPT !.read = [@ EXCEPT ![u] = m]]
             e == Change("read", 0, m, {u})
  <2>1. row \in ConversationRows /\ row.members = conv[c].members
    BY MessageFacts DEF ConversationRows
  <2>2. e \in Changes /\ e.to = {u}
    BY MessageFacts, ChangeTyped
  <2>3. Publish(c, <<e>>) /\ Mutate(c, row) /\ conv[c].open /\ u \in conv[c].members
    BY <1>2 DEF MarkAsRead, May
  <2> HIDE DEF row, e
  <2> QED
    BY <2>1, <2>2, <2>3, SingleTells
<1> QED
  BY <1>1, <1>2

(* AddMembers tells the old and the new members; RemoveMembers those who    *)
(* stay, then the one who left; DeleteConversation the last members.        *)
LEMMA MembershipTells ==
  ASSUME DeliveryTypeOK, NEW c \in Conversations,
         \/ \E u \in Users : AddMember(c, u) \/ RemoveMember(c, u)
         \/ DeleteConversation(c)
  PROVE  Tells(c)
<1>0. /\ conv[c] \in ConversationRows /\ conv[c].members \in SUBSET Users
      /\ Len(conv[c].messages) \in Nat
      /\ {"upsert", "removed"} \subseteq Kinds /\ 0 \in Nat
  <2>1. RowsTyped
    BY DEF DeliveryTypeOK, RowsTyped
  <2> QED
    BY <2>1, RowFacts DEF Kinds
<1>1. ASSUME NEW u \in Users, AddMember(c, u) PROVE Tells(c)
  <2> DEFINE row == [conv[c] EXCEPT !.members = @ \cup {u},
                                    !.joined = [@ EXCEPT ![u] = Len(conv[c].messages)]]
             e == Change("upsert", 0, 0, conv[c].members \cup {u})
  <2>1. row \in ConversationRows /\ row.members = conv[c].members \cup {u}
    BY <1>0 DEF ConversationRows
  <2>2. e \in Changes /\ e.to = conv[c].members \cup {u}
    BY <1>0, ChangeTyped
  <2>3. Publish(c, <<e>>) /\ Mutate(c, row) /\ conv[c].open
    BY <1>1 DEF AddMember, May
  <2> HIDE DEF row, e
  <2> QED
    BY <2>1, <2>2, <2>3, SingleTells
<1>2. ASSUME NEW u \in Users, RemoveMember(c, u) PROVE Tells(c)
  <2> DEFINE row == [conv[c] EXCEPT !.members = @ \ {u}]
             stay == Change("upsert", 0, 0, conv[c].members \ {u})
             left == Change("removed", 0, 0, {u})
             changes == <<stay, left>>
  <2>1. row \in ConversationRows /\ row.members = conv[c].members \ {u}
    BY <1>0 DEF ConversationRows
  <2>2. /\ stay \in Changes /\ stay.kind = "upsert" /\ stay.to = conv[c].members \ {u}
        /\ left \in Changes /\ left.kind = "removed"
    BY <1>0, ChangeTyped
  <2>3. Publish(c, changes) /\ Mutate(c, row) /\ conv[c].open
    BY <1>2 DEF RemoveMember, May
  <2> HIDE DEF row, stay, left
  <2>4. /\ changes \in Seq(Changes) /\ DOMAIN changes = {1, 2}
        /\ changes[1] = stay /\ changes[2] = left
    BY <2>2
  <2> HIDE DEF changes
  <2>5. \A n \in DOMAIN changes :
           changes[n].kind = "removed" \/ changes[n].to \subseteq row.members
    BY <2>1, <2>2, <2>4
  <2>6. ASSUME NEW v \in conv[c].members \ row.members
        PROVE  \E n \in DOMAIN changes : changes[n].kind = "upsert" /\ v \notin changes[n].to
    BY <2>1, <2>2, <2>4
  <2> QED
    BY <2>1, <2>3, <2>4, <2>5, <2>6, PublicationTells
<1>3. CASE DeleteConversation(c)
  <2> DEFINE row == [conv[c] EXCEPT !.open = FALSE, !.members = {},
                                    !.read = [u \in Users |-> 0]]
             e == Change("removed", 0, 0, conv[c].members)
  <2>1. row \in ConversationRows /\ row.open = FALSE
    BY <1>0 DEF ConversationRows
  <2>2. e \in Changes /\ e.kind = "removed"
    BY <1>0, ChangeTyped
  <2>3. Publish(c, <<e>>) /\ Mutate(c, row) /\ conv[c].open
    BY <1>3 DEF DeleteConversation, May
  <2> HIDE DEF row, e
  <2> QED
    BY <2>1, <2>2, <2>3, SingleTells
<1> QED
  BY <1>1, <1>2, <1>3

(* Every mutation tells. *)
LEMMA MutationsTell ==
  ASSUME DeliveryTypeOK, NEW c \in Conversations, MutateSome(c) PROVE Tells(c)
  BY SendMessageTells, ChangedMessageTells, OwnChangeTells, MembershipTells DEF MutateSome

(* A batch changes the status and the retries of rows, nothing else. *)
LEMMA BatchKeepsRows ==
  ASSUME DeliveryTypeOK, NEW d \in Dispatchers, CommitBatch(d)
  PROVE  RowsKept /\ \A c \in Conversations : DOMAIN outbox'[c] = DOMAIN outbox[c]
<1>1. ASSUME NEW c \in Conversations, NEW i \in DOMAIN outbox[c]
      PROVE  /\ i \in DOMAIN outbox'[c]
             /\ outbox'[c][i].kind = outbox[c][i].kind
             /\ outbox'[c][i].message = outbox[c][i].message
             /\ outbox'[c][i].upTo = outbox[c][i].upTo
  <2> DEFINE noted == \E o \in batch[d] : o.conv = c /\ o.change = i
             o == CHOOSE x \in batch[d] : x.conv = c /\ x.change = i
  <2>1. /\ i \in DOMAIN outbox'[c]
        /\ outbox'[c][i] = IF noted THEN Settled(c, o, outbox[c][i]) ELSE outbox[c][i]
    BY DEF CommitBatch
  <2>2. outbox[c][i] \in Changes
    BY RowNumbers
  <2>3. /\ Settled(c, o, outbox[c][i]).kind = outbox[c][i].kind
        /\ Settled(c, o, outbox[c][i]).message = outbox[c][i].message
        /\ Settled(c, o, outbox[c][i]).upTo = outbox[c][i].upTo
    BY <2>2 DEF Settled, Changes
  <2> HIDE DEF noted, o
  <2> QED
    BY <2>1, <2>3
<1>2. OutboxKept /\ \A c \in Conversations : DOMAIN outbox'[c] = DOMAIN outbox[c]
  BY CommitBatchRows
<1> QED
  BY <1>1, <1>2 DEF RowsKept, OutboxKept

(* BatchInsert leaves a change of the record with whoever it is given, and  *)
(* takes no change from anybody.                                            *)
LEMMA InsertHas ==
  ASSUME NEW s \in Streams, NEW c \in Conversations, NEW i
  PROVE  /\ s.applied \subseteq Insert(s, c, i).applied
         /\ \E a \in Insert(s, c, i).applied : a.conv = c /\ a.change = i
<1> DEFINE known == \E a \in s.applied : a.conv = c /\ a.change = i
           older == \E o \in Coalesced(s, c, outbox[c][i]) : o.upTo >= outbox[c][i].upTo
           coalesced == [s EXCEPT !.applied =
                            @ \cup {[conv |-> c, change |-> i, position |-> 0]}]
<1>1. Insert(s, c, i) = IF known THEN s ELSE IF older THEN coalesced ELSE InsertAgain(s, c, i)
  BY DEF Insert
<1>2. /\ s.applied \subseteq InsertAgain(s, c, i).applied
      /\ \E a \in InsertAgain(s, c, i).applied : a.conv = c /\ a.change = i
  <2> DEFINE a == [conv |-> c, change |-> i, position |-> s.position + 1]
  <2>1. InsertAgain(s, c, i).applied = s.applied \cup {a}
    BY DEF InsertAgain, Streams
  <2>2. a.conv = c /\ a.change = i
    OBVIOUS
  <2> HIDE DEF a
  <2> QED
    BY <2>1, <2>2
<1>3. /\ s.applied \subseteq coalesced.applied
      /\ \E a \in coalesced.applied : a.conv = c /\ a.change = i
  <2> DEFINE a == [conv |-> c, change |-> i, position |-> 0]
  <2>1. coalesced.applied = s.applied \cup {a}
    BY DEF Streams
  <2>2. a.conv = c /\ a.change = i
    OBVIOUS
  <2> HIDE DEF a, coalesced
  <2> QED
    BY <2>1, <2>2
<1> HIDE DEF older, coalesced
<1> QED
  BY <1>1, <1>2, <1>3

(* The transaction of a writer. *)
LEMMA BatchInsertHas ==
  ASSUME DeliveryTypeOK, NEW w \in Writers, NEW c \in Conversations, BatchInsert(w, c)
  PROVE  /\ HasKept
         /\ \A u \in writer[w][c].to : u \in Users =>
               \E a \in stream'[u].applied :
                  a.conv = c /\ a.change = partition[c][writer[w][c].next]
<1> DEFINE i == partition[c][writer[w][c].next]
<1>1. \A u \in Users : stream'[u] = IF u \in writer[w][c].to
                                    THEN Insert(stream[u], c, i) ELSE stream[u]
  BY DEF BatchInsert
<1>2. \A u \in Users : stream[u] \in Streams
  BY DEF DeliveryTypeOK
<1> HIDE DEF i
<1>3. \A u \in Users : stream[u].applied \subseteq stream'[u].applied
  BY <1>1, <1>2, InsertHas
<1>4. \A u \in Users : u \in writer[w][c].to =>
         \E a \in stream'[u].applied : a.conv = c /\ a.change = i
  BY <1>1, <1>2, InsertHas
<1>5. HasKept
  BY <1>3 DEF HasKept, Has
<1> QED
  BY <1>4, <1>5 DEF i

(* A step that publishes nothing. *)
LEMMA QuietOnward ==
  ASSUME DeliveryTypeOK, UNCHANGED <<conv, outbox>>, PartitionKept, HasKept
  PROVE  Onward
<1>1. RowsKept
  BY DEF RowsKept
<1>2. \A c \in Conversations : Rests(c)
  BY DEF Rests
<1> QED
  BY <1>1, <1>2 DEF Onward

(* Every step goes onward: changes stay what they are, streams forget       *)
(* nothing, and whoever leaves an open conversation is left out of a change.*)
LEMMA StepOnward ==
  ASSUME DeliveryTypeOK, [DeliveryNext]_deliveryVars PROVE Onward
<1>1. PartitionKept
  BY StepTyped DEF Kept
<1>2. ASSUME UNCHANGED stream PROVE HasKept
  BY <1>2 DEF HasKept, Has
<1>3. CASE UNCHANGED deliveryVars
  BY <1>1, <1>2, <1>3, QuietOnward DEF deliveryVars
<1>4. ASSUME NEW c \in Conversations, MutateSome(c) PROVE Onward
  <2>1. Tells(c)
    BY <1>4, MutationsTell
  <2> QED
    BY <1>1, <1>2, <2>1 DEF Tells, Onward
<1>5. ASSUME NEW d \in Dispatchers, DispatcherStep(d) PROVE Onward
  <2>1. CASE CommitBatch(d)
    <3>1. UNCHANGED <<conv, stream>>
      BY <2>1 DEF CommitBatch
    <3> QED
      BY <1>1, <1>2, <2>1, <3>1, BatchKeepsRows DEF Onward, Rests
  <2>2. CASE ~CommitBatch(d)
    <3>1. UNCHANGED <<conv, outbox, stream>>
      BY <1>5, <2>2 DEF DispatcherStep, RollBackBatch, Dispatch, DispatchFails
    <3> QED
      BY <1>1, <1>2, <3>1, QuietOnward
  <2> QED
    BY <2>1, <2>2
<1>6. ASSUME NEW w \in Writers, NEW c \in Conversations, WriterStep(w, c) PROVE Onward
  <2>1. UNCHANGED <<conv, outbox>> /\ (BatchInsert(w, c) \/ UNCHANGED stream)
    BY <1>6 DEF WriterStep, ReadMembers, WriteInbox, WriteInboxFails, CommitOffset,
                Rebalance, Leave
  <2> QED
    BY <1>1, <1>2, <2>1, BatchInsertHas, QuietOnward
<1>7. ASSUME NEW u \in Aging, Expire(u) \/ PruneStream(u) PROVE Onward
  <2>1. u \in Users /\ UNCHANGED <<conv, outbox>>
    BY <1>7, DeliveryAssumption DEF Expire, PruneStream
  <2>2. \A v \in Users : stream'[v].applied = stream[v].applied
    BY <1>7, <2>1, RetentionEntries
  <2>3. HasKept
    BY <2>2 DEF HasKept, Has
  <2> QED
    BY <1>1, <2>1, <2>3, QuietOnward
<1> QED
  BY <1>3, <1>4, <1>5, <1>6, <1>7 DEF DeliveryNext

-----------------------------------------------------------------------------
(* What is owed, and to whom it is not missing                              *)

(* Nobody is owed a change of the past anew: not even who comes back. *)
LEMMA OwedKept ==
  ASSUME DeliveryTypeOK, LeaversLeftOut, Onward, NEW c \in Conversations,
         NEW i \in DOMAIN outbox[c], NEW u, Owed(c, i, u)'
  PROVE  Owed(c, i, u)
<1>1. /\ outbox'[c][i].kind = outbox[c][i].kind
      /\ outbox'[c][i].to = outbox[c][i].to
  BY DEF Onward, RowsKept
<1>2. CASE outbox[c][i].kind = "removed"
  BY <1>1, <1>2 DEF Owed
<1>3. CASE outbox[c][i].kind # "removed"
  <2>1. u \in outbox[c][i].to /\ Stays(c, i, u)'
    BY <1>1, <1>3 DEF Owed
  <2>2. \A j \in DOMAIN outbox[c] :
           j > i /\ outbox[c][j].kind = "upsert" => u \in outbox[c][j].to
    BY <2>1 DEF Stays, Onward, RowsKept
  <2>3. u \in conv[c].members
    <3>1. CASE conv'[c] = conv[c]
      BY <2>1, <3>1 DEF Stays
    <3>2. CASE conv[c].open
      BY <1>3, <2>1, <2>2, <3>2 DEF LeaversLeftOut
    <3> QED
      BY <3>1, <3>2 DEF Onward, Rests, Told
  <2> QED
    BY <2>1, <2>2, <2>3 DEF Owed, Stays
<1> QED
  BY <1>2, <1>3

(* A covered record stays covered. *)
LEMMA CoveredKept ==
  ASSUME DeliveryTypeOK, LeaversLeftOut, Onward, NEW c \in Conversations,
         NEW k, Covered(c, k)
  PROVE  Covered(c, k)'
<1>0. PICK i : i = partition[c][k]
  OBVIOUS
<1>1. /\ k \in DOMAIN partition[c] /\ k \in DOMAIN partition'[c]
      /\ partition'[c][k] = i
  BY <1>0 DEF Covered, Onward, PartitionKept
<1>2. i \in DOMAIN outbox[c] /\ i \in Nat
  <2>1. i \in DOMAIN outbox[c]
    BY <1>0, <1>1 DEF DeliveryTypeOK
  <2> QED
    BY <2>1, RowNumbers
<1>3. ASSUME NEW u \in Users, Owed(c, i, u)' PROVE Has(u, c, i)'
  <2>1. Owed(c, i, u)
    BY <1>2, <1>3, OwedKept
  <2>2. Has(u, c, i)
    BY <1>0, <2>1 DEF Covered
  <2> QED
    BY <1>2, <2>2 DEF Onward, HasKept
<1>4. (partition[c][k])' = i
  BY <1>1
<1>5. ASSUME NEW u \in Users PROVE Owed(c, partition[c][k], u)' => Has(u, c, partition[c][k])'
  BY <1>3, <1>4 DEF Owed, Stays, Has
<1> QED
  BY <1>1, <1>5 DEF Covered

(* Whoever leaves is left out of the change that tells of it. *)
LEMMA LeaversKept ==
  ASSUME DeliveryTypeOK, DeliveryTypeOK', LeaversLeftOut, Onward
  PROVE  LeaversLeftOut'
<1> SUFFICES ASSUME NEW c \in Conversations, NEW i \in DOMAIN outbox'[c],
                    NEW u \in outbox'[c][i].to, conv'[c].open,
                    outbox'[c][i].kind # "removed", u \notin conv'[c].members
             PROVE  \E j \in DOMAIN outbox'[c] : /\ j > i /\ outbox'[c][j].kind = "upsert"
                                                 /\ u \notin outbox'[c][j].to
  BY DEF LeaversLeftOut
<1>1. conv[c].open /\ i \in DOMAIN outbox[c]
  <2>1. CASE Rests(c)
    BY <2>1 DEF Rests
  <2>2. CASE Told(c)
    BY <2>2 DEF Told
  <2> QED
    BY <2>1, <2>2 DEF Onward
<1>2. /\ u \in outbox[c][i].to /\ outbox[c][i].kind # "removed"
      /\ \A j \in DOMAIN outbox[c] :
            /\ j \in DOMAIN outbox'[c]
            /\ outbox'[c][j].kind = outbox[c][j].kind /\ outbox'[c][j].to = outbox[c][j].to
  BY <1>1 DEF Onward, RowsKept
<1>3. CASE u \notin conv[c].members
  BY <1>1, <1>2, <1>3 DEF LeaversLeftOut
<1>4. CASE u \in conv[c].members
  <2>1. Told(c)
    BY <1>4 DEF Onward, Rests
  <2>2. PICK j \in DOMAIN outbox'[c] \ DOMAIN outbox[c] :
           outbox'[c][j].kind = "upsert" /\ u \notin outbox'[c][j].to
    BY <1>4, <2>1 DEF Told
  <2>3. j > i
    <3>1. DOMAIN outbox'[c] = 1 .. Len(outbox'[c]) /\ Len(outbox'[c]) \in Nat
      BY DEF DeliveryTypeOK
    <3>2. j \in Nat
      BY <3>1, <2>2
    <3> QED
      BY <1>1, <2>2, <3>1, <3>2, RowNumbers
  <2> QED
    BY <2>2, <2>3
<1> QED
  BY <1>3, <1>4

(* What PassedCovered and ReadersHold say of one goroutine. *)
Positioned(w, c) ==
    writer[w][c].on => \A k \in 1 .. writer[w][c].next - 1 : Covered(c, k)
Holds(w, c) ==
    writer[w][c].read =>
        \A u \in Users :
            Owed(c, partition[c][writer[w][c].next], u) => u \in writer[w][c].to

(* A goroutine that a step leaves alone. *)
LEMMA WriterRests ==
  ASSUME SkipInv, Onward, NEW w \in Writers, NEW c \in Conversations,
         writer'[w][c] = writer[w][c]
  PROVE  Positioned(w, c)' /\ Holds(w, c)'
<1>1. Positioned(w, c)'
  BY CoveredKept DEF Positioned, SkipInv, PassedCovered
<1>2. PICK i : i = partition[c][writer[w][c].next]
  OBVIOUS
<1>3. ASSUME writer[w][c].read, NEW u \in Users, Owed(c, i, u)'
      PROVE  u \in writer[w][c].to
  <2>1. i \in DOMAIN outbox[c]
    BY <1>2, <1>3 DEF SkipInv, DeliveryTypeOK
  <2>2. Owed(c, i, u)
    BY <1>3, <2>1, OwedKept DEF SkipInv
  <2> QED
    BY <1>2, <1>3, <2>2 DEF SkipInv, ReadersHold
<1>4. ASSUME writer[w][c].read PROVE (partition[c][writer[w][c].next])' = i
  <2>1. writer[w][c].next \in DOMAIN partition[c]
    BY <1>4 DEF SkipInv, DeliveryTypeOK
  <2> QED
    BY <1>2, <2>1 DEF Onward, PartitionKept
<1>5. ASSUME writer[w][c].read, NEW u \in Users
      PROVE  Owed(c, partition[c][writer[w][c].next], u)' => u \in writer[w][c].to
  BY <1>3, <1>4, <1>5 DEF Owed, Stays
<1> QED
  BY <1>1, <1>5 DEF Holds

-----------------------------------------------------------------------------
(* The goroutines                                                           *)

(* A goroutine that stays where it was, or ends. *)
LEMMA PositionKept ==
  ASSUME SkipInv, Onward, NEW w \in Writers, NEW c \in Conversations,
         writer'[w][c].on => writer[w][c].on /\ writer'[w][c].next = writer[w][c].next
  PROVE  Positioned(w, c)'
  BY CoveredKept DEF Positioned, SkipInv, PassedCovered

(* What the goroutine of a step looks like after it; the others rest. *)
LEMMA GoroutineAfter ==
  ASSUME DeliveryTypeOK, NEW w \in Writers, NEW c \in Conversations, WriterStep(w, c)
  PROVE  /\ \A v \in Writers, b \in Conversations :
               v # w \/ b # c => writer'[v][b] = writer[v][b]
         /\ ReadMembers(w, c) =>
               /\ writer'[w][c].on = writer[w][c].on
               /\ writer'[w][c].next = writer[w][c].next
               /\ writer'[w][c].to = Recipients(w, c)
         /\ WriteInbox(w, c) =>
               /\ writer'[w][c].on = writer[w][c].on
               /\ writer'[w][c].next = writer[w][c].next + 1
         /\ WriteInboxFails(w, c) =>
               /\ writer'[w][c].on = writer[w][c].on
               /\ writer'[w][c].next = writer[w][c].next
         /\ Rebalance(w, c) => writer'[w][c].next = NextOffset(c)
         /\ Leave(w, c) => writer'[w][c].on = FALSE
<1> DEFINE old == writer[w][c]
           Set(g) == writer' = [writer EXCEPT ![w] = [@ EXCEPT ![c] = g]]
<1>0. /\ writer \in [Writers -> [Conversations -> Goroutines]]
      /\ writer[w] \in [Conversations -> Goroutines] /\ old \in Goroutines
  BY WriterFacts
<1>1. ASSUME NEW g, Set(g)
      PROVE  /\ writer'[w][c] = g
             /\ \A v \in Writers, b \in Conversations :
                   v # w \/ b # c => writer'[v][b] = writer[v][b]
  BY <1>0, <1>1
<1> HIDE DEF Set, old
<1>2. ASSUME ReadMembers(w, c)
      PROVE  Set([[old EXCEPT !.read = TRUE] EXCEPT !.to = Recipients(w, c)])
  BY <1>0, <1>2 DEF ReadMembers, Goroutines, Set, old
<1>3. ASSUME WriteInbox(w, c)
      PROVE  Set([[[[old EXCEPT !.read = FALSE] EXCEPT !.to = {}]
                     EXCEPT !.next = old.next + 1] EXCEPT !.marked = TRUE])
  BY <1>0, <1>3 DEF WriteInbox, Goroutines, Set, old
<1>4. ASSUME WriteInboxFails(w, c)
      PROVE  Set([[old EXCEPT !.read = FALSE] EXCEPT !.to = {}])
  BY <1>0, <1>4 DEF WriteInboxFails, Goroutines, Set, old
<1>5. ASSUME Rebalance(w, c)
      PROVE  Set([Off EXCEPT !.on = TRUE, !.next = NextOffset(c)])
  BY <1>5 DEF Rebalance, Set
<1>6. ASSUME Leave(w, c) PROVE Set(Off)
  BY <1>6 DEF Leave, Set
<1>7. ASSUME NEW v \in Writers, NEW b \in Conversations, v # w \/ b # c
      PROVE  writer'[v][b] = writer[v][b]
  <2>1. CASE CommitOffset(w, c)
    BY <2>1 DEF CommitOffset
  <2>2. CASE ~CommitOffset(w, c)
    BY <1>1, <1>2, <1>3, <1>4, <1>5, <1>6, <1>7, <2>2 DEF WriterStep
  <2> QED
    BY <2>1, <2>2
<1>8. ASSUME ReadMembers(w, c)
      PROVE  /\ writer'[w][c].on = old.on /\ writer'[w][c].next = old.next
             /\ writer'[w][c].to = Recipients(w, c)
  <2>1. writer'[w][c] = [[old EXCEPT !.read = TRUE] EXCEPT !.to = Recipients(w, c)]
    BY <1>1, <1>2, <1>8
  <2> QED
    BY <1>0, <2>1 DEF Goroutines
<1>9. ASSUME WriteInbox(w, c)
      PROVE  writer'[w][c].on = old.on /\ writer'[w][c].next = old.next + 1
  <2>1. writer'[w][c] =
           [[[[old EXCEPT !.read = FALSE] EXCEPT !.to = {}]
               EXCEPT !.next = old.next + 1] EXCEPT !.marked = TRUE]
    BY <1>1, <1>3, <1>9
  <2> QED
    BY <1>0, <2>1 DEF Goroutines
<1>10. ASSUME WriteInboxFails(w, c)
       PROVE  writer'[w][c].on = old.on /\ writer'[w][c].next = old.next
  <2>1. writer'[w][c] = [[old EXCEPT !.read = FALSE] EXCEPT !.to = {}]
    BY <1>1, <1>4, <1>10
  <2> QED
    BY <1>0, <2>1 DEF Goroutines
<1>11. ASSUME Rebalance(w, c) PROVE writer'[w][c].next = NextOffset(c)
  <2>1. writer'[w][c] = [Off EXCEPT !.on = TRUE, !.next = NextOffset(c)]
    BY <1>1, <1>5, <1>11
  <2> QED
    BY <2>1 DEF Off
<1>12. ASSUME Leave(w, c) PROVE writer'[w][c].on = FALSE
  BY <1>1, <1>6, <1>12 DEF Off
<1> QED
  BY <1>7, <1>8, <1>9, <1>10, <1>11, <1>12 DEF old

(* The members that are read are those to whom the record is owed. *)
LEMMA ReadMembersHolds ==
  ASSUME SkipInv, Onward, NEW w \in Writers, NEW c \in Conversations, ReadMembers(w, c)
  PROVE  Positioned(w, c)' /\ Holds(w, c)'
<1>1. /\ writer'[w][c].on = writer[w][c].on /\ writer'[w][c].next = writer[w][c].next
      /\ writer'[w][c].to = Recipients(w, c)
  BY GoroutineAfter DEF SkipInv, WriterStep
<1>2. Positioned(w, c)'
  BY <1>1, PositionKept
<1>3. UNCHANGED <<conv, outbox, partition>>
  BY DEF ReadMembers
<1>4. ASSUME NEW u \in Users, Owed(c, partition[c][writer[w][c].next], u)
      PROVE  u \in Recipients(w, c)
  BY <1>4 DEF Owed, Stays, Recipients, Reading
<1>5. Holds(w, c)'
  BY <1>1, <1>3, <1>4 DEF Holds, Owed, Stays
<1> QED
  BY <1>2, <1>5

(* What is written is covered. *)
LEMMA WriteInboxCovers ==
  ASSUME SkipInv, Onward, NEW w \in Writers, NEW c \in Conversations, WriteInbox(w, c)
  PROVE  Positioned(w, c)' /\ Holds(w, c)'
<1>0. DeliveryTypeOK /\ writer[w][c].read /\ BatchInsert(w, c) /\ UNCHANGED <<conv, outbox, partition>>
  BY DEF WriteInbox, SkipInv
<1>1. writer'[w][c].on = writer[w][c].on /\ writer'[w][c].next = writer[w][c].next + 1
  BY GoroutineAfter DEF SkipInv, WriterStep
<1>2. writer[w][c].next \in DOMAIN partition[c] /\ writer[w][c].next \in Nat
  BY <1>0, WriterFacts
<1>3. PICK i : i = partition[c][writer[w][c].next]
  OBVIOUS
<1>4. ASSUME NEW u \in Users, Owed(c, i, u)' PROVE Has(u, c, i)'
  <2>1. Owed(c, i, u)
    BY <1>0, <1>4 DEF Owed, Stays
  <2>2. u \in writer[w][c].to
    BY <1>0, <1>3, <2>1 DEF SkipInv, ReadersHold
  <2>3. \E a \in stream'[u].applied : a.conv = c /\ a.change = i
    BY <1>0, <1>3, <2>2, BatchInsertHas
  <2> QED
    BY <2>3 DEF Has
<1>5. PICK n : n = writer[w][c].next
  OBVIOUS
<1>6. Covered(c, n)'
  <2>1. n \in DOMAIN partition'[c] /\ (partition[c][n])' = i
    BY <1>0, <1>2, <1>3, <1>5
  <2>2. ASSUME NEW u \in Users PROVE Owed(c, partition[c][n], u)' => Has(u, c, partition[c][n])'
    BY <1>4, <2>1 DEF Owed, Stays, Has
  <2> QED
    BY <2>1, <2>2 DEF Covered
<1>7. ASSUME writer[w][c].on, NEW k \in 1 .. n PROVE Covered(c, k)'
  <2>1. CASE k = n
    BY <1>6, <2>1
  <2>2. CASE k # n
    <3>1. k \in 1 .. writer[w][c].next - 1
      BY <1>2, <1>5, <2>2
    <3>2. Covered(c, k)
      BY <1>7, <3>1 DEF SkipInv, PassedCovered
    <3> QED
      BY <3>2, CoveredKept DEF SkipInv
  <2> QED
    BY <2>1, <2>2
<1>8. Positioned(w, c)'
  <2>1. writer'[w][c].next - 1 = n
    BY <1>1, <1>2, <1>5
  <2> QED
    BY <1>1, <1>7, <2>1 DEF Positioned
<1>9. Holds(w, c)'
  <2>1. writer'[w][c].read = FALSE \/ writer'[w][c] = writer[w][c]
    BY <1>0, GoroutineReset
  <2>2. writer'[w][c] # writer[w][c]
    BY <1>1, <1>2
  <2> QED
    BY <2>1, <2>2 DEF Holds
<1> QED
  BY <1>8, <1>9

(* A claim starts behind the committed offset. *)
LEMMA RebalanceCovers ==
  ASSUME SkipInv, Onward, NEW w \in Writers, NEW c \in Conversations, Rebalance(w, c)
  PROVE  Positioned(w, c)'
<1>1. writer'[w][c].next = NextOffset(c)
  BY GoroutineAfter DEF SkipInv, WriterStep
<1>2. group[c].known /\ group[c].committed \in Nat
  BY DEF SkipInv, CommittedCovered, DeliveryTypeOK
<1>3. writer'[w][c].next - 1 = group[c].committed
  BY <1>1, <1>2 DEF NextOffset
<1>4. \A k \in 1 .. group[c].committed : Covered(c, k)'
  BY CoveredKept DEF SkipInv, CommittedCovered
<1> QED
  BY <1>3, <1>4 DEF Positioned

(* A step of a goroutine. *)
LEMMA GoroutineStep ==
  ASSUME SkipInv, Onward, NEW w \in Writers, NEW c \in Conversations, WriterStep(w, c)
  PROVE  PassedCovered' /\ ReadersHold'
<1> SUFFICES ASSUME NEW v \in Writers, NEW b \in Conversations
             PROVE  Positioned(v, b)' /\ Holds(v, b)'
  BY DEF PassedCovered, ReadersHold, Positioned, Holds
<1>1. DeliveryTypeOK
  BY DEF SkipInv
<1>2. CASE writer'[v][b] = writer[v][b]
  BY <1>2, WriterRests
<1>3. CASE writer'[v][b] # writer[v][b]
  <2>1. v = w /\ b = c
    BY <1>1, <1>3, GoroutineAfter
  <2>2. CASE ReadMembers(w, c)
    BY <2>1, <2>2, ReadMembersHolds
  <2>3. CASE WriteInbox(w, c)
    BY <2>1, <2>3, WriteInboxCovers
  <2>4. CASE WriteInboxFails(w, c) \/ Rebalance(w, c) \/ Leave(w, c)
    <3>1. Holds(w, c)'
      BY <1>1, <1>3, <2>1, <2>4, GoroutineReset DEF Holds
    <3>2. Positioned(w, c)'
      BY <1>1, <2>4, GoroutineAfter, PositionKept, RebalanceCovers
    <3> QED
      BY <2>1, <3>1, <3>2
  <2>5. ~CommitOffset(w, c)
    BY <1>3 DEF CommitOffset
  <2> QED
    BY <2>2, <2>3, <2>4, <2>5 DEF WriterStep
<1> QED
  BY <1>2, <1>3

(* Offsets that are not committed in a step. *)
LEMMA OffsetsRest ==
  ASSUME SkipInv, Onward,
         \A c \in Conversations : /\ group'[c].committed = group[c].committed
                                  /\ group'[c].known = group[c].known
  PROVE  CommittedCovered'
<1> SUFFICES ASSUME NEW c \in Conversations
             PROVE  group'[c].known /\ \A k \in 1 .. group'[c].committed : Covered(c, k)'
  BY DEF CommittedCovered
<1>1. group[c].known /\ \A k \in 1 .. group[c].committed : Covered(c, k)
  BY DEF SkipInv, CommittedCovered
<1> QED
  BY <1>1, CoveredKept DEF SkipInv

(* The offset a goroutine commits is behind what it has passed. *)
LEMMA CommitOffsetCovers ==
  ASSUME SkipInv, Onward, NEW w \in Writers, NEW c \in Conversations, CommitOffset(w, c)
  PROVE  CommittedCovered'
<1>1. group \in [Conversations -> [owner: Writers, committed: Nat, known: BOOLEAN]]
  BY DEF SkipInv, DeliveryTypeOK
<1>2. /\ group'[c].committed = writer[w][c].next - 1 /\ group'[c].known = TRUE
      /\ \A b \in Conversations : b # c => group'[b] = group[b]
  BY <1>1 DEF CommitOffset
<1> SUFFICES ASSUME NEW b \in Conversations
             PROVE  group'[b].known /\ \A k \in 1 .. group'[b].committed : Covered(b, k)'
  BY DEF CommittedCovered
<1>3. CASE b = c
  <2>1. \A k \in 1 .. writer[w][c].next - 1 : Covered(c, k)
    BY DEF SkipInv, PassedCovered, CommitOffset
  <2> QED
    BY <1>2, <1>3, <2>1, CoveredKept DEF SkipInv
<1>4. CASE b # c
  <2>1. group[b].known /\ \A k \in 1 .. group[b].committed : Covered(b, k)
    BY DEF SkipInv, CommittedCovered
  <2> QED
    BY <1>2, <1>4, <2>1, CoveredKept DEF SkipInv
<1> QED
  BY <1>3, <1>4

(* Every step keeps committed and passed records covered. *)
LEMMA StepCovered ==
  ASSUME SkipInv, [DeliveryNext]_deliveryVars PROVE SkipInv'
<1>1. DeliveryTypeOK /\ DeliveryTypeOK' /\ Onward
  BY StepTyped, StepOnward DEF SkipInv
<1>2. LeaversLeftOut'
  BY <1>1, LeaversKept DEF SkipInv
<1>3. ASSUME UNCHANGED <<group, writer>>
      PROVE  CommittedCovered' /\ PassedCovered' /\ ReadersHold'
  <2>1. PassedCovered' /\ ReadersHold'
    BY <1>1, <1>3, WriterRests DEF PassedCovered, ReadersHold, Positioned, Holds
  <2> QED
    BY <1>1, <1>3, <2>1, OffsetsRest
<1>4. ASSUME NEW w \in Writers, NEW c \in Conversations, WriterStep(w, c)
      PROVE  CommittedCovered' /\ PassedCovered' /\ ReadersHold'
  <2>1. PassedCovered' /\ ReadersHold'
    BY <1>1, <1>4, GoroutineStep
  <2>2. CASE CommitOffset(w, c)
    BY <1>1, <2>1, <2>2, CommitOffsetCovers
  <2>3. CASE Rebalance(w, c)
    <3>1. group \in [Conversations -> [owner: Writers, committed: Nat, known: BOOLEAN]]
      BY <1>1 DEF DeliveryTypeOK
    <3>2. group' = [group EXCEPT ![c] = [group[c] EXCEPT !.owner = w]]
      BY <2>3 DEF Rebalance
    <3>3. \A b \in Conversations : /\ group'[b].committed = group[b].committed
                                   /\ group'[b].known = group[b].known
      BY <3>1, <3>2
    <3> QED
      BY <1>1, <2>1, <3>3, OffsetsRest
  <2>4. CASE ~CommitOffset(w, c) /\ ~Rebalance(w, c)
    <3>1. UNCHANGED group
      BY <1>4, <2>4 DEF WriterStep, ReadMembers, WriteInbox, WriteInboxFails, Leave
    <3> QED
      BY <1>1, <2>1, <3>1, OffsetsRest
  <2> QED
    BY <2>2, <2>3, <2>4
<1>5. ASSUME NEW c \in Conversations, MutateSome(c) PROVE UNCHANGED <<group, writer>>
  BY <1>1, <1>5, MutationsTell DEF Tells
<1>6. ASSUME NEW d \in Dispatchers, DispatcherStep(d) PROVE UNCHANGED <<group, writer>>
  BY <1>6 DEF DispatcherStep, CommitBatch, RollBackBatch, Dispatch, DispatchFails
<1>7. ASSUME NEW u \in Aging, Expire(u) \/ PruneStream(u) PROVE UNCHANGED <<group, writer>>
  BY <1>7 DEF Expire, PruneStream
<1>8. CommittedCovered' /\ PassedCovered' /\ ReadersHold'
  BY <1>3, <1>4, <1>5, <1>6, <1>7 DEF DeliveryNext, deliveryVars
<1> QED
  BY <1>1, <1>2, <1>8 DEF SkipInv

(* Before the first change there is nothing to skip. *)
LEMMA InitCovered ==
  ASSUME StartsWithOffset, DeliveryInit PROVE SkipInv
<1>1. DeliveryTypeOK
  BY InitTyped
<1>2. \A c \in Conversations : DOMAIN outbox[c] = {}
  <2>1. \A c \in Conversations : outbox[c] = <<>>
    BY DEF DeliveryInit
  <2>2. DOMAIN <<>> = {}
    OBVIOUS
  <2> QED
    BY <2>1, <2>2, Zenon
<1>3. LeaversLeftOut
  BY <1>2 DEF LeaversLeftOut
<1>4. CommittedCovered
  <2> SUFFICES ASSUME NEW c \in Conversations
               PROVE  group[c].known /\ \A k \in 1 .. group[c].committed : Covered(c, k)
    BY DEF CommittedCovered
  <2>1. group[c].committed = 0 /\ group[c].known = TRUE
    BY DEF DeliveryInit, StartsWithOffset
  <2>2. 1 .. group[c].committed = {}
    BY <2>1
  <2> QED
    BY <2>1, <2>2
<1>5. ASSUME NEW w \in Writers, NEW c \in Conversations
      PROVE  Positioned(w, c) /\ Holds(w, c)
  <2> DEFINE claim == [Off EXCEPT !.on = TRUE, !.next = 1]
  <2>1. writer[w][c] = Off \/ writer[w][c] = claim
    BY DEF DeliveryInit
  <2>2. Off.on = FALSE /\ Off.read = FALSE
    BY DEF Off
  <2>3. claim.next = 1 /\ claim.read = FALSE
    BY DEF Off
  <2> HIDE DEF claim
  <2>4. writer[w][c].read = FALSE
    BY <2>1, <2>2, <2>3
  <2>5. ASSUME writer[w][c].on PROVE 1 .. writer[w][c].next - 1 = {}
    <3>1. writer[w][c] = claim
      BY <2>1, <2>2, <2>5
    <3> QED
      BY <2>3, <3>1
  <2> QED
    BY <2>4, <2>5 DEF Positioned, Holds
<1>6. PassedCovered /\ ReadersHold
  BY <1>5 DEF PassedCovered, ReadersHold, Positioned, Holds
<1> QED
  BY <1>1, <1>3, <1>4, <1>6 DEF SkipInv

(* Of what is committed, nothing is missing. *)
LEMMA CoveredMeansNothingSkipped ==
  ASSUME SkipInv PROVE NothingSkipped
<1> SUFFICES ASSUME NEW c \in Conversations, NEW k \in 1 .. group[c].committed,
                    NEW u \in outbox[c][partition[c][k]].to,
                    \/ outbox[c][partition[c][k]].kind = "removed"
                    \/ /\ u \in conv[c].members
                       /\ \A j \in partition[c][k] + 1 .. Len(outbox[c]) :
                             outbox[c][j].kind = "upsert" => u \in outbox[c][j].to
             PROVE  \E a \in stream[u].applied : a.conv = c /\ a.change = partition[c][k]
  BY Zenon DEF NothingSkipped
<1>1. PICK i : i = partition[c][k]
  OBVIOUS
<1>2. Covered(c, k)
  BY DEF SkipInv, CommittedCovered
<1>3. i \in DOMAIN outbox[c] /\ outbox[c] \in Seq(Changes)
  BY <1>1, <1>2 DEF Covered, SkipInv, DeliveryTypeOK
<1>4. u \in Users
  <2>1. outbox[c][i] \in Changes /\ u \in outbox[c][i].to
    BY <1>1, <1>3
  <2>2. outbox[c][i].to \subseteq Users
    BY <2>1 DEF Changes
  <2> QED
    BY <2>1, <2>2
<1>5. Owed(c, i, u)
  <2>1. CASE outbox[c][i].kind = "removed"
    BY <1>1, <2>1 DEF Owed
  <2>2. CASE outbox[c][i].kind # "removed"
    <3>1. /\ u \in conv[c].members
          /\ \A j \in i + 1 .. Len(outbox[c]) :
                outbox[c][j].kind = "upsert" => u \in outbox[c][j].to
      BY <1>1, <2>2
    <3>2. \A j \in DOMAIN outbox[c] : j > i => j \in i + 1 .. Len(outbox[c])
      BY <1>3
    <3> QED
      BY <1>1, <3>1, <3>2 DEF Owed, Stays
  <2> QED
    BY <2>1, <2>2
<1> QED
  BY <1>1, <1>2, <1>4, <1>5 DEF Covered, Has

(* What the group has consumed is in the stream of every user it was for    *)
(* who did not leave in the meantime, whoever joins, leaves, comes back,    *)
(* takes over the partition or fails between the reading of the members and *)
(* the write (ConsumeClaim, handleMessageCreated, BatchInsert).             *)
THEOREM ConsumedIsDelivered ==
  ASSUME StartsWithOffset PROVE DeliverySpec => []NothingSkipped
<1>1. DeliveryInit => SkipInv
  BY InitCovered
<1>2. SkipInv /\ [DeliveryNext]_deliveryVars => SkipInv'
  BY StepCovered
<1>3. SkipInv => NothingSkipped
  BY CoveredMeansNothingSkipped
<1> QED
  BY <1>1, <1>2, <1>3, PTL DEF DeliverySpec

=============================================================================
