-------------------------- MODULE InboxSync_proofs --------------------------
(***************************************************************************)
(* What a device may rely on that follows the stream of its user, for any  *)
(* conversations, users, devices, writers, faults and retention.           *)
(***************************************************************************)
EXTENDS InboxSync, InboxDelivery_proofs, FiniteSetTheorems, WellFoundedInduction

-----------------------------------------------------------------------------
(* What the outbox of a conversation says of its rows                       *)

(* A change that is about a user's present membership: no removal of the    *)
(* user was published behind it.                                            *)
Current(c, j, u) ==
    /\ j \in DOMAIN outbox[c]
    /\ u \in outbox[c][j].to /\ outbox[c][j].kind # "removed"
    /\ \A i \in DOMAIN outbox[c] :
          outbox[c][i].kind = "removed" /\ u \in outbox[c][i].to => i < j

(* A change of a message is about one that exists, and a deleted message is *)
(* visible to nobody who is told of the deletion.                           *)
MessagesNamed ==
    \A c \in Conversations : \A i \in DOMAIN outbox[c] :
        LET e == outbox[c][i] IN
        e.kind \in MessageKinds =>
            /\ e.message \in DOMAIN conv[c].messages
            /\ e.kind = "deleted" => \A u \in e.to : e.message \notin Visible(c, u)

(* Nothing is about the present membership of somebody who is no member.    *)
LeaversTold ==
    \A c \in Conversations : \A u \in Users \ conv[c].members :
        \A j \in DOMAIN outbox[c] : ~Current(c, j, u)

(* Nobody is left out while a member; who has come back was told, and was   *)
(* told of every message since.                                             *)
MembersTold ==
    \A c \in Conversations : \A u \in conv[c].members :
        /\ \A j \in DOMAIN outbox[c] : Current(c, j, u) => Stays(c, j, u)
        /\ \A i \in DOMAIN outbox[c] :
              outbox[c][i].kind = "removed" /\ u \in outbox[c][i].to =>
                  \E j \in DOMAIN outbox[c] :
                      Current(c, j, u) /\ outbox[c][j].kind = "upsert"
        /\ \A m \in DOMAIN conv[c].messages : m > conv[c].joined[u] =>
              \E j \in DOMAIN outbox[c] :
                  /\ Current(c, j, u)
                  /\ outbox[c][j].kind = "new" /\ outbox[c][j].message = m

(* A user's reads advance. *)
ReadsAdvance ==
    \A c \in Conversations : \A j \in DOMAIN outbox[c] :
        outbox[c][j].kind = "read" =>
            \A u \in outbox[c][j].to :
                /\ conv[c].open => outbox[c][j].upTo <= conv[c].read[u]
                /\ \A i \in 1 .. j - 1 :
                      outbox[c][i].kind = "read" /\ u \in outbox[c][i].to =>
                          outbox[c][i].upTo < outbox[c][j].upTo

RowsInv == MessagesNamed /\ LeaversTold /\ MembersTold /\ ReadsAdvance

-----------------------------------------------------------------------------
(* Streams                                                                  *)

(* Positions lie in the stream; its end and its boundary are known ones.    *)
PositionsKnown ==
    \A u \in Users :
        LET s == stream[u] IN
        /\ s.retained <= s.position /\ s.expired <= s.position
        /\ \A a \in s.applied : a.position <= s.position
        /\ \A e \in s.entries : e.position > 0
        /\ \/ s.position = 0 \/ (s.position = 1 /\ s.retained >= 1)
           \/ \E a \in s.applied : a.position = s.position

(* An entry is a row of the outbox, and only reads are coalesced.           *)
EntriesMirror ==
    \A u \in Users :
        /\ \A e \in stream[u].entries :
              LET row == outbox[e.conv][e.change] IN
              /\ e.change \in DOMAIN outbox[e.conv]
              /\ e.kind = row.kind /\ e.message = row.message /\ e.upTo = row.upTo
        /\ \A a \in stream[u].applied :
              /\ a.change \in DOMAIN outbox[a.conv]
              /\ a.position = 0 => outbox[a.conv][a.change].kind = "read"

(* What lies behind the boundary is still there, or a newer read is.        *)
Retained ==
    \A u \in Users : \A a \in stream[u].applied :
        a.position > stream[u].retained =>
            \E e \in stream[u].entries :
                /\ e.conv = a.conv /\ e.position >= a.position
                /\ \/ e.change = a.change /\ e.position = a.position
                   \/ e.kind = "read" /\ outbox[a.conv][a.change].kind = "read"

StreamsInv == OncePerChange /\ PositionsKnown /\ EntriesMirror /\ Retained

(* A stream takes what is owed to its user in the order of publication, and *)
(* a removal before everything published later.                             *)
OwedInOrder ==
    \A u \in Users, c \in Conversations : \A i, j \in DOMAIN outbox[c] :
        i < j /\ Has(u, c, j) /\ Owed(c, i, u) => Has(u, c, i)
RemovalsInOrder ==
    \A u \in Users : \A a, b \in stream[u].applied :
        /\ a.conv = b.conv /\ a.change < b.change
        /\ outbox[a.conv][a.change].kind = "removed"
        => a.position < b.position \/ b.position = 0

WritersOn ==
    \A w \in Writers, c \in Conversations : writer[w][c].read => writer[w][c].on

OrderedInv == OwedInOrder /\ RemovalsInOrder /\ WritersOn

-----------------------------------------------------------------------------
(* Caches                                                                   *)

(* A change that a device at position p will still be told: it lies before  *)
(* the device in the stream, or is owed to the stream.                      *)
Coming(u, p, c, i) ==
    /\ i \in DOMAIN outbox[c] /\ u \in outbox[c][i].to
    /\ IF Has(u, c, i)
       THEN \E e \in stream[u].entries : e.conv = c /\ e.change = i /\ e.position > p
       ELSE Owed(c, i, u)

Leaving(u, p, c) ==
    \E i \in DOMAIN outbox[c] : Coming(u, p, c, i) /\ outbox[c][i].kind = "removed"
About(c, j, m) == outbox[c][j].kind \in MessageKinds /\ outbox[c][j].message = m

(* What a cache shows of a conversation is what the database has, unless a  *)
(* change is coming that will make it so.                                   *)
LeftBehind(u, p, c, cache) ==
    \/ Leaving(u, p, c)
    \/ c \notin cache.conversations /\ cache.messages[c] = {} /\ cache.read[c] = 0
RowShown(u, p, c, cache) ==
    \/ /\ c \in cache.conversations /\ cache.read[c] = conv[c].read[u]
       /\ ~Leaving(u, p, c)
    \/ \E j \in DOMAIN outbox[c] : Coming(u, p, c, j) /\ Current(c, j, u)
NothingStale(u, p, c, cache) ==
    \A old \in cache.messages[c] :
        \/ old.id \in Visible(c, u) /\ old = Shown(c, old.id)
        \/ Leaving(u, p, c)
        \/ \E j \in DOMAIN outbox[c] : Coming(u, p, c, j) /\ About(c, j, old.id)
NothingMissing(u, p, c, cache) ==
    \A m \in Visible(c, u) : m > conv[c].joined[u] =>
        \/ Shown(c, m) \in cache.messages[c] /\ ~Leaving(u, p, c)
        \/ \E j \in DOMAIN outbox[c] :
              Coming(u, p, c, j) /\ Current(c, j, u) /\ About(c, j, m)

ConvFollowed(u, p, c, cache) ==
    IF u \in conv[c].members
    THEN /\ RowShown(u, p, c, cache) /\ NothingStale(u, p, c, cache)
         /\ Len(conv[c].messages) <= Limit => NothingMissing(u, p, c, cache)
    ELSE LeftBehind(u, p, c, cache)

(* Deletion and recall are for ever.                                        *)
ForEver(u, c, cache) ==
    /\ cache.deleted[c] \subseteq DOMAIN conv[c].messages \ Visible(c, u)
    /\ \A old \in cache.messages[c] :
          /\ old.id \in DOMAIN conv[c].messages
          /\ old.recalled => conv[c].messages[old.id].recalled

CacheInv(u, p, cache) ==
    /\ \A c \in Conversations : ForEver(u, c, cache)
    /\ p > 0 /\ p >= stream[u].retained =>
          \A c \in Conversations : ConvFollowed(u, p, c, cache)

DevicesInv ==
    \A d \in Devices : \A cache \in {device[d]} :
        CacheInv(UserOf[d], cache.position, cache)
DevicesKnown ==
    \A d \in Devices :
        LET s == stream[UserOf[d]]
            p == device[d].position
        IN /\ p <= s.position
           /\ \/ p = 0 \/ (p = 1 /\ s.retained >= 1)
              \/ \E a \in s.applied : a.position = p

-----------------------------------------------------------------------------
(* Pages                                                                    *)

(* A non-empty set of naturals has a least element. *)
LEMMA Least ==
  ASSUME NEW S, S \subseteq Nat, S # {}
  PROVE  \E x \in S : \A y \in S : x <= y
<1>1. PICK x \in S : \A y \in S : ~(<<y, x>> \in OpToRel(<, Nat))
  BY NatLessThanWellFounded, WFMin, Zenon
<1>2. \A y \in S : ~(y < x)
  BY <1>1 DEF OpToRel
<1>3. x \in Nat /\ \A y \in S : y \in Nat
  OBVIOUS
<1> QED
  BY <1>2, <1>3

(* A non-empty set of positions of a stream has a greatest one. *)
LEMMA Greatest ==
  ASSUME NEW n \in Nat, NEW S, S \subseteq 0 .. n, S # {}
  PROVE  Max(S) \in S /\ \A y \in S : y <= Max(S)
<1> DEFINE T == {t \in 0 .. n : n - t \in S}
<1>1. PICK x \in S : TRUE
  OBVIOUS
<1>2. n - x \in T
  BY <1>1
<1>3. PICK t \in T : \A k \in T : t <= k
  <2>1. T \subseteq Nat
    BY SMT
  <2>2. T # {}
    BY <1>2
  <2> HIDE DEF T
  <2> QED
    BY <2>1, <2>2, Least, Zenon
<1>4. n - t \in S /\ \A y \in S : y <= n - t
  <2>1. \A y \in S : n - y \in T
    OBVIOUS
  <2> QED
    BY <1>3, <2>1
<1>5. \E z \in S : \A y \in S : z >= y
  BY <1>4
<1>6. Max(S) \in S /\ \A y \in S : Max(S) >= y
  BY <1>5 DEF Max
<1> QED
  BY <1>6

(* The entries of a stream are finitely many: each has a position. *)
LEMMA EntriesFinite ==
  ASSUME NEW s \in Streams, Once(s) PROVE IsFiniteSet(s.entries)
<1> DEFINE f == [e \in s.entries |-> e.position]
<1>1. s.position \in Nat /\ \A e \in s.entries : e.position \in 0 .. s.position
  BY DEF Once, Streams, Entries
<1>2. f \in Injection(s.entries, 0 .. s.position)
  BY <1>1 DEF Once, Injection, IsInjective
<1>3. IsFiniteSet(0 .. s.position)
  BY <1>1, FS_Interval
<1> QED
  BY <1>2, <1>3, FS_Injection

(* A page takes what comes first. *)
LEMMA PageFirst ==
  ASSUME NEW s \in Streams, Once(s), NEW p, NEW e \in Page(s, p), NEW f \in After(s, p),
         f.position < e.position
  PROVE  f \in Page(s, p)
<1> DEFINE F == {g \in After(s, p) : g.position < f.position}
           E == {g \in After(s, p) : g.position < e.position}
<1>1. e \in After(s, p) /\ Cardinality(E) < Limit
  BY DEF Page
<1>2. IsFiniteSet(E)
  BY EntriesFinite, FS_Subset DEF After
<1>3. \A g \in s.entries : g.position \in Nat
  BY DEF Streams, Entries
<1>4. F \subseteq E
  BY <1>1, <1>3 DEF After
<1>5. Cardinality(F) <= Cardinality(E) /\ Cardinality(F) \in Nat /\ Cardinality(E) \in Nat
  BY <1>2, <1>4, FS_Subset, FS_CardinalityType
<1>6. Cardinality(F) < Limit
  BY <1>1, <1>5, SyncAssumption
<1> QED
  BY <1>6 DEF Page

(* It is empty only where nothing is left. *)
LEMMA PageTakesSome ==
  ASSUME NEW s \in Streams, Once(s), NEW p, After(s, p) # {}
  PROVE  Page(s, p) # {}
<1> DEFINE P == {e.position : e \in After(s, p)}
<1>1. \A g \in s.entries : g.position \in Nat
  BY DEF Streams, Entries
<1>2. P \subseteq Nat /\ P # {}
  BY <1>1 DEF After
<1>3. PICK x \in P : \A y \in P : x <= y
  BY <1>2, Least
<1>4. PICK e \in After(s, p) : e.position = x
  BY <1>3
<1> DEFINE F == {f \in After(s, p) : f.position < e.position}
<1>5. F = {}
  <2>1. ASSUME NEW f \in After(s, p) PROVE ~(f.position < e.position)
    <3>1. f.position \in P /\ f.position \in Nat /\ x \in Nat
      BY <1>1, <1>2 DEF After
    <3>2. x <= f.position
      BY <1>3, <3>1
    <3> QED
      BY <1>4, <3>1, <3>2
  <2> QED
    BY <2>1
<1>6. Cardinality(F) < Limit
  <2>1. Cardinality(F) = 0
    BY <1>5, FS_EmptySet
  <2> QED
    BY <2>1, SyncAssumption
<1> QED
  BY <1>4, <1>6 DEF Page

(* A page ends where every entry up to there was taken and every later one  *)
(* was left: at the end of the stream or at an entry (ReadPage).            *)
LEMMA PageEnds ==
  ASSUME NEW s \in Streams, Once(s), NEW p \in Nat, p <= s.position
  PROVE  LET q == NextPosition(s, p)
         IN  /\ q \in Nat /\ p <= q /\ q <= s.position
             /\ q = s.position \/ \E e \in s.entries : e.position = q
             /\ \A e \in s.entries :
                   p < e.position /\ e.position <= q <=> e \in Page(s, p)
<1> DEFINE q == NextPosition(s, p)
           P == {e.position : e \in Page(s, p)}
<1>1. /\ s.position \in Nat
      /\ \A e \in s.entries : e.position \in Nat /\ e.position <= s.position
      /\ Page(s, p) \subseteq After(s, p) /\ After(s, p) \subseteq s.entries
      /\ \A e \in After(s, p) : e.position > p
  BY DEF Once, Streams, Entries, Page, After
<1>2. CASE Page(s, p) = After(s, p)
  <2>1. q = s.position
    BY <1>2 DEF NextPosition
  <2> QED
    BY <1>1, <1>2, <2>1 DEF After
<1>3. CASE Page(s, p) # After(s, p)
  <2>1. q = Max(P)
    BY <1>3 DEF NextPosition
  <2>2. P \subseteq 0 .. s.position /\ P # {}
    BY <1>1, <1>3, PageTakesSome
  <2>3. q \in P /\ \A y \in P : y <= q
    BY <1>1, <2>1, <2>2, Greatest
  <2>4. PICK e \in Page(s, p) : e.position = q
    BY <2>3
  <2>5. ASSUME NEW f \in s.entries, p < f.position, f.position <= q PROVE f \in Page(s, p)
    <3>1. f \in After(s, p)
      BY <1>1, <2>5 DEF After
    <3>2. CASE f.position < e.position
      BY <3>1, <3>2, PageFirst
    <3>3. CASE f.position = e.position
      BY <1>1, <3>3, <2>4 DEF Once
    <3> QED
      BY <1>1, <2>4, <2>5, <3>2, <3>3
  <2>6. \A f \in Page(s, p) : p < f.position /\ f.position <= q
    BY <1>1, <2>3
  <2>7. q \in Nat /\ p <= q /\ q <= s.position
    BY <1>1, <2>4
  <2> QED
    BY <1>1, <2>4, <2>5, <2>6, <2>7
<1> QED
  BY <1>2, <1>3

-----------------------------------------------------------------------------
(* Caches                                                                   *)

(* The fields of a cache. *)
LEMMA CacheFields ==
  ASSUME NEW cache \in Caches
  PROVE  /\ cache = [position |-> cache.position, conversations |-> cache.conversations,
                     messages |-> cache.messages, deleted |-> cache.deleted,
                     read |-> cache.read]
         /\ cache.position \in Nat /\ cache.conversations \in SUBSET Conversations
         /\ cache.messages \in [Conversations -> SUBSET Seen]
         /\ cache.deleted \in [Conversations -> SUBSET Nat]
         /\ cache.read \in [Conversations -> Nat]
  BY DEF Caches

(* What is shown of a message. *)
LEMMA ShownTyped ==
  ASSUME DeliveryTypeOK, NEW c \in Conversations, NEW u \in Users
  PROVE  /\ Visible(c, u) \subseteq DOMAIN conv[c].messages
         /\ DOMAIN conv[c].messages \subseteq Nat
         /\ \A m \in DOMAIN conv[c].messages :
               /\ Shown(c, m) \in Seen /\ Shown(c, m).id = m
               /\ Shown(c, m).recalled = conv[c].messages[m].recalled
         /\ conv[c].read[u] \in Nat
<1>1. conv[c] \in ConversationRows
  BY DEF DeliveryTypeOK
<1>2. \A m \in DOMAIN conv[c].messages : m \in Nat /\ conv[c].messages[m] \in Messages
  BY RowFacts DEF DeliveryTypeOK, RowsTyped
<1> QED
  BY <1>1, <1>2 DEF Visible, Shown, Seen, Messages, ConversationRows

(* A conversation is dropped, and no other. *)
LEMMA DropFields ==
  ASSUME NEW cache \in Caches, NEW c \in Conversations, NEW new, new = Drop(cache, c)
  PROVE  /\ new \in Caches /\ new.position = cache.position
         /\ new.conversations = cache.conversations \ {c}
         /\ new.deleted = cache.deleted
         /\ new.messages[c] = {} /\ new.read[c] = 0
         /\ \A b \in Conversations : b # c =>
               /\ new.messages[b] = cache.messages[b] /\ new.read[b] = cache.read[b]
<1>1. new = [position |-> cache.position, conversations |-> cache.conversations \ {c},
             messages |-> [cache.messages EXCEPT ![c] = {}],
             deleted |-> cache.deleted, read |-> [cache.read EXCEPT ![c] = 0]]
  BY DEF Drop, Caches
<1>2. /\ [cache.messages EXCEPT ![c] = {}] \in [Conversations -> SUBSET Seen]
      /\ [cache.read EXCEPT ![c] = 0] \in [Conversations -> Nat]
      /\ cache.conversations \ {c} \in SUBSET Conversations
  BY CacheFields
<1>3. new \in Caches
  BY <1>1, <1>2, CacheFields DEF Caches
<1> QED
  BY <1>1, <1>3, CacheFields

(* Merging keeps the other messages. *)
LEMMA MergeTyped ==
  ASSUME NEW seen \in SUBSET Seen, NEW message \in Seen
  PROVE  Merge(seen, message) \in SUBSET Seen
  BY DEF Merge

(* The message of a change shown: none, taken away, or taken over. *)
ShowsMessage(cache, new, u, e, c) ==
    \/ /\ e.kind \notin MessageKinds
       /\ new.messages[c] = cache.messages[c] /\ new.deleted[c] = cache.deleted[c]
    \/ /\ e.kind \in MessageKinds
       /\ e.kind = "deleted" \/ e.message \notin Visible(c, u)
       /\ new.messages[c] = {seen \in cache.messages[c] : seen.id # e.message}
       /\ new.deleted[c] = cache.deleted[c] \cup {e.message}
    \/ /\ e.kind \in MessageKinds
       /\ e.message \in Visible(c, u)
       /\ new.deleted[c] = cache.deleted[c]
       /\ \/ /\ e.message \in cache.deleted[c]
             /\ new.messages[c] = cache.messages[c]
          \/ new.messages[c] = Merge(cache.messages[c], Shown(c, e.message))

(* A conversation is shown, and at most one message of it. *)
LEMMA ShowFields ==
  ASSUME DeliveryTypeOK, NEW cache \in Caches, NEW u \in Users, NEW e \in Entries,
         NEW c \in Conversations, c = e.conv, NEW new, new = Show(cache, u, e)
  PROVE  /\ new \in Caches /\ new.position = cache.position
         /\ new.conversations = cache.conversations \cup {c}
         /\ new.read[c] = conv[c].read[u]
         /\ \A b \in Conversations : b # c =>
               /\ new.messages[b] = cache.messages[b] /\ new.read[b] = cache.read[b]
               /\ new.deleted[b] = cache.deleted[b]
         /\ ShowsMessage(cache, new, u, e, c)
<1> DEFINE read == [cache.read EXCEPT ![c] = conv[c].read[u]]
<1>0. PICK known : known = [cache EXCEPT !.conversations = @ \cup {c},
                                         !.read[c] = conv[c].read[u]]
  OBVIOUS
<1>1. /\ known = [position |-> cache.position, conversations |-> cache.conversations \cup {c},
                  messages |-> cache.messages, deleted |-> cache.deleted, read |-> read]
      /\ read \in [Conversations -> Nat] /\ read[c] = conv[c].read[u]
      /\ \A b \in Conversations : b # c => read[b] = cache.read[b]
      /\ cache.conversations \cup {c} \in SUBSET Conversations
  <2>1. conv[c].read[u] \in Nat
    BY ShownTyped
  <2>2. known = [position |-> cache.position, conversations |-> cache.conversations \cup {c},
                 messages |-> cache.messages, deleted |-> cache.deleted, read |-> read]
    <3> HIDE DEF read
    <3>1. known = [position |-> cache.position, conversations |-> cache.conversations \cup {c},
                   messages |-> cache.messages, deleted |-> cache.deleted,
                   read |-> [cache.read EXCEPT ![c] = conv[c].read[u]]]
      BY <1>0 DEF Caches
    <3> QED
      BY <3>1 DEF read
  <2>3. /\ read \in [Conversations -> Nat] /\ read[c] = conv[c].read[u]
        /\ \A b \in Conversations : b # c => read[b] = cache.read[b]
    BY <2>1, CacheFields
  <2> QED
    BY <2>2, <2>3, CacheFields
<1>2. known \in Caches
  BY <1>1, CacheFields DEF Caches
<1>3. new = IF e.kind \notin MessageKinds THEN known
            ELSE IF e.kind = "deleted" \/ e.message \notin Visible(c, u)
            THEN [known EXCEPT !.deleted[c] = @ \cup {e.message},
                               !.messages[c] = {seen \in @ : seen.id # e.message}]
            ELSE IF e.message \in cache.deleted[c] THEN known
            ELSE [known EXCEPT !.messages[c] = Merge(@, Shown(c, e.message))]
  BY <1>0 DEF Show
<1>4. known.messages = cache.messages /\ known.deleted = cache.deleted /\ known.read = read
      /\ known.position = cache.position /\ known.conversations = cache.conversations \cup {c}
  BY <1>1
<1> HIDE DEF read
<1>5. CASE new = known /\ (e.kind \notin MessageKinds
                           \/ (e.kind \in MessageKinds /\ e.message \in Visible(c, u)
                               /\ e.message \in cache.deleted[c]))
  BY <1>1, <1>2, <1>4, <1>5 DEF ShowsMessage
<1>6. CASE /\ e.kind \in MessageKinds /\ (e.kind = "deleted" \/ e.message \notin Visible(c, u))
           /\ new = [known EXCEPT !.deleted[c] = @ \cup {e.message},
                                  !.messages[c] = {seen \in @ : seen.id # e.message}]
  <2> DEFINE deleted == [cache.deleted EXCEPT ![c] = cache.deleted[c] \cup {e.message}]
             left == {seen \in cache.messages[c] : seen.id # e.message}
             messages == [cache.messages EXCEPT ![c] = left]
  <2>1. e.message \in Nat
    BY DEF Entries
  <2>2. /\ deleted \in [Conversations -> SUBSET Nat]
        /\ deleted[c] = cache.deleted[c] \cup {e.message}
        /\ \A b \in Conversations : b # c => deleted[b] = cache.deleted[b]
    BY <2>1, CacheFields
  <2>3. /\ messages \in [Conversations -> SUBSET Seen] /\ messages[c] = left
        /\ \A b \in Conversations : b # c => messages[b] = cache.messages[b]
    BY CacheFields
  <2>4. new = [position |-> known.position, conversations |-> known.conversations,
               messages |-> messages, deleted |-> deleted, read |-> known.read]
    BY <1>2, <1>4, <1>6, ZenonT(90) DEF Caches
  <2> HIDE DEF deleted, messages
  <2>5. new \in Caches
    BY <1>2, <2>2, <2>3, <2>4 DEF Caches
  <2>6. /\ new.position = cache.position /\ new.conversations = cache.conversations \cup {c}
        /\ new.read = read /\ new.messages = messages /\ new.deleted = deleted
    BY <1>4, <2>4
  <2>7. \A b \in Conversations : b # c =>
           /\ new.messages[b] = cache.messages[b] /\ new.read[b] = cache.read[b]
           /\ new.deleted[b] = cache.deleted[b]
    BY <1>1, <2>2, <2>3, <2>6
  <2>8. /\ new.messages[c] = {seen \in cache.messages[c] : seen.id # e.message}
        /\ new.deleted[c] = cache.deleted[c] \cup {e.message}
        /\ new.read[c] = conv[c].read[u]
    BY <1>1, <2>2, <2>3, <2>6
  <2> QED
    BY <1>6, <2>5, <2>6, <2>7, <2>8 DEF ShowsMessage
<1>7. CASE /\ e.kind \in MessageKinds /\ e.message \in Visible(c, u)
           /\ new = [known EXCEPT !.messages[c] = Merge(@, Shown(c, e.message))]
  <2> DEFINE merged == Merge(cache.messages[c], Shown(c, e.message))
             messages == [cache.messages EXCEPT ![c] = merged]
  <2>1. merged \in SUBSET Seen
    BY <1>7, CacheFields, ShownTyped, MergeTyped
  <2> HIDE DEF merged
  <2>3. /\ messages \in [Conversations -> SUBSET Seen] /\ messages[c] = merged
        /\ \A b \in Conversations : b # c => messages[b] = cache.messages[b]
    BY <2>1, CacheFields
  <2>4. new = [position |-> known.position, conversations |-> known.conversations,
               messages |-> messages, deleted |-> known.deleted, read |-> known.read]
    BY <1>2, <1>4, <1>7, ZenonT(90) DEF Caches, merged
  <2> HIDE DEF messages
  <2>5. new \in Caches
    BY <1>2, <2>3, <2>4 DEF Caches
  <2> QED
    BY <1>1, <1>4, <1>7, <2>3, <2>4, <2>5 DEF merged, ShowsMessage
<1> QED
  BY <1>3, <1>5, <1>6, <1>7

(* An entry applied leaves a cache, at the same position. *)
LEMMA ApplyTyped ==
  ASSUME DeliveryTypeOK, NEW cache \in Caches, NEW u \in Users, NEW e \in Entries
  PROVE  /\ ApplyChange(cache, u, e) \in Caches
         /\ ApplyChange(cache, u, e).position = cache.position
<1>1. e.conv \in Conversations
  BY DEF Entries
<1> QED
  BY <1>1, DropFields, ShowFields DEF ApplyChange

LEMMA ApplyAtTyped ==
  ASSUME DeliveryTypeOK, NEW cache \in Caches, NEW u \in Users, NEW page \in SUBSET Entries,
         NEW position
  PROVE  /\ ApplyAt(cache, u, page, position) \in Caches
         /\ ApplyAt(cache, u, page, position).position = cache.position
<1>1. CASE \E e \in page : e.position = position
  <2>1. (CHOOSE e \in page : e.position = position) \in Entries
    BY <1>1
  <2> QED
    BY <1>1, <2>1, ApplyTyped DEF ApplyAt
<1>2. CASE ~\E e \in page : e.position = position
  BY <1>2 DEF ApplyAt
<1> QED
  BY <1>1, <1>2

-----------------------------------------------------------------------------
(* The cache after the entries of a page up to a position (ApplyPage)       *)

AppliedIn(f, n, cache, u, page) ==
    f = [position \in 0 .. n |->
            IF position <= cache.position THEN cache
            ELSE ApplyAt(f[position - 1], u, page, position)]
UpTo(cache, u, page, n) ==
    CHOOSE f : f = [position \in 0 .. n |->
                      IF position <= cache.position THEN cache
                      ELSE ApplyAt(f[position - 1], u, page, position)]

(* The function of ApplyPage exists: otherwise there were a least position  *)
(* without one, and one could be had from its predecessor's.                *)
LEMMA UpToExists ==
  ASSUME NEW cache \in Caches, NEW u, NEW page, NEW n \in Nat
  PROVE  AppliedIn(UpTo(cache, u, page, n), n, cache, u, page)
<1> DEFINE Solved(k) == \E f : AppliedIn(f, k, cache, u, page)
           Unsolved == {k \in Nat : ~Solved(k)}
<1>1. CASE Unsolved = {}
  <2>1. Solved(n)
    BY <1>1
  <2> QED
    BY <2>1, Zenon DEF UpTo, AppliedIn
<1>2. CASE Unsolved # {}
  <2>1. PICK k \in Unsolved : \A l \in Unsolved : k <= l
    <3>1. Unsolved \subseteq Nat
      OBVIOUS
    <3> HIDE DEF Unsolved
    <3> QED
      BY <1>2, <3>1, Least, Zenon
  <2>2. k \in Nat /\ ~Solved(k)
    OBVIOUS
  <2>3. CASE k = 0
    <3> DEFINE g == [position \in 0 .. 0 |-> cache]
    <3>1. cache.position \in Nat
      BY DEF Caches
    <3>2. AppliedIn(g, 0, cache, u, page)
      BY <3>1 DEF AppliedIn
    <3> QED
      BY <2>2, <2>3, <3>2
  <2>4. CASE k # 0
    <3>1. k - 1 \in Nat /\ Solved(k - 1)
      <4>1. k - 1 \in Nat
        BY <2>2, <2>4
      <4>2. k - 1 \notin Unsolved
        BY <2>1, <2>2, <4>1
      <4> QED
        BY <4>1, <4>2
    <3>2. PICK f : AppliedIn(f, k - 1, cache, u, page)
      BY <3>1
    <3> DEFINE g == [position \in 0 .. k |->
                       IF position <= cache.position THEN cache
                       ELSE ApplyAt(f[position - 1], u, page, position)]
    <3>3. ASSUME NEW position \in 0 .. k - 1 PROVE g[position] = f[position]
      <4>1. position \in 0 .. k
        BY <2>2
      <4> QED
        BY <3>2, <4>1, Zenon DEF AppliedIn
    <3>4. ASSUME NEW position \in 0 .. k, ~(position <= cache.position)
          PROVE  g[position - 1] = f[position - 1]
      <4>1. position - 1 \in 0 .. k - 1
        BY <2>2, <3>4 DEF Caches
      <4> QED
        BY <3>3, <4>1
    <3>5. AppliedIn(g, k, cache, u, page)
      <4>1. [position \in 0 .. k |->
               IF position <= cache.position THEN cache
               ELSE ApplyAt(g[position - 1], u, page, position)]
            = [position \in 0 .. k |->
               IF position <= cache.position THEN cache
               ELSE ApplyAt(f[position - 1], u, page, position)]
        <5> HIDE DEF g
        <5> QED
          BY <3>4, Zenon
      <4> QED
        BY <4>1, Zenon DEF AppliedIn
    <3> QED
      BY <2>2, <3>5
  <2> QED
    BY <2>3, <2>4
<1> QED
  BY <1>1, <1>2

(* The entries of a page are applied one position after the other. *)
LEMMA UpToSteps ==
  ASSUME NEW cache \in Caches, NEW u, NEW page, NEW n \in Nat, NEW position \in 0 .. n
  PROVE  UpTo(cache, u, page, n)[position]
         = IF position <= cache.position THEN cache
           ELSE ApplyAt(UpTo(cache, u, page, n)[position - 1], u, page, position)
<1> DEFINE f == UpTo(cache, u, page, n)
<1>0. AppliedIn(f, n, cache, u, page)
  BY UpToExists
<1> HIDE DEF f
<1>1. f = [k \in 0 .. n |-> IF k <= cache.position THEN cache
                            ELSE ApplyAt(f[k - 1], u, page, k)]
  BY <1>0, Zenon DEF AppliedIn
<1>2. f[position] = IF position <= cache.position THEN cache
                    ELSE ApplyAt(f[position - 1], u, page, position)
  BY <1>1, Zenon
<1> QED
  BY <1>2 DEF f

LEMMA ApplyPageIs ==
  ASSUME NEW cache, NEW u
  PROVE  LET s == stream[u]
             page == Page(s, cache.position)
         IN  ApplyPage(cache, u)
             = [UpTo(cache, u, page, s.position)[s.position] EXCEPT
                   !.position = NextPosition(s, cache.position)]
  BY Zenon DEF ApplyPage, UpTo

(* At every position there is a cache. *)
LEMMA UpToTyped ==
  ASSUME DeliveryTypeOK, NEW cache \in Caches, NEW u \in Users, NEW page \in SUBSET Entries,
         NEW n \in Nat, NEW position \in 0 .. n
  PROVE  UpTo(cache, u, page, n)[position] \in Caches
<1> DEFINE f == UpTo(cache, u, page, n)
           Bad == {k \in 0 .. n : f[k] \notin Caches}
<1>1. ASSUME Bad # {} PROVE FALSE
  <2>1. PICK k \in Bad : \A l \in Bad : k <= l
    <3>1. Bad \subseteq Nat
      OBVIOUS
    <3> HIDE DEF Bad
    <3> QED
      BY <1>1, <3>1, Least, Zenon
  <2>2. k \in 0 .. n /\ f[k] \notin Caches
    OBVIOUS
  <2>3. ~(k <= cache.position)
    BY <2>2, UpToSteps
  <2>4. k - 1 \in 0 .. n
    BY <2>2, <2>3 DEF Caches
  <2>5. f[k - 1] \in Caches
    BY <2>1, <2>2, <2>4
  <2>6. f[k] = ApplyAt(f[k - 1], u, page, k)
    BY <2>2, <2>3, UpToSteps
  <2> HIDE DEF f
  <2> QED
    BY <2>2, <2>5, <2>6, ApplyAtTyped
<1> QED
  BY <1>1

-----------------------------------------------------------------------------
(* What the steps of the delivery do to a stream                            *)

LEMMA StreamFacts ==
  ASSUME DeliveryTypeOK, NEW u \in Users
  PROVE  /\ stream[u] \in Streams
         /\ stream[u].position \in Nat /\ stream[u].retained \in Nat
         /\ stream[u].expired \in Nat
         /\ \A e \in stream[u].entries :
               /\ e \in Entries /\ e.position \in Nat /\ e.conv \in Conversations
               /\ e.change \in Nat /\ e.kind \in Kinds
         /\ \A a \in stream[u].applied :
               a.position \in Nat /\ a.conv \in Conversations /\ a.change \in Nat
<1>1. stream[u] \in Streams
  BY DEF DeliveryTypeOK
<1>2. /\ stream[u].position \in Nat /\ stream[u].retained \in Nat
      /\ stream[u].expired \in Nat
      /\ stream[u].entries \subseteq Entries /\ stream[u].applied \subseteq Applied
  BY <1>1 DEF Streams
<1>3. \A e \in Entries :
         /\ e.position \in Nat /\ e.conv \in Conversations
         /\ e.change \in Nat /\ e.kind \in Kinds
  BY DEF Entries
<1>4. \A a \in Applied :
         a.position \in Nat /\ a.conv \in Conversations /\ a.change \in Nat
  BY DEF Applied
<1> QED
  BY <1>1, <1>2, <1>3, <1>4

Entry(c, i, n) ==
    [position |-> n, conv |-> c, change |-> i, kind |-> outbox[c][i].kind,
     message |-> outbox[c][i].message, upTo |-> outbox[c][i].upTo]
Mark(c, i, n) == [conv |-> c, change |-> i, position |-> n]

(* BatchInsert for one user leaves a known change alone, marks a read that  *)
(* a newer one has overtaken, or appends.                                   *)
LEMMA InsertFields ==
  ASSUME NEW s \in Streams, NEW c \in Conversations, NEW i, NEW new, new = Insert(s, c, i),
         outbox[c][i] \in Changes
  PROVE  /\ new.retained = s.retained /\ new.expired = s.expired
         /\ \/ new = s /\ \E a \in s.applied : a.conv = c /\ a.change = i
            \/ /\ ~\E a \in s.applied : a.conv = c /\ a.change = i
               /\ outbox[c][i].kind = "read"
               /\ \E o \in s.entries :
                     o.conv = c /\ o.kind = "read" /\ o.upTo >= outbox[c][i].upTo
               /\ new.position = s.position /\ new.entries = s.entries
               /\ new.applied = s.applied \cup {Mark(c, i, 0)}
            \/ /\ ~\E a \in s.applied : a.conv = c /\ a.change = i
               /\ new.position = s.position + 1
               /\ new.applied = s.applied \cup {Mark(c, i, s.position + 1)}
               /\ \A e \in new.entries :
                     e \in s.entries \/ e = Entry(c, i, s.position + 1)
               /\ Entry(c, i, s.position + 1) \in new.entries
               /\ \A o \in s.entries :
                     \/ o \in new.entries
                     \/ /\ o.conv = c /\ o.kind = "read" /\ outbox[c][i].kind = "read"
                        /\ ~(o.upTo >= outbox[c][i].upTo)
<1> DEFINE e == outbox[c][i]
           known == \E a \in s.applied : a.conv = c /\ a.change = i
           overtaken == \E o \in Coalesced(s, c, e) : o.upTo >= e.upTo
           marked == [s EXCEPT !.applied = @ \cup {Mark(c, i, 0)}]
           again == InsertAgain(s, c, i)
<1>1. new = IF known THEN s ELSE IF overtaken THEN marked ELSE again
  BY DEF Insert, Mark
<1>2. /\ marked.retained = s.retained /\ marked.expired = s.expired
      /\ marked.position = s.position /\ marked.entries = s.entries
      /\ marked.applied = s.applied \cup {Mark(c, i, 0)}
  BY DEF Streams
<1>3. /\ again.retained = s.retained /\ again.expired = s.expired
      /\ again.position = s.position + 1
      /\ again.entries = (s.entries \ Coalesced(s, c, e)) \cup {Entry(c, i, s.position + 1)}
      /\ again.applied = s.applied \cup {Mark(c, i, s.position + 1)}
  BY DEF InsertAgain, Streams, Mark, Entry
<1>4. \A o : o \in Coalesced(s, c, e) <=>
                o \in s.entries /\ o.conv = c /\ o.kind = "read" /\ e.kind = "read"
  BY DEF Coalesced
<1> HIDE DEF marked, again
<1>5. CASE known
  BY <1>1, <1>5
<1>6. CASE ~known /\ overtaken
  BY <1>1, <1>2, <1>4, <1>6
<1>7. CASE ~known /\ ~overtaken
  <2>1. new = again
    BY <1>1, <1>7
  <2>2. \A o \in s.entries : o \in again.entries \/ o \in Coalesced(s, c, e)
    BY <1>3
  <2>3. \A o \in Coalesced(s, c, e) : ~(o.upTo >= e.upTo)
    BY <1>7
  <2>4. \A o \in s.entries :
           \/ o \in new.entries
           \/ /\ o.conv = c /\ o.kind = "read" /\ e.kind = "read" /\ ~(o.upTo >= e.upTo)
    BY <1>4, <2>1, <2>2, <2>3
  <2>5. /\ \A o \in again.entries : o \in s.entries \/ o = Entry(c, i, s.position + 1)
        /\ Entry(c, i, s.position + 1) \in again.entries
    BY <1>3
  <2> QED
    BY <1>3, <1>7, <2>1, <2>4, <2>5
<1> QED
  BY <1>5, <1>6, <1>7

(* PositionsKnown, EntriesMirror and Retained for one stream. *)
PositionsOf(s) ==
    /\ s.retained <= s.position /\ s.expired <= s.position
    /\ \A a \in s.applied : a.position <= s.position
    /\ \A e \in s.entries : e.position > 0
    /\ \/ s.position = 0 \/ (s.position = 1 /\ s.retained >= 1)
       \/ \E a \in s.applied : a.position = s.position
MirrorOf(s) ==
    /\ \A e \in s.entries :
          LET row == outbox[e.conv][e.change] IN
          /\ e.change \in DOMAIN outbox[e.conv]
          /\ e.kind = row.kind /\ e.message = row.message /\ e.upTo = row.upTo
    /\ \A a \in s.applied :
          /\ a.change \in DOMAIN outbox[a.conv]
          /\ a.position = 0 => outbox[a.conv][a.change].kind = "read"
Replaces(s, a, e) ==
    /\ e.conv = a.conv /\ e.position >= a.position
    /\ \/ e.change = a.change /\ e.position = a.position
       \/ e.kind = "read" /\ outbox[a.conv][a.change].kind = "read"
RetainedOf(s) ==
    \A a \in s.applied : a.position > s.retained => \E e \in s.entries : Replaces(s, a, e)

LEMMA InsertKeeps ==
  ASSUME NEW s \in Streams, NEW c \in Conversations, NEW i \in DOMAIN outbox[c],
         outbox[c][i] \in Changes, PositionsOf(s), MirrorOf(s), RetainedOf(s),
         NEW new, new = Insert(s, c, i)
  PROVE  PositionsOf(new) /\ MirrorOf(new) /\ RetainedOf(new)
<1> DEFINE n == s.position + 1
<1>1. /\ s.position \in Nat /\ s.retained \in Nat /\ s.expired \in Nat
      /\ \A e \in s.entries : e.position \in Nat
      /\ \A a \in s.applied : a.position \in Nat
  BY DEF Streams, Entries, Applied
<1>2. /\ Entry(c, i, n).position = n /\ Entry(c, i, n).conv = c /\ Entry(c, i, n).change = i
      /\ Entry(c, i, n).kind = outbox[c][i].kind
      /\ Entry(c, i, n).message = outbox[c][i].message
      /\ Entry(c, i, n).upTo = outbox[c][i].upTo
      /\ \A k : Mark(c, i, k).conv = c /\ Mark(c, i, k).change = i /\ Mark(c, i, k).position = k
  BY DEF Entry, Mark
<1>3. CASE new = s
  BY <1>3
<1>4. CASE /\ new.retained = s.retained /\ new.expired = s.expired
           /\ outbox[c][i].kind = "read"
           /\ new.position = s.position /\ new.entries = s.entries
           /\ new.applied = s.applied \cup {Mark(c, i, 0)}
  <2>1. PositionsOf(new)
    BY <1>1, <1>2, <1>4 DEF PositionsOf
  <2>2. MirrorOf(new)
    BY <1>2, <1>4 DEF MirrorOf
  <2>3. RetainedOf(new)
    BY <1>1, <1>2, <1>4 DEF RetainedOf, Replaces
  <2> QED
    BY <2>1, <2>2, <2>3
<1>5. CASE /\ new.retained = s.retained /\ new.expired = s.expired
           /\ new.position = n /\ new.applied = s.applied \cup {Mark(c, i, n)}
           /\ \A e \in new.entries : e \in s.entries \/ e = Entry(c, i, n)
           /\ Entry(c, i, n) \in new.entries
           /\ \A o \in s.entries :
                 \/ o \in new.entries
                 \/ o.conv = c /\ o.kind = "read" /\ outbox[c][i].kind = "read"
  <2>1. PositionsOf(new)
    <3>1. Mark(c, i, n) \in new.applied
      BY <1>5
    <3> QED
      BY <1>1, <1>2, <1>5, <3>1 DEF PositionsOf
  <2>2. MirrorOf(new)
    <3>1. n # 0
      BY <1>1
    <3> HIDE DEF n
    <3>2. ASSUME NEW e \in new.entries
          PROVE  LET row == outbox[e.conv][e.change] IN
                 /\ e.change \in DOMAIN outbox[e.conv]
                 /\ e.kind = row.kind /\ e.message = row.message /\ e.upTo = row.upTo
      BY <1>2, <1>5 DEF MirrorOf
    <3>3. ASSUME NEW a \in new.applied
          PROVE  /\ a.change \in DOMAIN outbox[a.conv]
                 /\ a.position = 0 => outbox[a.conv][a.change].kind = "read"
      BY <1>2, <1>5, <3>1 DEF MirrorOf
    <3> QED
      BY <3>2, <3>3 DEF MirrorOf
  <2>3. RetainedOf(new)
    <3> SUFFICES ASSUME NEW a \in new.applied, a.position > new.retained
                 PROVE  \E e \in new.entries : Replaces(new, a, e)
      BY DEF RetainedOf
    <3>1. CASE a = Mark(c, i, n)
      <4>1. Replaces(new, a, Entry(c, i, n))
        BY <1>1, <1>2, <3>1 DEF Replaces
      <4> QED
        BY <1>5, <4>1
    <3>2. CASE a \in s.applied
      <4>1. PICK e \in s.entries : Replaces(s, a, e)
        BY <1>5, <3>2 DEF RetainedOf
      <4>2. CASE e \in new.entries
        BY <4>1, <4>2 DEF Replaces
      <4>3. CASE e.conv = c /\ e.kind = "read" /\ outbox[c][i].kind = "read"
        <5>1. a.conv = c /\ outbox[a.conv][a.change].kind = "read"
          BY <4>1, <4>3 DEF Replaces, MirrorOf
        <5>2. a.position <= s.position /\ a.position \in Nat
          BY <1>1, <3>2 DEF PositionsOf
        <5>3. n >= a.position
          BY <1>1, <5>2
        <5> HIDE DEF n
        <5>4. Replaces(new, a, Entry(c, i, n))
          BY <1>2, <4>3, <5>1, <5>3 DEF Replaces
        <5> QED
          BY <1>5, <5>4
      <4> QED
        BY <1>5, <4>2, <4>3
    <3> QED
      BY <1>5, <3>1, <3>2
  <2> QED
    BY <2>1, <2>2, <2>3
<1> QED
  BY <1>3, <1>4, <1>5, InsertFields

(* The invariants of the streams, stream by stream. *)
LEMMA StreamByStream ==
  ASSUME \A u \in Users :
            PositionsOf(stream[u]) /\ MirrorOf(stream[u]) /\ RetainedOf(stream[u])
  PROVE  PositionsKnown /\ EntriesMirror /\ Retained
<1>1. PositionsKnown
  BY DEF PositionsOf, PositionsKnown
<1>2. EntriesMirror
  BY DEF MirrorOf, EntriesMirror
<1>3. Retained
  BY DEF RetainedOf, Replaces, Retained
<1> QED
  BY <1>1, <1>2, <1>3

LEMMA StreamOfAll ==
  ASSUME StreamsInv, NEW u \in Users
  PROVE  PositionsOf(stream[u]) /\ MirrorOf(stream[u]) /\ RetainedOf(stream[u])
<1>1. PositionsOf(stream[u])
  BY DEF PositionsOf, PositionsKnown, StreamsInv
<1>2. MirrorOf(stream[u])
  BY DEF MirrorOf, EntriesMirror, StreamsInv
<1>3. RetainedOf(stream[u])
  BY DEF RetainedOf, Replaces, Retained, StreamsInv
<1> QED
  BY <1>1, <1>2, <1>3

(* Retention moves the boundary with the prefix it takes away. *)
LEMMA RetentionFields ==
  ASSUME DeliveryTypeOK, NEW u \in Users, Expire(u) \/ PruneStream(u)
  PROVE  /\ \A v \in Users : v # u => stream'[v] = stream[v]
         /\ stream'[u].position = stream[u].position
         /\ stream'[u].applied = stream[u].applied
         /\ \/ /\ stream'[u].retained = stream[u].retained
               /\ stream'[u].entries = stream[u].entries
               /\ stream'[u].expired \in Allocated(stream[u]) \cup {0}
            \/ /\ stream'[u].retained = Larger(stream[u].retained, stream[u].expired)
               /\ stream'[u].expired = stream[u].expired
               /\ stream'[u].entries
                  = {e \in stream[u].entries : e.position > stream[u].expired}
<1>1. stream[u] \in Streams /\ stream \in [Users -> Streams]
  BY DEF DeliveryTypeOK
<1>2. \A v \in Users : v # u => stream'[v] = stream[v]
  BY <1>1 DEF Expire, PruneStream
<1>3. CASE Expire(u)
  <2>1. PICK p \in Allocated(stream[u]) \cup {0} :
           stream' = [stream EXCEPT ![u] = [stream[u] EXCEPT !.expired = p]]
    BY <1>3 DEF Expire
  <2>2. stream'[u] = [stream[u] EXCEPT !.expired = p]
    BY <1>1, <2>1
  <2> QED
    BY <1>1, <1>2, <2>2 DEF Streams
<1>4. CASE PruneStream(u)
  <2> DEFINE s == stream[u]
             left == {e \in s.entries : e.position > s.expired}
             only == [s EXCEPT !.entries = left]
  <2>1. stream'[u] = Prune(s)
    BY <1>1, <1>4 DEF PruneStream
  <2>2. PruneOnly(s) = only
    BY DEF PruneOnly
  <2>3. Prune(s) = [only EXCEPT !.retained = Larger(only.retained, s.expired)]
    BY <2>2 DEF Prune
  <2>4. only = [position |-> s.position, retained |-> s.retained, expired |-> s.expired,
                entries |-> left, applied |-> s.applied]
    <3>1. s \in Streams
      BY <1>1
    <3> HIDE DEF left, s
    <3> QED
      BY <3>1 DEF Streams
  <2> HIDE DEF only, left
  <2>5. /\ Prune(s).position = s.position /\ Prune(s).applied = s.applied
        /\ Prune(s).expired = s.expired /\ Prune(s).entries = left
        /\ Prune(s).retained = Larger(s.retained, s.expired)
    BY <2>3, <2>4
  <2> QED
    BY <1>2, <2>1, <2>5 DEF left
<1> QED
  BY <1>3, <1>4

LEMMA RetentionKeeps ==
  ASSUME DeliveryTypeOK, StreamsInv, NEW u \in Users, Expire(u) \/ PruneStream(u)
  PROVE  PositionsOf(stream'[u]) /\ MirrorOf(stream'[u]) /\ RetainedOf(stream'[u])
<1> DEFINE s == stream[u]
           t == stream'[u]
<1>1. PositionsOf(s) /\ MirrorOf(s) /\ RetainedOf(s)
  BY StreamOfAll
<1>2. /\ s.position \in Nat /\ s.retained \in Nat /\ s.expired \in Nat
      /\ \A e \in s.entries : e.position \in Nat /\ e.position <= s.position
      /\ \A a \in s.applied : a.position \in Nat /\ a.position <= s.position
  BY <1>1, StreamFacts DEF PositionsOf, StreamsInv, OncePerChange
<1>3. /\ t.position = s.position /\ t.applied = s.applied
      /\ \/ /\ t.retained = s.retained /\ t.entries = s.entries
            /\ t.expired \in Allocated(s) \cup {0}
         \/ /\ t.retained = Larger(s.retained, s.expired) /\ t.expired = s.expired
            /\ t.entries = {e \in s.entries : e.position > s.expired}
  BY RetentionFields
<1> HIDE DEF s, t
<1>4. CASE t.retained = s.retained /\ t.entries = s.entries /\ t.expired \in Allocated(s) \cup {0}
  <2>1. t.expired <= s.position
    BY <1>2, <1>4 DEF Allocated
  <2>2. PositionsOf(t)
    BY <1>1, <1>3, <1>4, <2>1 DEF PositionsOf
  <2>3. MirrorOf(t)
    BY <1>1, <1>3, <1>4 DEF MirrorOf
  <2>4. RetainedOf(t)
    BY <1>1, <1>3, <1>4 DEF RetainedOf, Replaces
  <2> QED
    BY <2>2, <2>3, <2>4 DEF t
<1>5. CASE /\ t.retained = Larger(s.retained, s.expired) /\ t.expired = s.expired
           /\ t.entries = {e \in s.entries : e.position > s.expired}
  <2>1. /\ t.retained \in Nat /\ t.retained >= s.retained /\ t.retained >= s.expired
        /\ t.retained <= s.position
    BY <1>1, <1>2, <1>5 DEF Larger, PositionsOf
  <2>2. PositionsOf(t)
    BY <1>1, <1>2, <1>3, <1>5, <2>1 DEF PositionsOf
  <2>3. MirrorOf(t)
    BY <1>1, <1>3, <1>5 DEF MirrorOf
  <2>4. RetainedOf(t)
    <3> SUFFICES ASSUME NEW a \in s.applied, a.position > t.retained
                 PROVE  \E e \in t.entries : Replaces(t, a, e)
      BY <1>3 DEF RetainedOf
    <3>1. a.position > s.retained /\ a.position > s.expired
      BY <1>2, <2>1
    <3>2. PICK e \in s.entries : Replaces(s, a, e)
      BY <1>1, <3>1 DEF RetainedOf
    <3>3. e.position > s.expired
      BY <1>2, <3>1, <3>2 DEF Replaces
    <3> QED
      BY <1>5, <3>2, <3>3 DEF Replaces
  <2> QED
    BY <2>2, <2>3, <2>4 DEF t
<1> QED
  BY <1>3, <1>4, <1>5

(* Every step of the delivery keeps the streams consistent. *)
LEMMA StepStreams ==
  ASSUME DeliveryTypeOK, StreamsInv, [DeliveryNext]_deliveryVars PROVE StreamsInv'
<1>0. OncePerChange'
  BY StepOnce DEF StreamsInv
<1>1. \A u \in Users :
         PositionsOf(stream[u]) /\ MirrorOf(stream[u]) /\ RetainedOf(stream[u])
  BY StreamOfAll
<1>2. ASSUME UNCHANGED outbox,
             \A u \in Users :
                PositionsOf(stream'[u]) /\ MirrorOf(stream'[u]) /\ RetainedOf(stream'[u])
      PROVE  StreamsInv'
  <2>1. PositionsKnown'
    BY <1>2 DEF PositionsOf, PositionsKnown
  <2>2. EntriesMirror'
    BY <1>2 DEF MirrorOf, EntriesMirror
  <2>3. Retained'
    BY <1>2 DEF RetainedOf, Replaces, Retained
  <2> QED
    BY <1>0, <2>1, <2>2, <2>3 DEF StreamsInv
<1>3. ASSUME UNCHANGED stream, RowsKept PROVE StreamsInv'
  <2>1. PositionsKnown'
    BY <1>3 DEF StreamsInv, PositionsKnown
  <2>2. EntriesMirror'
    BY <1>3, StreamFacts DEF StreamsInv, EntriesMirror, RowsKept
  <2>3. \A u \in Users : \A a \in stream[u].applied :
           outbox'[a.conv][a.change].kind = outbox[a.conv][a.change].kind
    BY <1>3, StreamFacts DEF StreamsInv, EntriesMirror, RowsKept
  <2>4. Retained'
    BY <1>3, <2>3 DEF StreamsInv, Retained
  <2> QED
    BY <1>0, <2>1, <2>2, <2>4 DEF StreamsInv
<1>4. ASSUME NEW w \in Writers, NEW c \in Conversations, WriterStep(w, c) PROVE StreamsInv'
  <2>1. UNCHANGED outbox
    BY <1>4 DEF WriterStep, ReadMembers, WriteInbox, WriteInboxFails, CommitOffset,
                Rebalance, Leave
  <2>2. CASE UNCHANGED stream
    BY <1>3, <2>1, <2>2 DEF RowsKept
  <2>3. CASE BatchInsert(w, c) /\ writer[w][c].read
    <3> DEFINE i == partition[c][writer[w][c].next]
    <3>1. i \in DOMAIN outbox[c] /\ outbox[c][i] \in Changes
      BY <2>3, ReadingTyped DEF DeliveryTypeOK, Reading
    <3>2. \A u \in Users : stream[u] \in Streams
      BY StreamFacts
    <3>3. \A u \in Users : stream'[u] = stream[u] \/ stream'[u] = Insert(stream[u], c, i)
      BY <2>3 DEF BatchInsert
    <3> HIDE DEF i
    <3>4. \A u \in Users :
             PositionsOf(stream'[u]) /\ MirrorOf(stream'[u]) /\ RetainedOf(stream'[u])
      BY <1>1, <3>1, <3>2, <3>3, InsertKeeps
    <3> QED
      BY <1>2, <2>1, <3>4
  <2> QED
    BY <1>4, <2>2, <2>3 DEF WriterStep, ReadMembers, WriteInbox, WriteInboxFails,
                            CommitOffset, Rebalance, Leave
<1>5. ASSUME NEW u \in Aging, Expire(u) \/ PruneStream(u) PROVE StreamsInv'
  <2>1. u \in Users /\ UNCHANGED outbox
    BY <1>5, DeliveryAssumption DEF Expire, PruneStream
  <2>2. \A v \in Users : v # u => stream'[v] = stream[v]
    BY <1>5, <2>1, RetentionFields
  <2>3. PositionsOf(stream'[u]) /\ MirrorOf(stream'[u]) /\ RetainedOf(stream'[u])
    BY <1>5, <2>1, RetentionKeeps
  <2>4. \A v \in Users :
           PositionsOf(stream'[v]) /\ MirrorOf(stream'[v]) /\ RetainedOf(stream'[v])
    BY <1>1, <2>2, <2>3
  <2> QED
    BY <1>2, <2>1, <2>4
<1>6. CASE UNCHANGED deliveryVars
  BY <1>3, <1>6 DEF deliveryVars, RowsKept
<1>7. ASSUME NEW c \in Conversations, MutateSome(c) PROVE UNCHANGED stream
  BY <1>7, MutationsTell DEF Tells
<1>8. ASSUME NEW d \in Dispatchers, DispatcherStep(d) PROVE UNCHANGED stream
  BY <1>8 DEF DispatcherStep, CommitBatch, RollBackBatch, Dispatch, DispatchFails
<1> QED
  BY <1>3, <1>4, <1>5, <1>6, <1>7, <1>8, StepOnward DEF DeliveryNext, Onward

(* Streams grow, and so do their boundaries. *)
LEMMA StreamsGrow ==
  ASSUME DeliveryTypeOK, [DeliveryNext]_deliveryVars, NEW u \in Users
  PROVE  /\ stream[u].position <= stream'[u].position
         /\ stream[u].retained <= stream'[u].retained
         /\ stream[u].applied \subseteq stream'[u].applied
<1>1. stream[u].position \in Nat /\ stream[u].retained \in Nat /\ stream[u].expired \in Nat
  BY StreamFacts
<1>2. CASE UNCHANGED stream
  BY <1>1, <1>2
<1>3. ASSUME NEW w \in Writers, NEW c \in Conversations,
             BatchInsert(w, c), writer[w][c].read
      PROVE  /\ stream[u].position <= stream'[u].position
             /\ stream[u].retained <= stream'[u].retained
             /\ stream[u].applied \subseteq stream'[u].applied
  <2> DEFINE i == partition[c][writer[w][c].next]
  <2>1. outbox[c][i] \in Changes
    BY <1>3, ReadingTyped DEF DeliveryTypeOK, Reading
  <2>2. stream[u] \in Streams
    BY StreamFacts
  <2>3. stream'[u] = stream[u] \/ stream'[u] = Insert(stream[u], c, i)
    BY <1>3 DEF BatchInsert
  <2> HIDE DEF i
  <2>4. CASE stream'[u] = Insert(stream[u], c, i)
    <3>1. /\ stream'[u].retained = stream[u].retained
          /\ \/ stream'[u].position = stream[u].position
             \/ stream'[u].position = stream[u].position + 1
      BY <2>1, <2>2, <2>4, InsertFields
    <3>2. stream[u].applied \subseteq stream'[u].applied
      BY <2>2, <2>4, InsertHas
    <3> QED
      BY <1>1, <3>1, <3>2
  <2> QED
    BY <1>1, <2>3, <2>4
<1>4. ASSUME NEW v \in Aging, Expire(v) \/ PruneStream(v)
      PROVE  /\ stream[u].position <= stream'[u].position
             /\ stream[u].retained <= stream'[u].retained
             /\ stream[u].applied \subseteq stream'[u].applied
  <2>1. v \in Users
    BY DeliveryAssumption
  <2>2. CASE v = u
    BY <1>1, <1>4, <2>1, <2>2, RetentionFields DEF Larger
  <2>3. CASE v # u
    BY <1>1, <1>4, <2>1, <2>3, RetentionFields
  <2> QED
    BY <2>2, <2>3
<1>5. ASSUME NEW c \in Conversations, MutateSome(c) PROVE UNCHANGED stream
  BY <1>5, MutationsTell DEF Tells
<1>6. ASSUME NEW d \in Dispatchers, DispatcherStep(d) PROVE UNCHANGED stream
  BY <1>6 DEF DispatcherStep, CommitBatch, RollBackBatch, Dispatch, DispatchFails
<1>7. ASSUME NEW w \in Writers, NEW c \in Conversations, WriterStep(w, c)
      PROVE  UNCHANGED stream \/ (BatchInsert(w, c) /\ writer[w][c].read)
  BY <1>7 DEF WriterStep, ReadMembers, WriteInbox, WriteInboxFails, CommitOffset,
              Rebalance, Leave
<1> QED
  BY <1>2, <1>3, <1>4, <1>5, <1>6, <1>7 DEF DeliveryNext, deliveryVars

-----------------------------------------------------------------------------
(* What a device does                                                       *)

LEMMA DeviceFacts ==
  ASSUME TypeOK, NEW d \in Devices
  PROVE  UserOf[d] \in Users /\ device[d] \in Caches /\ device[d].position \in Nat
<1>1. UserOf[d] \in Users /\ device[d] \in Caches
  BY SyncAssumption DEF TypeOK
<1> QED
  BY <1>1 DEF Caches

(* EnsureStream opens an empty stream. *)
LEMMA EnsureFields ==
  ASSUME TypeOK, StreamsInv, NEW d \in Devices, EnsureStream(d)
  PROVE  LET u == UserOf[d]
         IN  /\ u \in Users /\ stream[u].position = 0 /\ stream[u].entries = {}
             /\ stream[u].retained = 0
             /\ \A a \in stream[u].applied : a.position = 0
             /\ stream'[u].position = 1 /\ stream'[u].retained = 1
             /\ stream'[u].expired = stream[u].expired
             /\ stream'[u].entries = stream[u].entries
             /\ stream'[u].applied = stream[u].applied
             /\ stream'[u] \in Streams
             /\ \A v \in Users : v # u => stream'[v] = stream[v]
             /\ stream' \in [Users -> Streams]
<1> DEFINE u == UserOf[d]
<1>1. u \in Users /\ stream[u] \in Streams /\ stream \in [Users -> Streams]
  BY DeviceFacts DEF TypeOK, DeliveryTypeOK
<1>2. stream[u].position = 0
  BY DEF EnsureStream
<1>3. stream[u].entries = {}
  BY <1>1, <1>2, StreamFacts DEF StreamsInv, PositionsKnown, OncePerChange, TypeOK
<1>4. \A a \in stream[u].applied : a.position = 0
  BY <1>1, <1>2, StreamFacts DEF StreamsInv, PositionsKnown, TypeOK
<1>5. stream[u].retained = 0
  BY <1>1, <1>2, StreamFacts DEF StreamsInv, PositionsKnown, TypeOK
<1>6. stream' = [stream EXCEPT ![u] = [stream[u] EXCEPT !.position = 1, !.retained = 1]]
  <2>1. stream' = [stream EXCEPT ![u].position = 1, ![u].retained = 1]
    BY DEF EnsureStream
  <2> HIDE DEF u
  <2> QED
    BY <1>1, <2>1
<1> HIDE DEF u
<1>7. stream'[u] = [stream[u] EXCEPT !.position = 1, !.retained = 1]
  BY <1>1, <1>6
<1>8. /\ stream'[u].position = 1 /\ stream'[u].retained = 1
      /\ stream'[u].expired = stream[u].expired
      /\ stream'[u].entries = stream[u].entries
      /\ stream'[u].applied = stream[u].applied
      /\ stream'[u] \in Streams
  <2>1. stream'[u] = [position |-> 1, retained |-> 1, expired |-> stream[u].expired,
                      entries |-> stream[u].entries, applied |-> stream[u].applied]
    BY <1>1, <1>7 DEF Streams
  <2>2. stream[u] \in Streams
    BY <1>1
  <2> QED
    BY <2>1, <2>2 DEF Streams
<1>9. \A v \in Users : v # u => stream'[v] = stream[v]
  BY <1>1, <1>6
<1>10. stream' \in [Users -> Streams]
  BY <1>1, <1>6, <1>8, <1>9
<1> QED
  BY <1>1, <1>2, <1>3, <1>4, <1>5, <1>8, <1>9, <1>10 DEF u

(* The answer to a device that may go on leaves a cache where the page      *)
(* ends.                                                                    *)
LEMMA PageTyped ==
  ASSUME DeliveryTypeOK, OncePerChange, NEW u \in Users, NEW cache \in Caches,
         cache.position <= stream[u].position,
         NEW s, s = stream[u], NEW page, page = Page(s, cache.position), NEW last,
         last = UpTo(cache, u, page, s.position)[s.position]
  PROVE  /\ last \in Caches
         /\ ApplyPage(cache, u) = [last EXCEPT !.position = NextPosition(s, cache.position)]
         /\ ApplyPage(cache, u) \in Caches
         /\ ApplyPage(cache, u).position = NextPosition(s, cache.position)
         /\ ApplyPage(cache, u).conversations = last.conversations
         /\ ApplyPage(cache, u).messages = last.messages
         /\ ApplyPage(cache, u).deleted = last.deleted
         /\ ApplyPage(cache, u).read = last.read
<1>1. s \in Streams /\ Once(s) /\ s.position \in Nat /\ cache.position \in Nat
  BY StreamFacts, CacheFields DEF OncePerChange, Once
<1>2. page \in SUBSET Entries
  BY <1>1 DEF Page, After, Streams
<1>3. last \in Caches
  BY <1>1, <1>2, UpToTyped
<1>4. ApplyPage(cache, u) = [last EXCEPT !.position = NextPosition(s, cache.position)]
  BY ApplyPageIs
<1>5. NextPosition(s, cache.position) \in Nat
  BY <1>1, PageEnds
<1> QED
  BY <1>3, <1>4, <1>5 DEF Caches

(* So does a rebuild, at the end of the stream. *)
Rebuilt(c, u, cache) == {Shown(c, m) : m \in Newest(Visible(c, u)) \ cache.deleted[c]}

LEMMA RebuildTyped ==
  ASSUME DeliveryTypeOK, NEW u \in Users, NEW cache \in Caches, NEW new,
         new = Rebuild(cache, u), NEW mine,
         mine = {c \in Conversations : u \in conv[c].members}
  PROVE  /\ new \in Caches /\ new.position = stream[u].position
         /\ new.conversations = mine /\ new.deleted = cache.deleted
         /\ \A c \in Conversations :
               /\ new.messages[c] = IF c \in mine THEN Rebuilt(c, u, cache) ELSE {}
               /\ new.read[c] = IF c \in mine THEN conv[c].read[u] ELSE 0
<1> DEFINE shown(c) == IF c \in mine THEN Rebuilt(c, u, cache) ELSE {}
           messages == [c \in Conversations |-> shown(c)]
           read == [c \in Conversations |-> IF c \in mine THEN conv[c].read[u] ELSE 0]
<1>1. new = [position |-> stream[u].position, conversations |-> mine, messages |-> messages,
             deleted |-> cache.deleted, read |-> read]
  BY DEF Rebuild, Rebuilt
<1>2. \A c \in Conversations : shown(c) \in SUBSET Seen
  BY ShownTyped DEF Newest, Rebuilt
<1>3. messages \in [Conversations -> SUBSET Seen]
  BY <1>2
<1>4. read \in [Conversations -> Nat]
  BY ShownTyped
<1>5. \A c \in Conversations :
         /\ messages[c] = shown(c)
         /\ read[c] = IF c \in mine THEN conv[c].read[u] ELSE 0
  OBVIOUS
<1>6. mine \in SUBSET Conversations /\ stream[u].position \in Nat
  BY StreamFacts
<1> HIDE DEF messages, read
<1>7. new \in Caches
  BY <1>1, <1>3, <1>4, <1>6, CacheFields DEF Caches
<1> QED
  BY <1>1, <1>5, <1>7

LEMMA RebuildPosition ==
  ASSUME DeliveryTypeOK, NEW u \in Users, NEW cache \in Caches
  PROVE  Rebuild(cache, u) \in Caches /\ Rebuild(cache, u).position = stream[u].position
<1>1. PICK mine : mine = {c \in Conversations : u \in conv[c].members}
  OBVIOUS
<1>2. PICK new : new = Rebuild(cache, u)
  OBVIOUS
<1>3. new \in Caches /\ new.position = stream[u].position
  BY <1>1, <1>2, RebuildTyped
<1> QED
  BY <1>2, <1>3

-----------------------------------------------------------------------------
(* Devices stand at known positions                                         *)

(* FollowersMissNothing and FollowersAreKnown are about what a stream keeps *)
(* and about where a device may stand.                                      *)
FollowInv == TypeOK /\ StreamsInv /\ DevicesKnown

LEMMA InitFollows ==
  ASSUME Init PROVE FollowInv
<1>1. \A u \in Users :
         /\ stream[u].position = 0 /\ stream[u].retained = 0 /\ stream[u].expired = 0
         /\ stream[u].entries = {} /\ stream[u].applied = {}
  BY DEF Init, DeliveryInit
<1>2. TypeOK
  <2>1. DeliveryTypeOK
    BY InitTyped DEF Init
  <2>2. NewDevice \in Caches
    BY DEF NewDevice, Caches
  <2> QED
    BY <2>1, <2>2 DEF Init, TypeOK
<1>3. StreamsInv
  BY <1>1 DEF StreamsInv, OncePerChange, PositionsKnown, EntriesMirror, Retained
<1>4. \A d \in Devices : UserOf[d] \in Users /\ device[d].position = 0
  BY SyncAssumption DEF Init, NewDevice
<1>5. DevicesKnown
  BY <1>1, <1>4 DEF DevicesKnown
<1> QED
  BY <1>2, <1>3, <1>5 DEF FollowInv

(* Streams grow before a device that rests. *)
LEMMA DeliveryFollows ==
  ASSUME FollowInv, [DeliveryNext]_deliveryVars, UNCHANGED device PROVE FollowInv'
<1>1. TypeOK /\ DeliveryTypeOK /\ StreamsInv
  BY DEF FollowInv, TypeOK
<1>2. TypeOK'
  BY <1>1, StepTyped DEF TypeOK
<1>3. StreamsInv'
  BY <1>1, StepStreams
<1>4. ASSUME NEW d \in Devices, NEW s, s = stream[UserOf[d]], NEW t, t = stream'[UserOf[d]],
             NEW p, p = device[d].position
      PROVE  p <= t.position /\ \/ p = 0 \/ (p = 1 /\ t.retained >= 1)
                                \/ \E a \in t.applied : a.position = p
  <2>1. UserOf[d] \in Users /\ p \in Nat
    BY <1>1, <1>4, DeviceFacts
  <2>2. s.position \in Nat /\ s.retained \in Nat /\ t.position \in Nat /\ t.retained \in Nat
    BY <1>1, <1>2, <1>4, <2>1 DEF TypeOK, DeliveryTypeOK, Streams
  <2>3. s.position <= t.position /\ s.retained <= t.retained /\ s.applied \subseteq t.applied
    BY <1>1, <1>4, <2>1, StreamsGrow
  <2>4. p <= s.position /\ \/ p = 0 \/ (p = 1 /\ s.retained >= 1)
                           \/ \E a \in s.applied : a.position = p
    BY <1>4 DEF FollowInv, DevicesKnown
  <2> QED
    BY <2>1, <2>2, <2>3, <2>4
<1>5. DevicesKnown'
  BY <1>4 DEF DevicesKnown
<1> QED
  BY <1>2, <1>3, <1>5 DEF FollowInv

(* An opened stream is empty, its first position the boundary. *)
LEMMA EnsureFollows ==
  ASSUME FollowInv, NEW d \in Devices, EnsureStream(d) PROVE FollowInv'
<1> DEFINE u == UserOf[d]
<1>1. TypeOK /\ DeliveryTypeOK /\ StreamsInv
  BY DEF FollowInv, TypeOK
<1>2. /\ u \in Users /\ stream[u].position = 0 /\ stream[u].entries = {}
      /\ stream[u].retained = 0
      /\ \A a \in stream[u].applied : a.position = 0
      /\ stream'[u].position = 1 /\ stream'[u].retained = 1
      /\ stream'[u].expired = stream[u].expired
      /\ stream'[u].entries = stream[u].entries
      /\ stream'[u].applied = stream[u].applied
      /\ \A v \in Users : v # u => stream'[v] = stream[v]
      /\ stream' \in [Users -> Streams]
  BY <1>1, EnsureFields
<1>3. UNCHANGED <<conv, outbox, batch, partition, group, writer, faults, device>>
  BY DEF EnsureStream
<1> HIDE DEF u
<1>4. TypeOK'
  BY <1>1, <1>2, <1>3 DEF TypeOK, DeliveryTypeOK
<1>5. stream[u].expired \in Nat /\ stream[u].expired <= 0
  BY <1>1, <1>2, StreamFacts DEF StreamsInv, PositionsKnown
<1>6. OncePerChange'
  <2>1. ASSUME NEW v \in Users, NEW s, s = stream'[v]
        PROVE  /\ \A a, b \in s.applied : a.conv = b.conv /\ a.change = b.change => a = b
               /\ \A e, f \in s.entries : e.position = f.position => e = f
               /\ \A e \in s.entries :
                     /\ e.position <= s.position
                     /\ \E a \in s.applied : /\ a.conv = e.conv /\ a.change = e.change
                                             /\ a.position = e.position
    <3>1. CASE v # u
      BY <1>1, <1>2, <2>1, <3>1 DEF StreamsInv, OncePerChange
    <3>2. CASE v = u
      <4>1. s.entries = {} /\ s.applied = stream[u].applied
        BY <1>2, <2>1, <3>2
      <4>2. \A a, b \in s.applied : a.conv = b.conv /\ a.change = b.change => a = b
        BY <1>1, <1>2, <4>1 DEF StreamsInv, OncePerChange
      <4> QED
        BY <4>1, <4>2
    <3> QED
      BY <3>1, <3>2
  <2> QED
    BY <2>1 DEF OncePerChange
<1>7. ASSUME NEW v \in Users
      PROVE  PositionsOf(stream'[v]) /\ MirrorOf(stream'[v]) /\ RetainedOf(stream'[v])
  <2>1. PositionsOf(stream[v]) /\ MirrorOf(stream[v]) /\ RetainedOf(stream[v])
    BY <1>1, StreamOfAll
  <2>2. CASE v # u
    BY <1>2, <2>1, <2>2
  <2>3. CASE v = u
    <3>1. PositionsOf(stream'[u])
      BY <1>2, <1>5 DEF PositionsOf
    <3>2. MirrorOf(stream'[u])
      BY <1>2, <2>1, <2>3 DEF MirrorOf
    <3>3. RetainedOf(stream'[u])
      BY <1>2 DEF RetainedOf
    <3> QED
      BY <2>3, <3>1, <3>2, <3>3
  <2> QED
    BY <2>2, <2>3
<1>8. PositionsKnown'
  BY <1>7 DEF PositionsKnown, PositionsOf
<1>9. EntriesMirror'
  BY <1>3, <1>7 DEF EntriesMirror, MirrorOf
<1>10. Retained'
  BY <1>3, <1>7 DEF Retained, RetainedOf, Replaces
<1>11. ASSUME NEW e \in Devices, NEW s, s = stream[UserOf[e]], NEW t, t = stream'[UserOf[e]],
              NEW p, p = device[e].position
       PROVE  p <= t.position /\ \/ p = 0 \/ (p = 1 /\ t.retained >= 1)
                                 \/ \E a \in t.applied : a.position = p
  <2>1. UserOf[e] \in Users /\ p \in Nat
    BY <1>1, <1>11, DeviceFacts
  <2>2. p <= s.position /\ \/ p = 0 \/ (p = 1 /\ s.retained >= 1)
                           \/ \E a \in s.applied : a.position = p
    BY <1>11 DEF FollowInv, DevicesKnown
  <2>3. CASE UserOf[e] = u
    <3>1. p = 0
      BY <1>2, <1>11, <2>1, <2>2, <2>3
    <3> QED
      BY <1>2, <1>11, <2>3, <3>1
  <2>4. CASE UserOf[e] # u
    BY <1>2, <1>11, <2>1, <2>2, <2>4
  <2> QED
    BY <2>3, <2>4
<1>12. DevicesKnown'
  BY <1>3, <1>11 DEF DevicesKnown
<1> QED
  BY <1>4, <1>6, <1>8, <1>9, <1>10, <1>12 DEF FollowInv, StreamsInv

(* A device goes to the end of its stream, or to the last entry of a page. *)
LEMMA SyncMoves ==
  ASSUME FollowInv, NEW d \in Devices, Sync(d), NEW u, u = UserOf[d],
         NEW new, new = device'[d]
  PROVE  /\ new \in Caches /\ device' = [device EXCEPT ![d] = new]
         /\ new.position <= stream[u].position
         /\ \/ new.position = 0 \/ (new.position = 1 /\ stream[u].retained >= 1)
            \/ \E a \in stream[u].applied : a.position = new.position
<1>1. TypeOK /\ DeliveryTypeOK /\ StreamsInv /\ OncePerChange
  BY DEF FollowInv, TypeOK, StreamsInv
<1>2. PICK old : old = device[d]
  OBVIOUS
<1>3. u \in Users /\ old \in Caches /\ old.position \in Nat
  BY <1>1, <1>2, DeviceFacts
<1>4. /\ device' = [device EXCEPT ![d] = IF RebuildReason(stream[u], old.position) = ""
                                        THEN ApplyPage(old, u) ELSE Rebuild(old, u)]
      /\ stream[u].position > 0
  BY <1>2 DEF Sync
<1>5. device \in [Devices -> Caches]
  BY <1>1 DEF TypeOK
<1>6. /\ new = IF RebuildReason(stream[u], old.position) = ""
               THEN ApplyPage(old, u) ELSE Rebuild(old, u)
      /\ device' = [device EXCEPT ![d] = new]
  BY <1>4, <1>5
<1>7. /\ stream[u] \in Streams /\ stream[u].position \in Nat
      /\ \/ stream[u].position = 0 \/ (stream[u].position = 1 /\ stream[u].retained >= 1)
         \/ \E a \in stream[u].applied : a.position = stream[u].position
      /\ \A e \in stream[u].entries : \E a \in stream[u].applied : a.position = e.position
      /\ Once(stream[u])
  BY <1>1, <1>3, StreamFacts DEF StreamsInv, PositionsKnown, OncePerChange, Once
<1>8. ASSUME new = ApplyPage(old, u)
      PROVE  /\ new \in Caches /\ new.position <= stream[u].position
             /\ new.position = stream[u].position
                \/ \E e \in stream[u].entries : e.position = new.position
  <2>1. old.position <= stream[u].position
    BY <1>2 DEF FollowInv, DevicesKnown
  <2>2. new \in Caches /\ new.position = NextPosition(stream[u], old.position)
    BY <1>1, <1>3, <1>8, <2>1, PageTyped
  <2> QED
    BY <1>3, <1>7, <2>1, <2>2, PageEnds
<1>9. ASSUME new = Rebuild(old, u)
      PROVE  new \in Caches /\ new.position = stream[u].position
  BY <1>1, <1>3, <1>9, RebuildPosition
<1>10. /\ new \in Caches /\ new.position <= stream[u].position
       /\ new.position = stream[u].position
          \/ \E e \in stream[u].entries : e.position = new.position
  <2>1. new = ApplyPage(old, u) \/ new = Rebuild(old, u)
    BY <1>6, Zenon
  <2>2. stream[u].position \in Nat
    BY <1>7
  <2> QED
    BY <1>8, <1>9, <2>1, <2>2
<1>11. \/ new.position = 0 \/ (new.position = 1 /\ stream[u].retained >= 1)
       \/ \E a \in stream[u].applied : a.position = new.position
  <2>1. CASE new.position = stream[u].position
    BY <1>7, <2>1
  <2>2. CASE \E e \in stream[u].entries : e.position = new.position
    BY <1>7, <2>2
  <2> QED
    BY <1>10, <2>1, <2>2
<1> QED
  BY <1>6, <1>10, <1>11

LEMMA SyncFollows ==
  ASSUME FollowInv, NEW d \in Devices, Sync(d) PROVE FollowInv'
<1>1. PICK new : new = device'[d]
  OBVIOUS
<1>2. /\ new \in Caches /\ device' = [device EXCEPT ![d] = new]
      /\ new.position <= stream[UserOf[d]].position
      /\ \/ new.position = 0 \/ (new.position = 1 /\ stream[UserOf[d]].retained >= 1)
         \/ \E a \in stream[UserOf[d]].applied : a.position = new.position
  BY <1>1, SyncMoves
<1>3. UNCHANGED deliveryVars /\ UNCHANGED <<stream, outbox>>
  BY DEF Sync, deliveryVars
<1>4. device \in [Devices -> Caches]
  BY DEF FollowInv, TypeOK
<1>5. TypeOK'
  <2>1. DeliveryTypeOK'
    BY <1>3 DEF FollowInv, TypeOK, DeliveryTypeOK, deliveryVars
  <2> QED
    BY <1>2, <1>4, <2>1 DEF TypeOK
<1>6. StreamsInv'
  BY <1>3 DEF FollowInv, StreamsInv, OncePerChange, PositionsKnown, EntriesMirror, Retained
<1>7. DevicesKnown'
  BY <1>2, <1>3, <1>4 DEF FollowInv, DevicesKnown
<1> QED
  BY <1>5, <1>6, <1>7 DEF FollowInv

LEMMA StepFollows ==
  ASSUME FollowInv, [Next]_vars PROVE FollowInv'
<1>1. CASE [DeliveryNext]_deliveryVars /\ UNCHANGED device
  BY <1>1, DeliveryFollows
<1>2. ASSUME NEW d \in Devices, EnsureStream(d) \/ Sync(d) PROVE FollowInv'
  BY <1>2, EnsureFollows, SyncFollows
<1> QED
  BY <1>1, <1>2 DEF Next, vars

(* Caches, streams and rows stay in their domains (UserSyncCache).          *)
THEOREM SyncTyped == Spec => []TypeOK
<1>1. Init => FollowInv
  BY InitFollows
<1>2. FollowInv /\ [Next]_vars => FollowInv'
  BY StepFollows
<1>3. FollowInv => TypeOK
  BY DEF FollowInv
<1> QED
  BY <1>1, <1>2, <1>3, PTL DEF Spec

(* Whoever follows stands at the boundary, at the end, or where a change    *)
(* was taken.                                                               *)
LEMMA KnownMeansAnswered ==
  ASSUME FollowInv PROVE FollowersAreKnown
<1> SUFFICES ASSUME NEW d \in Devices, device[d].position > 0
             PROVE  RebuildReason(stream[UserOf[d]], device[d].position)
                       \in {"", "expired_position"}
  BY DEF FollowersAreKnown
<1>1. PICK s, p : s = stream[UserOf[d]] /\ p = device[d].position
  OBVIOUS
<1>2. UserOf[d] \in Users /\ p \in Nat
  BY <1>1, DeviceFacts DEF FollowInv
<1>3. s.position \in Nat /\ s.retained \in Nat /\ s.expired \in Nat
  BY <1>1, <1>2, StreamFacts DEF FollowInv, TypeOK
<1>4. p <= s.position /\ \/ p = 0 \/ (p = 1 /\ s.retained >= 1)
                         \/ \E a \in s.applied : a.position = p
  BY <1>1 DEF FollowInv, DevicesKnown
<1>5. p = 0 \/ p < Boundary(s) \/ p = Boundary(s) \/ p \in Allocated(s)
  <2>1. CASE p = 1 /\ s.retained >= 1
    BY <1>3, <2>1 DEF Boundary, Larger
  <2>2. CASE \E a \in s.applied : a.position = p
    BY <2>2 DEF Allocated
  <2> QED
    BY <1>4, <2>1, <2>2
<1>6. Boundary(s) \in Nat
  BY <1>3 DEF Boundary, Larger
<1> QED
  BY <1>1, <1>2, <1>3, <1>4, <1>5, <1>6 DEF RebuildReason

(* A coalesced read, a pruned prefix or an opened stream never makes a      *)
(* follower's position unknown to the server (ReadPage,                     *)
(* inbox_applied_changes).                                                  *)
THEOREM FollowersKnown == Spec => []FollowersAreKnown
<1>1. Init => FollowInv
  BY InitFollows
<1>2. FollowInv /\ [Next]_vars => FollowInv'
  BY StepFollows
<1>3. FollowInv => FollowersAreKnown
  BY KnownMeansAnswered
<1> QED
  BY <1>1, <1>2, <1>3, PTL DEF Spec

(* A device that may go on following its stream. *)
GoesOn(s, p) == RebuildReason(s, p) = ""

(* It stands between the boundary and the end. *)
LEMMA BoundaryBounds ==
  ASSUME NEW s \in Streams, NEW p \in Nat, GoesOn(s, p)
  PROVE  s.retained <= p /\ s.expired <= p /\ p <= s.position
<1>1. s.position \in Nat /\ s.retained \in Nat /\ s.expired \in Nat
  BY DEF Streams
<1>2. ~(p < Boundary(s)) /\ ~(p > s.position)
  BY Zenon DEF GoesOn, RebuildReason
<1>3. Boundary(s) = IF s.retained > s.expired THEN s.retained ELSE s.expired
  BY DEF Boundary, Larger
<1> QED
  BY <1>1, <1>2, <1>3

(* A change behind a follower that may go on is behind the boundary.        *)
LEMMA RetainedMeansThere ==
  ASSUME FollowInv PROVE FollowersMissNothing
<1>1. ASSUME NEW d \in Devices, NEW s \in Streams, s = stream[UserOf[d]],
             NEW p \in Nat, p = device[d].position, GoesOn(s, p),
             NEW a \in s.applied, a.position > p
      PROVE  \E e \in s.entries :
                /\ e.conv = a.conv /\ e.position >= a.position
                /\ \/ e.change = a.change
                   \/ e.kind = "read" /\ outbox[a.conv][a.change].kind = "read"
  <2>1. UserOf[d] \in Users
    BY DeviceFacts DEF FollowInv
  <2>2. s.retained \in Nat /\ a.position \in Nat
    BY DEF Streams, Applied
  <2>3. a.position > s.retained
    BY <1>1, <2>2, BoundaryBounds
  <2> QED
    BY <1>1, <2>1, <2>3 DEF FollowInv, StreamsInv, Retained
<1>2. \A d \in Devices : device[d].position \in Nat /\ stream[UserOf[d]] \in Streams
  BY DeviceFacts, StreamFacts DEF FollowInv, TypeOK
<1> QED
  BY <1>1, <1>2, Zenon DEF FollowersMissNothing, GoesOn

(* However rows are coalesced and pruned, a device that may go on finds     *)
(* every change it has not seen, or the newer read (Prune, ReadPage).       *)
THEOREM FollowersMissNone == Spec => []FollowersMissNothing
<1>1. Init => FollowInv
  BY InitFollows
<1>2. FollowInv /\ [Next]_vars => FollowInv'
  BY StepFollows
<1>3. FollowInv => FollowersMissNothing
  BY RetainedMeansThere
<1> QED
  BY <1>1, <1>2, <1>3, PTL DEF Spec

-----------------------------------------------------------------------------
(* What a mutation does to its conversation and publishes of it             *)

New(c) == DOMAIN outbox'[c] \ DOMAIN outbox[c]

Appended(c) ==
    /\ RowsKept
    /\ \A i \in DOMAIN outbox[c], j \in New(c) : i < j
    /\ \A b \in Conversations : b # c => outbox'[b] = outbox[b] /\ conv'[b] = conv[b]
    /\ UNCHANGED stream

(* No message goes, none comes back, and a recall stands. *)
MessagesStay(c) ==
    \A m \in DOMAIN conv[c].messages :
        /\ m \in DOMAIN conv'[c].messages
        /\ conv[c].messages[m].recalled => conv'[c].messages[m].recalled
        /\ conv[c].messages[m].deleted => conv'[c].messages[m].deleted
        /\ conv[c].messages[m].hidden \subseteq conv'[c].messages[m].hidden

SameFor(u, old, msg) ==
    /\ msg.edits = old.edits /\ msg.recalled = old.recalled /\ msg.deleted = old.deleted
    /\ u \in msg.hidden <=> u \in old.hidden

(* Whoever stays hears of each change of a message; everybody of a new one. *)
MessagesTold(c) ==
    /\ \A u \in conv[c].members \cap conv'[c].members : \A m \in DOMAIN conv[c].messages :
          \/ SameFor(u, conv[c].messages[m], conv'[c].messages[m])
          \/ \E j \in New(c) : /\ u \in outbox'[c][j].to
                               /\ outbox'[c][j].kind \in MessageKinds
                               /\ outbox'[c][j].message = m
    /\ \A m \in DOMAIN conv'[c].messages \ DOMAIN conv[c].messages :
          \E j \in New(c) : /\ conv'[c].members \subseteq outbox'[c][j].to
                            /\ outbox'[c][j].kind = "new" /\ outbox'[c][j].message = m

(* Whoever stays hears of a new read, who joins of the conversation, who    *)
(* leaves of the removal and nothing else.                                  *)
MembershipTold(c) ==
    /\ \A u \in conv[c].members \cap conv'[c].members :
          /\ conv'[c].joined[u] = conv[c].joined[u]
          /\ \/ conv'[c].read[u] = conv[c].read[u]
             \/ \E j \in New(c) : u \in outbox'[c][j].to
    /\ \A u \in conv'[c].members \ conv[c].members :
          /\ conv'[c].joined[u] = Len(conv[c].messages)
          /\ \E j \in New(c) : u \in outbox'[c][j].to /\ outbox'[c][j].kind = "upsert"
    /\ \A u \in conv[c].members \ conv'[c].members :
          /\ \E j \in New(c) : u \in outbox'[c][j].to /\ outbox'[c][j].kind = "removed"
          /\ \A j \in New(c) : u \in outbox'[c][j].to => outbox'[c][j].kind = "removed"

(* What a row says is so, and it is for those whom it concerns. *)
RowMeant(c, j) ==
    LET e == outbox'[c][j]
        row == conv'[c]
    IN /\ e.kind = "removed" => e.to \cap row.members = {}
       /\ e.kind # "removed" => e.to \subseteq row.members
       /\ e.kind = "upsert" => row.members \subseteq e.to
       /\ e.kind \in MessageKinds =>
             /\ e.message \in DOMAIN row.messages
             /\ e.kind = "deleted" => \A u \in e.to :
                   row.messages[e.message].deleted \/ u \in row.messages[e.message].hidden
       /\ e.kind = "read" =>
             /\ New(c) = {j}
             /\ \A u \in e.to : e.upTo = row.read[u] /\ conv[c].read[u] < row.read[u]

ReadsGrow(c) ==
    conv[c].open
    /\ (conv'[c].open => \A u \in Users : conv[c].read[u] <= conv'[c].read[u])

Mutated(c) ==
    /\ Appended(c) /\ MessagesStay(c) /\ MessagesTold(c) /\ MembershipTold(c)
    /\ \A j \in New(c) : RowMeant(c, j)
    /\ ReadsGrow(c)

(* Rows are appended, and nothing else changes than the conversation. *)
LEMMA PublishAppended ==
  ASSUME DeliveryTypeOK, NEW c \in Conversations, NEW row, NEW changes \in Seq(Changes),
         Publish(c, changes), Mutate(c, row)
  PROVE  /\ Appended(c) /\ conv'[c] = row
         /\ \A i \in New(c) : \E n \in DOMAIN changes : outbox'[c][i] = changes[n]
         /\ \A n \in DOMAIN changes : \E i \in New(c) : outbox'[c][i] = changes[n]
         /\ Len(changes) = 1 => New(c) = {Len(outbox[c]) + 1}
<1>1. /\ RowsKept
      /\ \A b \in Conversations : b # c => outbox'[b] = outbox[b]
      /\ \A i \in New(c) : \E n \in DOMAIN changes : outbox'[c][i] = changes[n]
      /\ \A n \in DOMAIN changes : \E i \in New(c) : outbox'[c][i] = changes[n]
  BY PublishRows DEF New
<1>2. /\ conv'[c] = row /\ \A b \in Conversations : b # c => conv'[b] = conv[b]
      /\ UNCHANGED stream
  BY DEF Mutate, DeliveryTypeOK
<1>3. outbox[c] \in Seq(Changes) /\ outbox'[c] = outbox[c] \o changes
  BY DEF DeliveryTypeOK, Publish
<1>4. \A i \in DOMAIN outbox[c], j \in New(c) : i < j
  <2> SUFFICES ASSUME NEW i \in DOMAIN outbox[c], NEW j \in New(c) PROVE i < j
    OBVIOUS
  <2>1. /\ Len(outbox[c]) \in Nat /\ DOMAIN outbox[c] = 1 .. Len(outbox[c])
        /\ Len(changes) \in Nat
        /\ DOMAIN outbox'[c] = 1 .. Len(outbox[c]) + Len(changes)
    BY <1>3
  <2>2. /\ j \in 1 .. Len(outbox[c]) + Len(changes)
        /\ j \notin 1 .. Len(outbox[c]) /\ i \in 1 .. Len(outbox[c])
    BY <2>1 DEF New
  <2> QED
    BY <2>1, <2>2
<1>5. ASSUME Len(changes) = 1 PROVE New(c) = {Len(outbox[c]) + 1}
  <2>1. /\ Len(outbox[c]) \in Nat /\ DOMAIN outbox[c] = 1 .. Len(outbox[c])
        /\ DOMAIN outbox'[c] = 1 .. Len(outbox[c]) + Len(changes)
    BY <1>3
  <2>2. DOMAIN outbox'[c] = 1 .. Len(outbox[c]) + 1
    BY <1>5, <2>1
  <2> QED
    BY <2>1, <2>2 DEF New
<1> QED
  BY <1>1, <1>2, <1>4, <1>5 DEF Appended

(* Most mutations publish one row. *)
LEMMA SingleRow ==
  ASSUME DeliveryTypeOK, NEW c \in Conversations, NEW row, NEW e \in Changes,
         Publish(c, <<e>>), Mutate(c, row)
  PROVE  /\ Appended(c) /\ conv'[c] = row
         /\ \E n \in New(c) : New(c) = {n} /\ outbox'[c][n] = e
<1> DEFINE changes == <<e>>
<1>1. changes \in Seq(Changes) /\ DOMAIN changes = {1} /\ changes[1] = e /\ Len(changes) = 1
  OBVIOUS
<1>2. Publish(c, changes)
  OBVIOUS
<1> HIDE DEF changes
<1>3. /\ Appended(c) /\ conv'[c] = row
      /\ \E n \in New(c) : outbox'[c][n] = e
      /\ New(c) = {Len(outbox[c]) + 1}
  BY <1>1, <1>2, PublishAppended
<1> QED
  BY <1>3

(* A row and its fields. *)
LEMMA ChangeFields ==
  ASSUME NEW kind \in Kinds, NEW message \in Nat, NEW upTo \in Nat, NEW to \in SUBSET Users,
         NEW e, e = Change(kind, message, upTo, to)
  PROVE  /\ e \in Changes /\ e.kind = kind /\ e.message = message /\ e.upTo = upTo
         /\ e.to = to
  BY DEF Change, Changes

LEMMA ConvFields ==
  ASSUME DeliveryTypeOK, NEW c \in Conversations
  PROVE  /\ conv[c] \in ConversationRows /\ conv[c].members \in SUBSET Users
         /\ conv[c].messages \in Seq(Messages) /\ Len(conv[c].messages) \in Nat
         /\ DOMAIN conv[c].messages = 1 .. Len(conv[c].messages)
         /\ conv[c].joined \in [Users -> Nat] /\ conv[c].read \in [Users -> Nat]
         /\ \A m \in DOMAIN conv[c].messages : m \in Nat /\ conv[c].messages[m] \in Messages
<1>1. conv[c] \in ConversationRows
  BY DEF DeliveryTypeOK
<1> QED
  BY <1>1 DEF ConversationRows

(* A mutation that leaves the messages alone. *)
LEMMA MessagesRest ==
  ASSUME DeliveryTypeOK, NEW c \in Conversations, conv'[c].messages = conv[c].messages
  PROVE  MessagesStay(c) /\ MessagesTold(c)
  BY DEF MessagesStay, MessagesTold, SameFor

(* A mutation that leaves the members and their reads alone. *)
LEMMA MembershipRests ==
  ASSUME DeliveryTypeOK, NEW c \in Conversations, conv[c].open,
         conv'[c].members = conv[c].members, conv'[c].joined = conv[c].joined,
         conv'[c].read = conv[c].read
  PROVE  MembershipTold(c) /\ ReadsGrow(c)
<1>1. \A u \in Users : conv[c].read[u] \in Nat
  BY ConvFields
<1> QED
  BY <1>1 DEF MembershipTold, ReadsGrow

(* What one row for some of the members has to say. *)
LEMMA MessageRowMeant ==
  ASSUME DeliveryTypeOK, NEW c \in Conversations, NEW j \in New(c),
         outbox'[c][j].kind \in MessageKinds,
         outbox'[c][j].message \in DOMAIN conv'[c].messages,
         outbox'[c][j].to \subseteq conv'[c].members,
         outbox'[c][j].kind = "deleted" => \A u \in outbox'[c][j].to :
            \/ conv'[c].messages[outbox'[c][j].message].deleted
            \/ u \in conv'[c].messages[outbox'[c][j].message].hidden
  PROVE  RowMeant(c, j)
<1>1. {"removed", "upsert", "read"} \cap MessageKinds = {}
  BY DEF MessageKinds
<1> QED
  BY <1>1 DEF RowMeant

(* SendMessage *)
LEMMA SendMessageMutates ==
  ASSUME DeliveryTypeOK, NEW c \in Conversations, SendMessage(c) PROVE Mutated(c)
<1> DEFINE msg == [edits |-> 0, recalled |-> FALSE, deleted |-> FALSE, hidden |-> {}]
           row == [conv[c] EXCEPT !.messages = Append(@, msg)]
           e == Change("new", Len(conv[c].messages) + 1, 0, conv[c].members)
<1>0. /\ conv[c] \in ConversationRows /\ conv[c].members \in SUBSET Users
      /\ conv[c].messages \in Seq(Messages) /\ Len(conv[c].messages) \in Nat
      /\ DOMAIN conv[c].messages = 1 .. Len(conv[c].messages)
  BY ConvFields
<1>1. /\ row.members = conv[c].members /\ row.joined = conv[c].joined
      /\ row.read = conv[c].read /\ row.messages = Append(conv[c].messages, msg)
  BY <1>0 DEF ConversationRows
<1>2. Publish(c, <<e>>) /\ Mutate(c, row) /\ conv[c].open
  BY DEF SendMessage, May
<1>3. /\ "new" \in Kinds /\ 0 \in Nat /\ Len(conv[c].messages) + 1 \in Nat
      /\ "new" \in MessageKinds
  BY <1>0 DEF Kinds, MessageKinds
<1>4. /\ e \in Changes /\ e.kind = "new" /\ e.message = Len(conv[c].messages) + 1
      /\ e.to = conv[c].members
  BY <1>0, <1>3, ChangeFields
<1> HIDE DEF e, row
<1>5. Appended(c) /\ conv'[c] = row
  BY <1>2, <1>4, SingleRow
<1>6. PICK n \in New(c) : New(c) = {n} /\ outbox'[c][n] = e
  BY <1>2, <1>4, SingleRow
<1>7. /\ DOMAIN row.messages = DOMAIN conv[c].messages \cup {Len(conv[c].messages) + 1}
      /\ \A m \in DOMAIN conv[c].messages : row.messages[m] = conv[c].messages[m]
  <2> HIDE DEF msg
  <2>1. row.messages = Append(conv[c].messages, msg)
    BY <1>1
  <2>2. DOMAIN row.messages = 1 .. Len(conv[c].messages) + 1
    BY <1>0, <2>1
  <2>3. \A m \in 1 .. Len(conv[c].messages) : row.messages[m] = conv[c].messages[m]
    BY <1>0, <2>1
  <2> QED
    BY <1>0, <2>2, <2>3
<1>8. MessagesStay(c)
  BY <1>5, <1>7 DEF MessagesStay
<1>9. MessagesTold(c)
  BY <1>1, <1>4, <1>5, <1>6, <1>7 DEF MessagesTold, SameFor
<1>10. MembershipTold(c) /\ ReadsGrow(c)
  BY <1>1, <1>2, <1>5, MembershipRests
<1>11. RowMeant(c, n)
  BY <1>1, <1>3, <1>4, <1>5, <1>6, <1>7, MessageRowMeant
<1> QED
  BY <1>5, <1>6, <1>8, <1>9, <1>10, <1>11 DEF Mutated

(* A message changed in place, of which those are told for whom it changes. *)
LEMMA MessageMutates ==
  ASSUME DeliveryTypeOK, NEW c \in Conversations, NEW m \in DOMAIN conv[c].messages,
         NEW msg \in Messages, NEW old, old = conv[c].messages[m],
         NEW row, row = [conv[c] EXCEPT !.messages = [@ EXCEPT ![m] = msg]],
         NEW e \in Changes, Publish(c, <<e>>), Mutate(c, row), conv[c].open,
         e.kind \in {"edited", "recalled", "deleted"}, e.message = m,
         e.to \subseteq conv[c].members,
         old.recalled => msg.recalled, old.deleted => msg.deleted,
         old.hidden \subseteq msg.hidden,
         e.kind = "deleted" => \A u \in e.to : msg.deleted \/ u \in msg.hidden,
         \A u \in conv[c].members \ e.to : SameFor(u, old, msg)
  PROVE  Mutated(c)
<1>0. /\ conv[c] \in ConversationRows /\ conv[c].messages \in Seq(Messages)
  BY ConvFields
<1>1. /\ row.members = conv[c].members /\ row.joined = conv[c].joined
      /\ row.read = conv[c].read /\ row.messages = [conv[c].messages EXCEPT ![m] = msg]
  BY <1>0 DEF ConversationRows
<1>2. Appended(c) /\ conv'[c] = row
  BY SingleRow
<1>3. PICK n \in New(c) : New(c) = {n} /\ outbox'[c][n] = e
  BY SingleRow
<1>4. /\ DOMAIN row.messages = DOMAIN conv[c].messages /\ row.messages[m] = msg
      /\ \A k \in DOMAIN conv[c].messages : k # m => row.messages[k] = conv[c].messages[k]
  BY <1>0, <1>1
<1>5. {"edited", "recalled", "deleted"} \subseteq MessageKinds
  BY DEF MessageKinds
<1>6. MessagesStay(c)
  BY <1>2, <1>4 DEF MessagesStay
<1>7. MessagesTold(c)
  <2>1. ASSUME NEW u \in conv[c].members, NEW k \in DOMAIN conv[c].messages
        PROVE  \/ SameFor(u, conv[c].messages[k], row.messages[k])
               \/ /\ u \in outbox'[c][n].to /\ outbox'[c][n].kind \in MessageKinds
                  /\ outbox'[c][n].message = k
    <3>1. CASE k # m
      <4>1. row.messages[k] = conv[c].messages[k]
        BY <1>4, <3>1
      <4> QED
        BY <4>1 DEF SameFor
    <3>2. CASE k = m
      BY <1>3, <1>4, <1>5, <3>2
    <3> QED
      BY <3>1, <3>2
  <2>2. conv'[c].members = conv[c].members /\ conv'[c].messages = row.messages
    BY <1>1, <1>2
  <2> QED
    BY <1>4, <2>1, <2>2 DEF MessagesTold
<1>8. MembershipTold(c) /\ ReadsGrow(c)
  BY <1>1, <1>2, MembershipRests
<1>9. RowMeant(c, n)
  <2>1. outbox'[c][n].kind \in MessageKinds /\ conv'[c].messages = row.messages
    BY <1>2, <1>3, <1>5
  <2> QED
    BY <1>1, <1>2, <1>3, <1>4, <2>1, MessageRowMeant
<1> QED
  BY <1>2, <1>3, <1>6, <1>7, <1>8, <1>9 DEF Mutated

(* EditMessage, RecallMessage, DeleteForAll and DeleteForMe *)
LEMMA ChangedMessageMutates ==
  ASSUME DeliveryTypeOK, NEW c \in Conversations, NEW m \in DOMAIN conv[c].messages,
         \/ EditMessage(c, m) \/ RecallMessage(c, m) \/ DeleteForAll(c, m)
         \/ \E u \in Users : DeleteForMe(c, m, u)
  PROVE  Mutated(c)
<1> DEFINE row(msg) == [conv[c] EXCEPT !.messages = [@ EXCEPT ![m] = msg]]
           e(kind, to) == Change(kind, m, 0, to)
<1>0. PICK old : old = conv[c].messages[m]
  OBVIOUS
<1>1. /\ old \in Messages /\ m \in Nat /\ conv[c].members \in SUBSET Users
      /\ old = [edits |-> old.edits, recalled |-> old.recalled, deleted |-> old.deleted,
                hidden |-> old.hidden]
      /\ old.edits \in Nat /\ old.hidden \in SUBSET Users
  BY <1>0, ConvFields DEF Messages
<1>2. conv[c].open
  BY DEF EditMessage, RecallMessage, DeleteForAll, DeleteForMe, May
<1>3. /\ {"edited", "recalled", "deleted"} \subseteq Kinds
  BY DEF Kinds, MessageKinds
<1>4. \A kind \in {"edited", "recalled", "deleted"} : \A to \in SUBSET Users :
         /\ e(kind, to) \in Changes /\ e(kind, to).kind = kind /\ e(kind, to).message = m
         /\ e(kind, to).to = to
  BY <1>1, <1>3, ChangeFields
<1>5. CASE EditMessage(c, m)
  <2>1. PICK msg : msg = [old EXCEPT !.edits = @ + 1]
    OBVIOUS
  <2>2. Publish(c, <<e("edited", conv[c].members)>>) /\ Mutate(c, row(msg))
    BY <1>0, <1>5, <2>1 DEF EditMessage
  <2>3. /\ msg \in Messages /\ msg.recalled = old.recalled /\ msg.deleted = old.deleted
        /\ msg.hidden = old.hidden
    BY <1>1, <2>1 DEF Messages
  <2> HIDE DEF row, e
  <2>4. PICK r, f : r = row(msg) /\ f = e("edited", conv[c].members)
    OBVIOUS
  <2>5. r = [conv[c] EXCEPT !.messages = [@ EXCEPT ![m] = msg]]
    BY <2>4 DEF row
  <2>6. f \in Changes /\ f.kind = "edited" /\ f.message = m /\ f.to = conv[c].members
    BY <1>1, <1>4, <2>4
  <2>7. Publish(c, <<f>>) /\ Mutate(c, r)
    BY <2>2, <2>4
  <2> QED
    BY <1>0, <1>2, <2>3, <2>5, <2>6, <2>7, MessageMutates
<1>6. CASE RecallMessage(c, m)
  <2>1. PICK msg : msg = [old EXCEPT !.recalled = TRUE]
    OBVIOUS
  <2>2. Publish(c, <<e("recalled", conv[c].members)>>) /\ Mutate(c, row(msg))
    BY <1>0, <1>6, <2>1 DEF RecallMessage
  <2>3. /\ msg \in Messages /\ msg.recalled = TRUE /\ msg.deleted = old.deleted
        /\ msg.hidden = old.hidden
    BY <1>1, <2>1 DEF Messages
  <2> HIDE DEF row, e
  <2>4. PICK r, f : r = row(msg) /\ f = e("recalled", conv[c].members)
    OBVIOUS
  <2>5. r = [conv[c] EXCEPT !.messages = [@ EXCEPT ![m] = msg]]
    BY <2>4 DEF row
  <2>6. f \in Changes /\ f.kind = "recalled" /\ f.message = m /\ f.to = conv[c].members
    BY <1>1, <1>4, <2>4
  <2>7. Publish(c, <<f>>) /\ Mutate(c, r)
    BY <2>2, <2>4
  <2> QED
    BY <1>0, <1>2, <2>3, <2>5, <2>6, <2>7, MessageMutates
<1>7. CASE DeleteForAll(c, m)
  <2>1. PICK msg : msg = [old EXCEPT !.deleted = TRUE]
    OBVIOUS
  <2>2. Publish(c, <<e("deleted", conv[c].members)>>) /\ Mutate(c, row(msg))
    BY <1>0, <1>7, <2>1 DEF DeleteForAll
  <2>3. /\ msg \in Messages /\ msg.recalled = old.recalled /\ msg.deleted = TRUE
        /\ msg.hidden = old.hidden
    BY <1>1, <2>1 DEF Messages
  <2> HIDE DEF row, e
  <2>4. PICK r, f : r = row(msg) /\ f = e("deleted", conv[c].members)
    OBVIOUS
  <2>5. r = [conv[c] EXCEPT !.messages = [@ EXCEPT ![m] = msg]]
    BY <2>4 DEF row
  <2>6. f \in Changes /\ f.kind = "deleted" /\ f.message = m /\ f.to = conv[c].members
    BY <1>1, <1>4, <2>4
  <2>7. Publish(c, <<f>>) /\ Mutate(c, r)
    BY <2>2, <2>4
  <2> QED
    BY <1>0, <1>2, <2>3, <2>5, <2>6, <2>7, MessageMutates
<1>8. ASSUME NEW u \in Users, DeleteForMe(c, m, u) PROVE Mutated(c)
  <2>1. PICK msg : msg = [old EXCEPT !.hidden = @ \cup {u}]
    OBVIOUS
  <2>2. Publish(c, <<e("deleted", {u})>>) /\ Mutate(c, row(msg)) /\ u \in conv[c].members
    BY <1>0, <1>8, <2>1 DEF DeleteForMe
  <2>3. /\ msg \in Messages /\ msg.recalled = old.recalled /\ msg.deleted = old.deleted
        /\ msg.edits = old.edits /\ msg.hidden = old.hidden \cup {u}
    BY <1>1, <2>1 DEF Messages
  <2> HIDE DEF row, e
  <2>4. PICK r, f : r = row(msg) /\ f = e("deleted", {u})
    OBVIOUS
  <2>5. r = [conv[c] EXCEPT !.messages = [@ EXCEPT ![m] = msg]]
    BY <2>4 DEF row
  <2>6. f \in Changes /\ f.kind = "deleted" /\ f.message = m /\ f.to = {u}
    BY <1>1, <1>4, <2>4
  <2>7. Publish(c, <<f>>) /\ Mutate(c, r)
    BY <2>2, <2>4
  <2>8. \A v \in conv[c].members \ f.to : SameFor(v, old, msg)
    BY <2>3, <2>6 DEF SameFor
  <2> QED
    BY <1>0, <1>2, <2>2, <2>3, <2>5, <2>6, <2>7, <2>8, MessageMutates
<1> QED
  BY <1>5, <1>6, <1>7, <1>8

(* MarkAsRead *)
LEMMA MarkAsReadMutates ==
  ASSUME DeliveryTypeOK, NEW c \in Conversations, NEW u \in Users, NEW seq \in Nat,
         MarkAsRead(c, u, seq)
  PROVE  Mutated(c)
<1> DEFINE row == [conv[c] EXCEPT !.read = [@ EXCEPT ![u] = seq]]
           e == Change("read", 0, seq, {u})
<1>0. conv[c] \in ConversationRows /\ conv[c].read \in [Users -> Nat]
  BY ConvFields
<1>1. /\ row.members = conv[c].members /\ row.joined = conv[c].joined
      /\ row.messages = conv[c].messages
      /\ row.read = [conv[c].read EXCEPT ![u] = seq]
  BY <1>0 DEF ConversationRows
<1>2. /\ Publish(c, <<e>>) /\ Mutate(c, row) /\ conv[c].open
      /\ u \in conv[c].members /\ conv[c].read[u] < seq
  BY DEF MarkAsRead, May
<1>3. "read" \in Kinds /\ 0 \in Nat /\ "read" \notin MessageKinds
  BY DEF Kinds, MessageKinds
<1>4. e \in Changes /\ e.kind = "read" /\ e.upTo = seq /\ e.to = {u}
  BY <1>3, ChangeFields
<1> HIDE DEF e, row
<1>5. Appended(c) /\ conv'[c] = row
  BY <1>2, <1>4, SingleRow
<1>6. PICK n \in New(c) : New(c) = {n} /\ outbox'[c][n] = e
  BY <1>2, <1>4, SingleRow
<1>7. row.read[u] = seq /\ \A v \in Users : v # u => row.read[v] = conv[c].read[v]
  BY <1>0, <1>1
<1>8. MessagesStay(c) /\ MessagesTold(c)
  BY <1>1, <1>5, MessagesRest
<1>9. MembershipTold(c)
  <2>1. conv[c].members \subseteq Users
    BY ConvFields
  <2> QED
    BY <1>1, <1>4, <1>5, <1>6, <1>7, <2>1 DEF MembershipTold
<1>10. ReadsGrow(c)
  BY <1>0, <1>2, <1>5, <1>7 DEF ReadsGrow
<1>11. RowMeant(c, n)
  BY <1>1, <1>2, <1>3, <1>4, <1>5, <1>6, <1>7 DEF RowMeant
<1> QED
  BY <1>5, <1>6, <1>8, <1>9, <1>10, <1>11 DEF Mutated

(* AddMember *)
LEMMA AddMemberMutates ==
  ASSUME DeliveryTypeOK, NEW c \in Conversations, NEW u \in Users, AddMember(c, u)
  PROVE  Mutated(c)
<1> DEFINE row == [conv[c] EXCEPT !.members = @ \cup {u},
                                  !.joined = [@ EXCEPT ![u] = Len(conv[c].messages)]]
           e == Change("upsert", 0, 0, conv[c].members \cup {u})
<1>0. /\ conv[c] \in ConversationRows /\ conv[c].joined \in [Users -> Nat]
      /\ conv[c].members \in SUBSET Users
  BY ConvFields
<1>1. /\ row.members = conv[c].members \cup {u} /\ row.read = conv[c].read
      /\ row.messages = conv[c].messages
      /\ row.joined = [conv[c].joined EXCEPT ![u] = Len(conv[c].messages)]
  BY <1>0 DEF ConversationRows
<1>2. /\ Publish(c, <<e>>) /\ Mutate(c, row) /\ conv[c].open /\ u \notin conv[c].members
  BY DEF AddMember, May
<1>3. "upsert" \in Kinds /\ 0 \in Nat /\ "upsert" \notin MessageKinds
  BY DEF Kinds, MessageKinds
<1>4. e \in Changes /\ e.kind = "upsert" /\ e.to = conv[c].members \cup {u}
  BY <1>0, <1>3, ChangeFields
<1> HIDE DEF e, row
<1>5. Appended(c) /\ conv'[c] = row
  BY <1>2, <1>4, SingleRow
<1>6. PICK n \in New(c) : New(c) = {n} /\ outbox'[c][n] = e
  BY <1>2, <1>4, SingleRow
<1>7. /\ row.joined[u] = Len(conv[c].messages)
      /\ \A v \in Users : v # u => row.joined[v] = conv[c].joined[v]
  BY <1>0, <1>1
<1>8. MessagesStay(c) /\ MessagesTold(c)
  BY <1>1, <1>5, MessagesRest
<1>9. MembershipTold(c)
  BY <1>0, <1>1, <1>2, <1>4, <1>5, <1>6, <1>7 DEF MembershipTold
<1>10. ReadsGrow(c)
  <2>1. \A v \in Users : conv[c].read[v] \in Nat
    BY ConvFields
  <2> QED
    BY <1>1, <1>2, <1>5, <2>1 DEF ReadsGrow
<1>11. RowMeant(c, n)
  BY <1>1, <1>3, <1>4, <1>5, <1>6 DEF RowMeant
<1> QED
  BY <1>5, <1>6, <1>8, <1>9, <1>10, <1>11 DEF Mutated

(* RemoveMember *)
LEMMA RemoveMemberMutates ==
  ASSUME DeliveryTypeOK, NEW c \in Conversations, NEW u \in Users, RemoveMember(c, u)
  PROVE  Mutated(c)
<1> DEFINE row == [conv[c] EXCEPT !.members = @ \ {u}]
           stay == Change("upsert", 0, 0, conv[c].members \ {u})
           left == Change("removed", 0, 0, {u})
           changes == <<stay, left>>
<1>0. conv[c] \in ConversationRows /\ conv[c].members \in SUBSET Users
  BY ConvFields
<1>1. /\ row.members = conv[c].members \ {u} /\ row.read = conv[c].read
      /\ row.messages = conv[c].messages /\ row.joined = conv[c].joined
  BY <1>0 DEF ConversationRows
<1>2. Publish(c, changes) /\ Mutate(c, row) /\ conv[c].open /\ u \in conv[c].members
  BY DEF RemoveMember, May
<1>3. {"upsert", "removed"} \subseteq Kinds /\ 0 \in Nat
  BY DEF Kinds
<1>4. /\ stay \in Changes /\ stay.kind = "upsert" /\ stay.to = conv[c].members \ {u}
      /\ left \in Changes /\ left.kind = "removed" /\ left.to = {u}
  <2>1. conv[c].members \ {u} \in SUBSET Users /\ {u} \in SUBSET Users
    BY <1>0
  <2> QED
    BY <1>3, <2>1, ChangeFields
<1> HIDE DEF stay, left, row
<1>5. changes \in Seq(Changes) /\ DOMAIN changes = {1, 2} /\ changes[1] = stay /\ changes[2] = left
  BY <1>4
<1> HIDE DEF changes
<1>6. Appended(c) /\ conv'[c] = row
  BY <1>2, <1>5, PublishAppended
<1>7. \A j \in New(c) : outbox'[c][j] = stay \/ outbox'[c][j] = left
  <2>1. \A i \in New(c) : \E n \in DOMAIN changes : outbox'[c][i] = changes[n]
    BY <1>2, <1>5, PublishAppended
  <2> QED
    BY <1>5, <2>1
<1>8. \E j \in New(c) : outbox'[c][j] = left
  <2>1. \A n \in DOMAIN changes : \E i \in New(c) : outbox'[c][i] = changes[n]
    BY <1>2, <1>5, PublishAppended
  <2> QED
    BY <1>5, <2>1
<1>9. MessagesStay(c) /\ MessagesTold(c)
  BY <1>1, <1>6, MessagesRest
<1>10. MembershipTold(c)
  BY <1>1, <1>4, <1>6, <1>7, <1>8 DEF MembershipTold
<1>11. ReadsGrow(c)
  <2>1. \A v \in Users : conv[c].read[v] \in Nat
    BY ConvFields
  <2> QED
    BY <1>1, <1>2, <1>6, <2>1 DEF ReadsGrow
<1>12. ASSUME NEW j \in New(c) PROVE RowMeant(c, j)
  <2>1. {"upsert", "removed"} \cap MessageKinds = {}
    BY DEF MessageKinds
  <2> QED
    BY <1>1, <1>4, <1>6, <1>7, <2>1 DEF RowMeant
<1> QED
  BY <1>6, <1>9, <1>10, <1>11, <1>12 DEF Mutated

(* DeleteConversation *)
LEMMA DeleteConversationMutates ==
  ASSUME DeliveryTypeOK, NEW c \in Conversations, DeleteConversation(c) PROVE Mutated(c)
<1> DEFINE row == [conv[c] EXCEPT !.open = FALSE, !.members = {},
                                  !.read = [u \in Users |-> 0]]
           e == Change("removed", 0, 0, conv[c].members)
<1>0. conv[c] \in ConversationRows /\ conv[c].members \in SUBSET Users
  BY ConvFields
<1>1. row.members = {} /\ row.messages = conv[c].messages /\ row.open = FALSE
  BY <1>0 DEF ConversationRows
<1>2. Publish(c, <<e>>) /\ Mutate(c, row) /\ conv[c].open
  BY DEF DeleteConversation, May
<1>3. "removed" \in Kinds /\ 0 \in Nat /\ "removed" \notin MessageKinds
  BY DEF Kinds, MessageKinds
<1>4. e \in Changes /\ e.kind = "removed" /\ e.to = conv[c].members
  BY <1>0, <1>3, ChangeFields
<1> HIDE DEF e, row
<1>5. Appended(c) /\ conv'[c] = row
  BY <1>2, <1>4, SingleRow
<1>6. PICK n \in New(c) : New(c) = {n} /\ outbox'[c][n] = e
  BY <1>2, <1>4, SingleRow
<1>7. MessagesStay(c) /\ MessagesTold(c)
  BY <1>1, <1>5, MessagesRest
<1>8. MembershipTold(c)
  BY <1>1, <1>4, <1>5, <1>6 DEF MembershipTold
<1>9. ReadsGrow(c)
  BY <1>1, <1>2, <1>5 DEF ReadsGrow
<1>10. RowMeant(c, n)
  BY <1>1, <1>3, <1>4, <1>5, <1>6 DEF RowMeant
<1> QED
  BY <1>5, <1>6, <1>7, <1>8, <1>9, <1>10 DEF Mutated

(* Every mutation tells everybody what changes for them. *)
LEMMA MutationsMutate ==
  ASSUME DeliveryTypeOK, NEW c \in Conversations, MutateSome(c) PROVE Mutated(c)
<1>1. \A m \in DOMAIN conv[c].messages : m \in Nat
  BY ConvFields
<1> QED
  BY <1>1, SendMessageMutates, ChangedMessageMutates, MarkAsReadMutates, AddMemberMutates,
     RemoveMemberMutates, DeleteConversationMutates DEF MutateSome

-----------------------------------------------------------------------------
(* The rows of a conversation stay true                                     *)

(* Numbers of rows, before and after. *)
LEMMA RowsNumbered ==
  ASSUME DeliveryTypeOK, DeliveryTypeOK', NEW c \in Conversations
  PROVE  /\ \A i \in DOMAIN outbox[c] : i \in Nat
         /\ \A i \in DOMAIN outbox'[c] : i \in Nat
         /\ \A i \in DOMAIN outbox'[c] : i \in DOMAIN outbox[c] \/ i \in New(c)
  BY RowNumbers DEF DeliveryTypeOK, New

LEMMA OldRow ==
  ASSUME NEW c \in Conversations, Mutated(c), NEW i \in DOMAIN outbox[c]
  PROVE  /\ i \in DOMAIN outbox'[c]
         /\ outbox'[c][i].kind = outbox[c][i].kind /\ outbox'[c][i].to = outbox[c][i].to
         /\ outbox'[c][i].message = outbox[c][i].message
         /\ outbox'[c][i].upTo = outbox[c][i].upTo
         /\ \A j \in New(c) : i < j
  BY DEF Mutated, Appended, RowsKept

(* What is about the membership of somebody who stays or comes. *)
LEMMA CurrentOld ==
  ASSUME DeliveryTypeOK, DeliveryTypeOK', NEW c \in Conversations, Mutated(c),
         NEW u \in conv'[c].members, NEW j \in DOMAIN outbox[c]
  PROVE  Current(c, j, u) <=> Current(c, j, u)'
<1>1. \A i \in New(c) : ~(outbox'[c][i].kind = "removed" /\ u \in outbox'[c][i].to)
  BY DEF Mutated, RowMeant
<1>2. \A i \in DOMAIN outbox'[c] : i \in DOMAIN outbox[c] \/ i \in New(c)
  BY RowsNumbered
<1> QED
  BY <1>1, <1>2, OldRow DEF Current

LEMMA CurrentNew ==
  ASSUME DeliveryTypeOK, DeliveryTypeOK', NEW c \in Conversations, Mutated(c),
         NEW j \in New(c), NEW u \in outbox'[c][j].to, u \in conv'[c].members
  PROVE  Current(c, j, u)' /\ Stays(c, j, u)' /\ outbox'[c][j].kind # "removed"
<1>1. j \in DOMAIN outbox'[c] /\ outbox'[c][j].kind # "removed"
  BY DEF Mutated, RowMeant, New
<1>2. \A i \in New(c) : ~(outbox'[c][i].kind = "removed" /\ u \in outbox'[c][i].to)
  BY DEF Mutated, RowMeant
<1>3. \A i \in DOMAIN outbox'[c] : i \in DOMAIN outbox[c] \/ i \in New(c)
  BY RowsNumbered
<1>4. Current(c, j, u)'
  BY <1>1, <1>2, <1>3, OldRow DEF Current
<1>5. Stays(c, j, u)'
  <2>1. ASSUME NEW i \in DOMAIN outbox'[c], i > j, outbox'[c][i].kind = "upsert"
        PROVE  u \in outbox'[c][i].to
    <3>1. i \in Nat /\ j \in Nat
      BY <1>1, RowsNumbered
    <3>2. i \in New(c)
      BY <1>3, <2>1, <3>1, OldRow
    <3> QED
      BY <2>1, <3>2 DEF Mutated, RowMeant
  <2> QED
    BY <2>1 DEF Stays
<1> QED
  BY <1>1, <1>4, <1>5

(* A new change is about the new membership of whoever it is for. *)
LEMMA NewRowsFor ==
  ASSUME NEW c \in Conversations, Mutated(c), NEW j \in New(c), NEW u \in outbox'[c][j].to,
         outbox'[c][j].kind # "removed"
  PROVE  u \in conv'[c].members
  BY DEF Mutated, RowMeant

LEMMA StaysOld ==
  ASSUME DeliveryTypeOK, DeliveryTypeOK', NEW c \in Conversations, Mutated(c),
         NEW u \in conv'[c].members, NEW j \in DOMAIN outbox[c], Stays(c, j, u)
  PROVE  Stays(c, j, u)'
<1>1. \A i \in New(c) : outbox'[c][i].kind = "upsert" => u \in outbox'[c][i].to
  BY DEF Mutated, RowMeant
<1>2. \A i \in DOMAIN outbox'[c] : i \in DOMAIN outbox[c] \/ i \in New(c)
  BY RowsNumbered
<1> QED
  BY <1>1, <1>2, OldRow DEF Stays

(* MessagesNamed, LeaversTold, MembersTold and ReadsAdvance for one         *)
(* conversation.                                                            *)
NamedIn(c) ==
    \A i \in DOMAIN outbox[c] :
        LET e == outbox[c][i] IN
        e.kind \in MessageKinds =>
            /\ e.message \in DOMAIN conv[c].messages
            /\ e.kind = "deleted" => \A u \in e.to : e.message \notin Visible(c, u)
LeftIn(c) ==
    \A u \in Users \ conv[c].members : \A j \in DOMAIN outbox[c] : ~Current(c, j, u)
ToldIn(c) ==
    \A u \in conv[c].members :
        /\ \A j \in DOMAIN outbox[c] : Current(c, j, u) => Stays(c, j, u)
        /\ \A i \in DOMAIN outbox[c] :
              outbox[c][i].kind = "removed" /\ u \in outbox[c][i].to =>
                  \E j \in DOMAIN outbox[c] :
                      Current(c, j, u) /\ outbox[c][j].kind = "upsert"
        /\ \A m \in DOMAIN conv[c].messages : m > conv[c].joined[u] =>
              \E j \in DOMAIN outbox[c] :
                  /\ Current(c, j, u)
                  /\ outbox[c][j].kind = "new" /\ outbox[c][j].message = m
ReadIn(c) ==
    \A j \in DOMAIN outbox[c] :
        outbox[c][j].kind = "read" =>
            \A u \in outbox[c][j].to :
                /\ conv[c].open => outbox[c][j].upTo <= conv[c].read[u]
                /\ \A i \in 1 .. j - 1 :
                      outbox[c][i].kind = "read" /\ u \in outbox[c][i].to =>
                          outbox[c][i].upTo < outbox[c][j].upTo
RowsIn(c) == NamedIn(c) /\ LeftIn(c) /\ ToldIn(c) /\ ReadIn(c)

LEMMA RowsByConversation ==
  RowsInv <=> \A c \in Conversations : RowsIn(c)
<1>1. RowsInv => \A c \in Conversations : RowsIn(c)
  <2>1. ASSUME RowsInv, NEW c \in Conversations PROVE RowsIn(c)
    <3>1. NamedIn(c)
      BY <2>1 DEF RowsInv, MessagesNamed, NamedIn
    <3>2. LeftIn(c)
      BY <2>1 DEF RowsInv, LeaversTold, LeftIn
    <3>3. ToldIn(c)
      BY <2>1, Zenon DEF RowsInv, MembersTold, ToldIn
    <3>4. ReadIn(c)
      BY <2>1, Zenon DEF RowsInv, ReadsAdvance, ReadIn
    <3> QED
      BY <3>1, <3>2, <3>3, <3>4 DEF RowsIn
  <2> QED
    BY <2>1
<1>2. (\A c \in Conversations : RowsIn(c)) => RowsInv
  <2>1. ASSUME \A c \in Conversations : RowsIn(c) PROVE RowsInv
    <3>1. MessagesNamed
      BY <2>1 DEF RowsIn, MessagesNamed, NamedIn
    <3>2. LeaversTold
      BY <2>1 DEF RowsIn, LeaversTold, LeftIn
    <3>3. MembersTold
      BY <2>1, Zenon DEF RowsIn, MembersTold, ToldIn
    <3>4. ReadsAdvance
      BY <2>1, Zenon DEF RowsIn, ReadsAdvance, ReadIn
    <3> QED
      BY <3>1, <3>2, <3>3, <3>4 DEF RowsInv
  <2> QED
    BY <2>1
<1> QED
  BY <1>1, <1>2

(* A conversation that rests keeps its rows. *)
LEMMA RowsRest ==
  ASSUME NEW c \in Conversations, RowsIn(c), conv'[c] = conv[c],
         DOMAIN outbox'[c] = DOMAIN outbox[c], RowsKept, DeliveryTypeOK
  PROVE  RowsIn(c)'
<1>1. \A i \in DOMAIN outbox[c] :
         /\ outbox'[c][i].kind = outbox[c][i].kind /\ outbox'[c][i].to = outbox[c][i].to
         /\ outbox'[c][i].message = outbox[c][i].message
         /\ outbox'[c][i].upTo = outbox[c][i].upTo
  BY DEF RowsKept
<1>2. \A j \in DOMAIN outbox[c] : \A u : Current(c, j, u)' <=> Current(c, j, u)
  BY <1>1 DEF Current
<1>3. \A j \in DOMAIN outbox[c] : \A u : Stays(c, j, u)' <=> Stays(c, j, u)
  BY <1>1 DEF Stays
<1>4. \A u : Visible(c, u)' = Visible(c, u)
  BY DEF Visible
<1>5. NamedIn(c)'
  BY <1>1, <1>4 DEF RowsIn, NamedIn
<1>6. LeftIn(c)'
  BY <1>2 DEF RowsIn, LeftIn
<1>7. ToldIn(c)'
  <2> SUFFICES ASSUME NEW u \in conv[c].members
      PROVE  /\ \A j \in DOMAIN outbox[c] : Current(c, j, u) => Stays(c, j, u)
             /\ \A i \in DOMAIN outbox[c] :
                   outbox[c][i].kind = "removed" /\ u \in outbox[c][i].to =>
                       \E j \in DOMAIN outbox[c] :
                           Current(c, j, u) /\ outbox[c][j].kind = "upsert"
             /\ \A m \in DOMAIN conv[c].messages : m > conv[c].joined[u] =>
                   \E j \in DOMAIN outbox[c] :
                       /\ Current(c, j, u)
                       /\ outbox[c][j].kind = "new" /\ outbox[c][j].message = m
    BY <1>1, <1>2, <1>3 DEF ToldIn
  <2> QED
    BY Zenon DEF RowsIn, ToldIn
<1>8. ReadIn(c)'
  <2>1. \A j \in DOMAIN outbox[c] : \A i \in 1 .. j - 1 : i \in DOMAIN outbox[c]
    BY RowNumbers
  <2> QED
    BY <1>1, <2>1 DEF RowsIn, ReadIn
<1> QED
  BY <1>5, <1>6, <1>7, <1>8 DEF RowsIn

(* What a user could not see of a message stays out of sight. *)
LEMMA HiddenStays ==
  ASSUME NEW c \in Conversations, MessagesStay(c), NEW u, NEW m \in DOMAIN conv[c].messages,
         m \notin Visible(c, u)
  PROVE  m \in DOMAIN conv'[c].messages /\ m \notin Visible(c, u)'
  BY DEF MessagesStay, Visible

LEMMA NamedMutates ==
  ASSUME DeliveryTypeOK, DeliveryTypeOK', NEW c \in Conversations, Mutated(c), NamedIn(c)
  PROVE  NamedIn(c)'
<1>1. ASSUME NEW i \in DOMAIN outbox'[c], outbox'[c][i].kind \in MessageKinds
      PROVE  /\ outbox'[c][i].message \in DOMAIN conv'[c].messages
             /\ outbox'[c][i].kind = "deleted" => \A u \in outbox'[c][i].to :
                   outbox'[c][i].message \notin Visible(c, u)'
  <2>1. CASE i \in DOMAIN outbox[c]
    <3>1. /\ outbox'[c][i].kind = outbox[c][i].kind /\ outbox'[c][i].to = outbox[c][i].to
          /\ outbox'[c][i].message = outbox[c][i].message
      BY <2>1, OldRow
    <3>2. /\ outbox[c][i].message \in DOMAIN conv[c].messages
          /\ outbox[c][i].kind = "deleted" => \A u \in outbox[c][i].to :
                outbox[c][i].message \notin Visible(c, u)
      BY <1>1, <2>1, <3>1 DEF NamedIn
    <3>3. MessagesStay(c)
      BY DEF Mutated
    <3>4. outbox[c][i].message \in DOMAIN conv'[c].messages
      BY <3>2, <3>3 DEF MessagesStay
    <3>5. \A u : outbox[c][i].message \notin Visible(c, u)
                 => outbox[c][i].message \notin Visible(c, u)'
      BY <3>2, <3>3, HiddenStays
    <3> QED
      BY <3>1, <3>2, <3>4, <3>5
  <2>2. CASE i \in New(c)
    BY <1>1, <2>2 DEF Mutated, RowMeant, Visible
  <2> QED
    BY <2>1, <2>2, RowsNumbered
<1> QED
  BY <1>1 DEF NamedIn

LEMMA LeftMutates ==
  ASSUME DeliveryTypeOK, DeliveryTypeOK', NEW c \in Conversations, Mutated(c), LeftIn(c)
  PROVE  LeftIn(c)'
<1> SUFFICES ASSUME NEW u \in Users, u \notin conv'[c].members,
                    NEW j \in DOMAIN outbox'[c], Current(c, j, u)'
             PROVE  FALSE
  BY DEF LeftIn
<1>1. /\ u \in outbox'[c][j].to /\ outbox'[c][j].kind # "removed"
      /\ \A i \in DOMAIN outbox'[c] :
            outbox'[c][i].kind = "removed" /\ u \in outbox'[c][i].to => i < j
  BY DEF Current
<1>2. j \in DOMAIN outbox[c]
  BY <1>1, RowsNumbered, NewRowsFor
<1>3. CASE u \notin conv[c].members
  <2>1. Current(c, j, u)
    BY <1>1, <1>2, OldRow DEF Current
  <2> QED
    BY <1>2, <1>3, <2>1 DEF LeftIn
<1>4. CASE u \in conv[c].members
  <2>1. PICK i \in New(c) : u \in outbox'[c][i].to /\ outbox'[c][i].kind = "removed"
    BY <1>4 DEF Mutated, MembershipTold
  <2>2. i < j /\ j < i
    BY <1>1, <1>2, <2>1, OldRow DEF New
  <2>3. i \in Nat /\ j \in Nat
    BY <1>2, <2>1, RowsNumbered DEF New
  <2> QED
    BY <2>2, <2>3
<1> QED
  BY <1>3, <1>4

LEMMA ToldMutates ==
  ASSUME DeliveryTypeOK, DeliveryTypeOK', NEW c \in Conversations, Mutated(c),
         LeftIn(c), ToldIn(c)
  PROVE  ToldIn(c)'
<1>0. conv[c].members \subseteq Users /\ conv'[c].members \subseteq Users
  BY ConvFields DEF DeliveryTypeOK, ConversationRows
<1>1. ASSUME NEW u \in conv'[c].members, NEW j \in DOMAIN outbox'[c], Current(c, j, u)'
      PROVE  Stays(c, j, u)'
  <2>1. CASE j \in DOMAIN outbox[c]
    <3>1. Current(c, j, u)
      BY <1>1, <2>1, CurrentOld
    <3>2. u \in conv[c].members
      BY <1>0, <2>1, <3>1 DEF LeftIn
    <3>3. Stays(c, j, u)
      BY <2>1, <3>1, <3>2 DEF ToldIn
    <3> QED
      BY <2>1, <3>3, StaysOld
  <2>2. CASE j \in New(c)
    <3>1. u \in outbox'[c][j].to
      BY <1>1 DEF Current
    <3> QED
      BY <2>2, <3>1, CurrentNew
  <2> QED
    BY <2>1, <2>2, RowsNumbered
<1>2. ASSUME NEW u \in conv'[c].members, NEW i \in DOMAIN outbox'[c],
             outbox'[c][i].kind = "removed", u \in outbox'[c][i].to
      PROVE  \E j \in DOMAIN outbox'[c] : Current(c, j, u)' /\ outbox'[c][j].kind = "upsert"
  <2>1. i \in DOMAIN outbox[c] /\ outbox[c][i].kind = "removed" /\ u \in outbox[c][i].to
    <3>1. i \notin New(c)
      BY <1>2, CurrentNew
    <3> QED
      BY <1>2, <3>1, RowsNumbered, OldRow
  <2>2. CASE u \in conv[c].members
    <3>1. PICK j \in DOMAIN outbox[c] : Current(c, j, u) /\ outbox[c][j].kind = "upsert"
      BY <2>1, <2>2 DEF ToldIn
    <3> QED
      BY <3>1, OldRow, CurrentOld
  <2>3. CASE u \notin conv[c].members
    <3>1. PICK j \in New(c) : u \in outbox'[c][j].to /\ outbox'[c][j].kind = "upsert"
      BY <2>3 DEF Mutated, MembershipTold
    <3> QED
      BY <3>1, CurrentNew DEF New
  <2> QED
    BY <2>2, <2>3
<1>3. ASSUME NEW u \in conv'[c].members, NEW m \in DOMAIN conv'[c].messages,
             m > conv'[c].joined[u]
      PROVE  \E j \in DOMAIN outbox'[c] : /\ Current(c, j, u)' /\ outbox'[c][j].kind = "new"
                                          /\ outbox'[c][j].message = m
  <2>1. CASE m \notin DOMAIN conv[c].messages
    <3>1. PICK j \in New(c) : /\ conv'[c].members \subseteq outbox'[c][j].to
                              /\ outbox'[c][j].kind = "new" /\ outbox'[c][j].message = m
      BY <2>1 DEF Mutated, MessagesTold
    <3> QED
      BY <3>1, CurrentNew DEF New
  <2>2. CASE m \in DOMAIN conv[c].messages /\ u \in conv[c].members
    <3>1. conv'[c].joined[u] = conv[c].joined[u]
      BY <2>2 DEF Mutated, MembershipTold
    <3>2. PICK j \in DOMAIN outbox[c] : /\ Current(c, j, u) /\ outbox[c][j].kind = "new"
                                        /\ outbox[c][j].message = m
      BY <1>3, <2>2, <3>1 DEF ToldIn
    <3> QED
      BY <3>2, OldRow, CurrentOld
  <2>3. CASE m \in DOMAIN conv[c].messages /\ u \notin conv[c].members
    <3>1. conv'[c].joined[u] = Len(conv[c].messages)
      BY <2>3 DEF Mutated, MembershipTold
    <3>2. /\ Len(conv[c].messages) \in Nat
          /\ DOMAIN conv[c].messages = 1 .. Len(conv[c].messages)
      BY ConvFields
    <3>3. m \in Nat /\ m <= Len(conv[c].messages)
      BY <2>3, <3>2
    <3> QED
      BY <1>3, <3>1, <3>2, <3>3
  <2> QED
    BY <2>1, <2>2, <2>3
<1>4. ASSUME NEW u \in conv'[c].members
      PROVE  /\ \A j \in DOMAIN outbox'[c] : Current(c, j, u)' => Stays(c, j, u)'
             /\ \A i \in DOMAIN outbox'[c] :
                   outbox'[c][i].kind = "removed" /\ u \in outbox'[c][i].to =>
                       \E j \in DOMAIN outbox'[c] :
                           Current(c, j, u)' /\ outbox'[c][j].kind = "upsert"
             /\ \A m \in DOMAIN conv'[c].messages : m > conv'[c].joined[u] =>
                   \E j \in DOMAIN outbox'[c] :
                       /\ Current(c, j, u)'
                       /\ outbox'[c][j].kind = "new" /\ outbox'[c][j].message = m
  BY <1>1, <1>2, <1>3
<1> QED
  BY <1>4, Zenon DEF ToldIn

LEMMA ReadMutates ==
  ASSUME DeliveryTypeOK, DeliveryTypeOK', NEW c \in Conversations, Mutated(c), ReadIn(c)
  PROVE  ReadIn(c)'
<1> SUFFICES ASSUME NEW j \in DOMAIN outbox'[c], outbox'[c][j].kind = "read",
                    NEW u \in outbox'[c][j].to
             PROVE  /\ conv'[c].open => outbox'[c][j].upTo <= conv'[c].read[u]
                    /\ \A i \in 1 .. j - 1 :
                          outbox'[c][i].kind = "read" /\ u \in outbox'[c][i].to =>
                              outbox'[c][i].upTo < outbox'[c][j].upTo
  BY DEF ReadIn
<1>0. /\ conv[c].open
      /\ conv'[c].open => \A v \in Users : conv[c].read[v] <= conv'[c].read[v]
  BY DEF Mutated, ReadsGrow
<1>1. \A i \in DOMAIN outbox[c] : outbox[c][i].upTo \in Nat /\ outbox[c][i].to \subseteq Users
  <2>1. \A i \in DOMAIN outbox[c] : outbox[c][i] \in Changes
    BY RowNumbers
  <2> QED
    BY <2>1 DEF Changes
<1>2. \A v \in Users : conv[c].read[v] \in Nat /\ conv'[c].read[v] \in Nat
  <2>1. conv[c] \in ConversationRows /\ conv'[c] \in ConversationRows
    BY DEF DeliveryTypeOK
  <2> QED
    BY <2>1 DEF ConversationRows
<1>3. CASE j \in DOMAIN outbox[c]
  <2>1. /\ outbox[c][j].kind = "read" /\ u \in outbox[c][j].to
        /\ outbox'[c][j].upTo = outbox[c][j].upTo
    BY <1>3, OldRow
  <2>2. \A i \in 1 .. j - 1 : i \in DOMAIN outbox[c]
    BY <1>3, RowNumbers
  <2>3. outbox[c][j].upTo <= conv[c].read[u]
    BY <1>0, <1>3, <2>1 DEF ReadIn
  <2>4. \A i \in 1 .. j - 1 : outbox[c][i].kind = "read" /\ u \in outbox[c][i].to =>
           outbox[c][i].upTo < outbox[c][j].upTo
    BY <1>3, <2>1 DEF ReadIn
  <2>5. conv'[c].open => outbox'[c][j].upTo <= conv'[c].read[u]
    BY <1>0, <1>1, <1>2, <1>3, <2>1, <2>3
  <2> QED
    BY <1>3, <2>1, <2>2, <2>4, <2>5, OldRow
<1>4. CASE j \in New(c)
  <2>1. New(c) = {j} /\ outbox'[c][j].upTo = conv'[c].read[u] /\ conv[c].read[u] < conv'[c].read[u]
    BY <1>4 DEF Mutated, RowMeant
  <2>2. u \in Users
    <3>1. outbox'[c][j] \in Changes
      BY DEF DeliveryTypeOK
    <3> QED
      BY <3>1 DEF Changes
  <2>3. ASSUME NEW i \in 1 .. j - 1, outbox'[c][i].kind = "read", u \in outbox'[c][i].to
        PROVE  outbox'[c][i].upTo < outbox'[c][j].upTo
    <3>1. i \in DOMAIN outbox'[c] /\ i # j
      <4>1. DOMAIN outbox'[c] = 1 .. Len(outbox'[c]) /\ Len(outbox'[c]) \in Nat
        BY DEF DeliveryTypeOK
      <4> QED
        BY <4>1
    <3>2. i \in DOMAIN outbox[c]
      BY <2>1, <3>1, RowsNumbered
    <3>3. /\ outbox[c][i].kind = "read" /\ u \in outbox[c][i].to
          /\ outbox'[c][i].upTo = outbox[c][i].upTo
      BY <2>3, <3>2, OldRow
    <3>4. outbox[c][i].upTo <= conv[c].read[u]
      BY <1>0, <3>2, <3>3 DEF ReadIn
    <3> QED
      BY <1>1, <1>2, <2>1, <2>2, <3>2, <3>3, <3>4
  <2>4. outbox'[c][j].upTo <= conv'[c].read[u]
    BY <1>2, <2>1, <2>2
  <2> QED
    BY <2>3, <2>4
<1> QED
  BY <1>3, <1>4, RowsNumbered

(* Every step of the delivery either lets a conversation rest or mutates it.*)
LEMMA RestsOrMutates ==
  ASSUME DeliveryTypeOK, [DeliveryNext]_deliveryVars
  PROVE  /\ RowsKept
         /\ \/ \A c \in Conversations : Rests(c)
            \/ \E c \in Conversations :
                  /\ Mutated(c)
                  /\ \A b \in Conversations : b # c => Rests(b)
<1>1. RowsKept
  BY StepOnward DEF Onward
<1>2. ASSUME NEW c \in Conversations, MutateSome(c)
      PROVE  Mutated(c) /\ \A b \in Conversations : b # c => Rests(b)
  BY <1>2, MutationsMutate, MutationsTell DEF Tells
<1>3. ASSUME NEW d \in Dispatchers, DispatcherStep(d)
      PROVE  \A c \in Conversations : Rests(c)
  <2>1. CASE CommitBatch(d)
    <3>1. UNCHANGED conv
      BY <2>1 DEF CommitBatch
    <3> QED
      BY <2>1, <3>1, BatchKeepsRows DEF Rests
  <2>2. CASE ~CommitBatch(d)
    <3>1. UNCHANGED <<conv, outbox>>
      BY <1>3, <2>2 DEF DispatcherStep, RollBackBatch, Dispatch, DispatchFails
    <3> QED
      BY <3>1 DEF Rests
  <2> QED
    BY <2>1, <2>2
<1>4. ASSUME NEW w \in Writers, NEW c \in Conversations, WriterStep(w, c)
      PROVE  UNCHANGED <<conv, outbox>>
  BY <1>4 DEF WriterStep, ReadMembers, WriteInbox, WriteInboxFails, CommitOffset, Rebalance,
              Leave
<1>5. ASSUME NEW u \in Aging, Expire(u) \/ PruneStream(u) PROVE UNCHANGED <<conv, outbox>>
  BY <1>5 DEF Expire, PruneStream
<1>6. ASSUME UNCHANGED <<conv, outbox>> PROVE \A c \in Conversations : Rests(c)
  BY <1>6 DEF Rests
<1> QED
  BY <1>1, <1>2, <1>3, <1>4, <1>5, <1>6 DEF DeliveryNext, deliveryVars

LEMMA StepRows ==
  ASSUME DeliveryTypeOK, RowsInv, [DeliveryNext]_deliveryVars PROVE RowsInv'
<1>1. DeliveryTypeOK' /\ RowsKept
  BY StepTyped, RestsOrMutates
<1>2. ASSUME NEW c \in Conversations PROVE RowsIn(c)'
  <2>1. RowsIn(c)
    BY RowsByConversation
  <2>2. CASE Rests(c)
    BY <1>1, <2>1, <2>2, RowsRest DEF Rests
  <2>3. CASE Mutated(c)
    BY <1>1, <2>1, <2>3, NamedMutates, LeftMutates, ToldMutates, ReadMutates DEF RowsIn
  <2> QED
    BY <2>2, <2>3, RestsOrMutates
<1>3. MessagesNamed'
  BY <1>2 DEF RowsIn, MessagesNamed, NamedIn
<1>4. LeaversTold'
  BY <1>2 DEF RowsIn, LeaversTold, LeftIn
<1>5. MembersTold'
  BY <1>2, Zenon DEF RowsIn, MembersTold, ToldIn
<1>6. ReadsAdvance'
  BY <1>2, Zenon DEF RowsIn, ReadsAdvance, ReadIn
<1> QED
  BY <1>3, <1>4, <1>5, <1>6 DEF RowsInv

-----------------------------------------------------------------------------
(* Streams take what is owed in the order of publication                    *)

(* What holds of the delivery without the devices. *)
DeliveryInv ==
    /\ OrderInv /\ SkipInv /\ MeantInv
    /\ StreamsInv /\ RowsInv /\ OrderedInv

(* What a writer inserts, and for whom: whoever it is for has all that was  *)
(* owed before.                                                             *)
LEMMA BatchFacts ==
  ASSUME DeliveryInv, NEW w \in Writers, NEW c \in Conversations, writer[w][c].read,
         BatchInsert(w, c), NEW i, i = partition[c][writer[w][c].next]
  PROVE  /\ i \in DOMAIN outbox[c] /\ outbox[c][i] \in Changes
         /\ \A u \in Users :
               \/ stream'[u] = stream[u]
               \/ /\ u \in outbox[c][i].to /\ stream'[u] = Insert(stream[u], c, i)
                  /\ \A j \in DOMAIN outbox[c] : j < i /\ Owed(c, j, u) => Has(u, c, j)
<1>0. DeliveryTypeOK
  BY DEF DeliveryInv, OrderInv
<1>1. PICK n : n = writer[w][c].next
  OBVIOUS
<1>2. n \in DOMAIN partition[c] /\ i = partition[c][n]
  BY <1>0, <1>1 DEF DeliveryTypeOK
<1>3. i \in DOMAIN outbox[c]
  BY <1>0, <1>2 DEF DeliveryTypeOK
<1>4. outbox[c][i] \in Changes /\ i \in Nat
  BY <1>0, <1>3, RowNumbers
<1>5. writer[w][c].to \subseteq outbox[c][i].to
  BY <1>1, <1>2 DEF DeliveryInv, MeantInv, ReadersMean, Reading
<1>6. ASSUME NEW u \in Users, NEW j \in DOMAIN outbox[c], j < i, Owed(c, j, u)
      PROVE  Has(u, c, j)
  <2>1. j \in 1 .. partition[c][n] - 1
    BY <1>0, <1>2, <1>4, <1>6, RowNumbers
  <2>2. PICK l \in 1 .. n - 1 : partition[c][l] = j
    BY <1>2, <2>1 DEF DeliveryInv, OrderInv, SentInOrder
  <2>3. Covered(c, l)
    BY <1>1, <2>2 DEF DeliveryInv, OrderedInv, WritersOn, SkipInv, PassedCovered
  <2> QED
    BY <1>6, <2>2, <2>3 DEF Covered
<1>7. \A u \in Users : stream'[u] = IF u \in writer[w][c].to
                                    THEN Insert(stream[u], c, i) ELSE stream[u]
  BY <1>1, <1>2 DEF BatchInsert
<1> QED
  BY <1>3, <1>4, <1>5, <1>6, <1>7

(* What is in a stream was published. *)
LEMMA HadRows ==
  ASSUME EntriesMirror, NEW u \in Users, NEW c, NEW i, Has(u, c, i)
  PROVE  i \in DOMAIN outbox[c]
  BY DEF EntriesMirror, Has

LEMMA StepOwed ==
  ASSUME DeliveryInv, [DeliveryNext]_deliveryVars PROVE OwedInOrder'
<1>0. DeliveryTypeOK /\ DeliveryTypeOK' /\ Onward /\ LeaversLeftOut /\ EntriesMirror
      /\ OwedInOrder
  BY StepTyped, StepOnward DEF DeliveryInv, OrderInv, SkipInv, StreamsInv, OrderedInv
<1>1. SUFFICES ASSUME NEW u \in Users, NEW c \in Conversations,
                      NEW i \in DOMAIN outbox'[c], NEW j \in DOMAIN outbox'[c],
                      i < j, Has(u, c, j)', Owed(c, i, u)'
               PROVE  Has(u, c, i)'
  BY DEF OwedInOrder
<1>2. \A k \in DOMAIN outbox[c] : k \in Nat /\ (i < k => i \in DOMAIN outbox[c])
  <2>1. i \in Nat \ {0}
    BY <1>0 DEF DeliveryTypeOK
  <2> QED
    BY <1>0, <2>1, RowNumbers
<1>3. ASSUME Has(u, c, j) PROVE Has(u, c, i)'
  <2>1. j \in DOMAIN outbox[c] /\ i \in DOMAIN outbox[c]
    BY <1>0, <1>1, <1>2, <1>3, HadRows
  <2>2. Owed(c, i, u)
    BY <1>0, <1>1, <2>1, OwedKept
  <2>3. Has(u, c, i)
    BY <1>0, <1>1, <1>3, <2>1, <2>2 DEF OwedInOrder
  <2> QED
    BY <1>0, <1>2, <2>1, <2>3 DEF Onward, HasKept
<1>4. ASSUME stream'[u].applied = stream[u].applied PROVE Has(u, c, i)'
  BY <1>1, <1>3, <1>4 DEF Has
<1>5. ASSUME NEW w \in Writers, NEW b \in Conversations, WriterStep(w, b) PROVE Has(u, c, i)'
  <2>1. CASE UNCHANGED stream
    BY <1>4, <2>1
  <2>2. CASE BatchInsert(w, b) /\ writer[w][b].read
    <3>1. PICK n : n = partition[b][writer[w][b].next]
      OBVIOUS
    <3>2. /\ n \in DOMAIN outbox[b] /\ outbox[b][n] \in Changes
          /\ \/ stream'[u] = stream[u]
             \/ /\ u \in outbox[b][n].to /\ stream'[u] = Insert(stream[u], b, n)
                /\ \A k \in DOMAIN outbox[b] : k < n /\ Owed(b, k, u) => Has(u, b, k)
      BY <2>2, <3>1, BatchFacts
    <3>3. CASE stream'[u] = stream[u]
      BY <1>4, <3>3
    <3>4. CASE /\ stream'[u] = Insert(stream[u], b, n) /\ ~Has(u, c, j)
               /\ \A k \in DOMAIN outbox[b] : k < n /\ Owed(b, k, u) => Has(u, b, k)
      <4>1. stream[u] \in Streams
        BY <1>0 DEF DeliveryTypeOK
      <4>2. \/ stream'[u].applied = stream[u].applied
            \/ stream'[u].applied = stream[u].applied \cup {Mark(b, n, 0)}
            \/ stream'[u].applied = stream[u].applied \cup {Mark(b, n, stream[u].position + 1)}
        BY <3>2, <3>4, <4>1, InsertFields
      <4>3. c = b /\ j = n
        BY <1>1, <3>4, <4>2 DEF Has, Mark
      <4>4. i \in DOMAIN outbox[c] /\ Owed(c, i, u)
        BY <1>0, <1>1, <1>2, <3>2, <4>3, OwedKept
      <4>5. Has(u, c, i) /\ i \in Nat
        BY <1>1, <1>2, <3>4, <4>3, <4>4
      <4> QED
        BY <1>0, <4>5 DEF Onward, HasKept
    <3> QED
      BY <1>3, <3>2, <3>3, <3>4
  <2> QED
    BY <1>5, <2>1, <2>2 DEF WriterStep, ReadMembers, WriteInbox, WriteInboxFails,
                            CommitOffset, Rebalance, Leave
<1>6. ASSUME NEW v \in Aging, Expire(v) \/ PruneStream(v) PROVE Has(u, c, i)'
  <2>1. v \in Users
    BY DeliveryAssumption
  <2>2. stream'[u].applied = stream[u].applied
    BY <1>0, <1>6, <2>1, RetentionFields
  <2> QED
    BY <1>4, <2>2
<1>7. ASSUME NEW b \in Conversations, MutateSome(b) PROVE UNCHANGED stream
  BY <1>0, <1>7, MutationsTell DEF Tells
<1>8. ASSUME NEW d \in Dispatchers, DispatcherStep(d) PROVE UNCHANGED stream
  BY <1>8 DEF DispatcherStep, CommitBatch, RollBackBatch, Dispatch, DispatchFails
<1> QED
  BY <1>4, <1>5, <1>6, <1>7, <1>8 DEF DeliveryNext, deliveryVars

LEMMA BatchRemovals ==
  ASSUME DeliveryInv, NEW w \in Writers, NEW c \in Conversations, writer[w][c].read,
         BatchInsert(w, c), UNCHANGED outbox
  PROVE  RemovalsInOrder'
<1>0. DeliveryTypeOK /\ StreamsInv /\ OwedInOrder /\ RemovalsInOrder
  BY DEF DeliveryInv, OrderInv, OrderedInv
<1>1. PICK i : i = partition[c][writer[w][c].next]
  OBVIOUS
<1>2. /\ i \in DOMAIN outbox[c] /\ outbox[c][i] \in Changes
      /\ \A u \in Users :
            \/ stream'[u] = stream[u]
            \/ u \in outbox[c][i].to /\ stream'[u] = Insert(stream[u], c, i)
  BY <1>1, BatchFacts
<1>3. SUFFICES ASSUME NEW u \in Users, NEW a \in stream'[u].applied,
                      NEW b \in stream'[u].applied, a.conv = b.conv, a.change < b.change,
                      outbox[a.conv][a.change].kind = "removed"
               PROVE  a.position < b.position \/ b.position = 0
  BY DEF RemovalsInOrder
<1>4. CASE stream'[u] = stream[u]
  BY <1>0, <1>3, <1>4 DEF RemovalsInOrder
<1>5. CASE u \in outbox[c][i].to /\ stream'[u] = Insert(stream[u], c, i)
  <2> DEFINE s == stream[u]
             n == s.position + 1
  <2>1. s \in Streams /\ s.position \in Nat
        /\ \A x \in s.applied : x.position \in Nat /\ x.position <= s.position
                                /\ x.change \in DOMAIN outbox[x.conv]
    BY <1>0, StreamFacts DEF StreamsInv, PositionsKnown, EntriesMirror
  <2>2. \/ stream'[u] = s
        \/ ~Has(u, c, i) /\ outbox[c][i].kind = "read"
           /\ stream'[u].applied = s.applied \cup {Mark(c, i, 0)}
        \/ ~Has(u, c, i) /\ stream'[u].applied = s.applied \cup {Mark(c, i, n)}
    BY <1>2, <1>5, <2>1, InsertFields DEF Has
  <2>3. \A k : Mark(c, i, k).conv = c /\ Mark(c, i, k).change = i /\ Mark(c, i, k).position = k
    BY DEF Mark
  <2>4. CASE a \in s.applied /\ b \in s.applied
    BY <1>0, <1>3, <2>4 DEF RemovalsInOrder
  <2>5. CASE a \in s.applied /\ b \notin s.applied
    <3>1. b.position = 0 \/ b.position = n
      BY <1>3, <2>2, <2>3, <2>5
    <3> QED
      BY <2>1, <2>5, <3>1
  <2>6. CASE a \notin s.applied
    <3>1. a.conv = c /\ a.change = i /\ ~Has(u, c, i)
      BY <1>3, <2>2, <2>3, <2>6
    <3>2. i \in Nat
      BY <1>0, <1>2, RowNumbers
    <3>3. b \in s.applied
      BY <1>3, <2>2, <2>3, <3>1, <3>2
    <3>4. b.change \in DOMAIN outbox[c] /\ Has(u, c, b.change) /\ i < b.change
      BY <1>3, <2>1, <3>1, <3>3 DEF Has
    <3>5. Owed(c, i, u)
      BY <1>3, <1>5, <3>1 DEF Owed
    <3>6. Has(u, c, i)
      BY <1>0, <1>2, <3>4, <3>5 DEF OwedInOrder
    <3> QED
      BY <3>1, <3>6
  <2> QED
    BY <2>4, <2>5, <2>6
<1> QED
  BY <1>2, <1>4, <1>5

LEMMA StepRemovals ==
  ASSUME DeliveryInv, [DeliveryNext]_deliveryVars PROVE RemovalsInOrder'
<1>0. DeliveryTypeOK /\ RowsKept /\ EntriesMirror /\ RemovalsInOrder
  BY StepOnward DEF DeliveryInv, OrderInv, StreamsInv, OrderedInv, Onward
<1>1. ASSUME \A u \in Users : stream'[u].applied = stream[u].applied PROVE RemovalsInOrder'
  <2>1. \A u \in Users : \A a \in stream[u].applied :
           /\ a.conv \in Conversations
           /\ outbox'[a.conv][a.change].kind = outbox[a.conv][a.change].kind
    BY <1>0, StreamFacts DEF RowsKept, EntriesMirror
  <2> QED
    BY <1>0, <1>1, <2>1 DEF RemovalsInOrder
<1>2. ASSUME NEW w \in Writers, NEW c \in Conversations, WriterStep(w, c)
      PROVE  RemovalsInOrder'
  <2>1. \/ UNCHANGED stream
        \/ BatchInsert(w, c) /\ writer[w][c].read /\ UNCHANGED outbox
    BY <1>2 DEF WriterStep, ReadMembers, WriteInbox, WriteInboxFails, CommitOffset,
                Rebalance, Leave
  <2> QED
    BY <1>1, <2>1, BatchRemovals
<1>3. ASSUME NEW v \in Aging, Expire(v) \/ PruneStream(v) PROVE RemovalsInOrder'
  <2>1. v \in Users
    BY DeliveryAssumption
  <2>2. \A u \in Users : stream'[u].applied = stream[u].applied
    BY <1>0, <1>3, <2>1, RetentionFields
  <2> QED
    BY <1>1, <2>2
<1>4. ASSUME NEW b \in Conversations, MutateSome(b) PROVE UNCHANGED stream
  BY <1>0, <1>4, MutationsTell DEF Tells
<1>5. ASSUME NEW d \in Dispatchers, DispatcherStep(d) PROVE UNCHANGED stream
  BY <1>5 DEF DispatcherStep, CommitBatch, RollBackBatch, Dispatch, DispatchFails
<1> QED
  BY <1>1, <1>2, <1>3, <1>4, <1>5 DEF DeliveryNext, deliveryVars

LEMMA StepWritersOn ==
  ASSUME DeliveryTypeOK, WritersOn, [DeliveryNext]_deliveryVars PROVE WritersOn'
<1>1. ASSUME UNCHANGED writer PROVE WritersOn'
  BY <1>1 DEF WritersOn
<1>2. ASSUME NEW w \in Writers, NEW c \in Conversations, WriterStep(w, c) PROVE WritersOn'
  <2>1. CASE ReadMembers(w, c)
    <3>1. writer[w][c].on
      BY <2>1 DEF ReadMembers
    <3>2. /\ \A v \in Writers, b \in Conversations :
                v # w \/ b # c => writer'[v][b] = writer[v][b]
          /\ writer'[w][c].on = writer[w][c].on
      BY <1>2, <2>1, GoroutineAfter
    <3> QED
      BY <3>1, <3>2 DEF WritersOn
  <2>2. CASE CommitOffset(w, c)
    BY <1>1, <2>2 DEF CommitOffset
  <2>3. CASE WriteInbox(w, c) \/ WriteInboxFails(w, c) \/ Rebalance(w, c) \/ Leave(w, c)
    BY <2>3, GoroutineReset DEF WritersOn
  <2> QED
    BY <1>2, <2>1, <2>2, <2>3 DEF WriterStep
<1>3. ASSUME NEW c \in Conversations, MutateSome(c) PROVE UNCHANGED writer
  BY <1>3, TypeParts, MutationsPublish DEF Published, OthersUnchanged
<1>4. ASSUME NEW d \in Dispatchers, DispatcherStep(d) PROVE UNCHANGED writer
  BY <1>4 DEF DispatcherStep, CommitBatch, RollBackBatch, Dispatch, DispatchFails
<1>5. ASSUME NEW u \in Aging, Expire(u) \/ PruneStream(u) PROVE UNCHANGED writer
  BY <1>5 DEF Expire, PruneStream
<1> QED
  BY <1>1, <1>2, <1>3, <1>4, <1>5 DEF DeliveryNext, deliveryVars

LEMMA StepDelivery ==
  ASSUME DeliveryInv, [DeliveryNext]_deliveryVars PROVE DeliveryInv'
<1>1. DeliveryTypeOK
  BY DEF DeliveryInv, OrderInv
<1>2. OrderInv'
  BY StepOrdered DEF DeliveryInv
<1>3. SkipInv'
  BY StepCovered DEF DeliveryInv
<1>4. MeantInv'
  BY StepMeant DEF DeliveryInv
<1>5. StreamsInv'
  BY <1>1, StepStreams DEF DeliveryInv
<1>6. RowsInv'
  BY <1>1, StepRows DEF DeliveryInv
<1>7. OrderedInv'
  BY <1>1, StepOwed, StepRemovals, StepWritersOn DEF DeliveryInv, OrderedInv
<1> QED
  BY <1>2, <1>3, <1>4, <1>5, <1>6, <1>7 DEF DeliveryInv

(* EnsureStream opens a stream, and moves nothing in it. *)
LEMMA EnsureDelivery ==
  ASSUME DeliveryInv, FollowInv, NEW d \in Devices, EnsureStream(d) PROVE DeliveryInv'
<1>1. FollowInv'
  BY EnsureFollows
<1>2. DeliveryTypeOK' /\ StreamsInv'
  BY <1>1 DEF FollowInv, TypeOK
<1>3. UNCHANGED <<conv, outbox, batch, partition, group, writer, faults>>
  BY DEF EnsureStream
<1>4. \A u \in Users : /\ stream'[u].entries = stream[u].entries
                       /\ stream'[u].applied = stream[u].applied
  BY EnsureFields DEF FollowInv
<1>5. OrderInv'
  BY <1>2, <1>3 DEF DeliveryInv, OrderInv, SentArrived, Arrived, NotedArrived, SentInOrder
<1>6. \A u \in Users : \A c, i : Has(u, c, i)' <=> Has(u, c, i)
  BY <1>4 DEF Has
<1>7. \A u, c, i : Owed(c, i, u)' <=> Owed(c, i, u)
  BY <1>3 DEF Owed, Stays
<1>8. SkipInv'
  <2>1. \A c, k : Covered(c, k) => Covered(c, k)'
    BY <1>3, <1>6, <1>7 DEF Covered
  <2>2. LeaversLeftOut'
    BY <1>3 DEF DeliveryInv, SkipInv, LeaversLeftOut
  <2>3. CommittedCovered'
    BY <1>3, <2>1 DEF DeliveryInv, SkipInv, CommittedCovered
  <2>4. PassedCovered'
    BY <1>3, <2>1 DEF DeliveryInv, SkipInv, PassedCovered
  <2>5. ReadersHold'
    BY <1>3, <1>7 DEF DeliveryInv, SkipInv, ReadersHold
  <2> QED
    BY <1>2, <2>2, <2>3, <2>4, <2>5 DEF SkipInv
<1>9. MeantInv'
  BY <1>2, <1>3, <1>4 DEF DeliveryInv, MeantInv, EntriesMeant, ReadersMean, Reading
<1>10. RowsInv'
  BY <1>3 DEF DeliveryInv, RowsInv, MessagesNamed, LeaversTold, MembersTold, ReadsAdvance,
              Current, Stays, Visible
<1>11. OrderedInv'
  <2>1. OwedInOrder'
    BY <1>3, <1>6, <1>7 DEF DeliveryInv, OrderedInv, OwedInOrder
  <2>2. RemovalsInOrder'
    BY <1>3, <1>4 DEF DeliveryInv, OrderedInv, RemovalsInOrder
  <2>3. WritersOn'
    BY <1>3 DEF DeliveryInv, OrderedInv, WritersOn
  <2> QED
    BY <2>1, <2>2, <2>3 DEF OrderedInv
<1> QED
  BY <1>2, <1>5, <1>8, <1>9, <1>10, <1>11 DEF DeliveryInv

LEMMA InitDelivers ==
  ASSUME DeliveryInit, StartsWithOffset PROVE DeliveryInv
<1>1. OrderInv
  BY InitOrdered
<1>2. SkipInv
  BY InitCovered
<1>3. MeantInv
  BY InitMeant
<1>4. /\ \A c \in Conversations : outbox[c] = <<>> /\ conv[c].messages = <<>>
      /\ \A u \in Users :
            /\ stream[u].position = 0 /\ stream[u].retained = 0 /\ stream[u].expired = 0
            /\ stream[u].entries = {} /\ stream[u].applied = {}
  BY DEF DeliveryInit
<1>5. \A c \in Conversations : DOMAIN outbox[c] = {} /\ DOMAIN conv[c].messages = {}
  <2>1. DOMAIN <<>> = {}
    OBVIOUS
  <2> QED
    BY <1>4, <2>1, Zenon
<1>6. StreamsInv
  BY <1>4 DEF StreamsInv, OncePerChange, PositionsKnown, EntriesMirror, Retained
<1>7. RowsInv
  BY <1>5 DEF RowsInv, MessagesNamed, LeaversTold, MembersTold, ReadsAdvance
<1>8. OrderedInv
  <2>1. ASSUME NEW w \in Writers, NEW c \in Conversations PROVE writer[w][c].read = FALSE
    <3>1. writer[w][c] = Off \/ writer[w][c] = [Off EXCEPT !.on = TRUE, !.next = 1]
      BY DEF DeliveryInit
    <3>2. Off.read = FALSE /\ 1 \in Nat \ {0}
      BY DEF Off
    <3> QED
      BY <3>1, <3>2, ClaimTyped
  <2> QED
    BY <1>4, <1>5, <2>1 DEF OrderedInv, OwedInOrder, RemovalsInOrder, WritersOn
<1> QED
  BY <1>1, <1>2, <1>3, <1>6, <1>7, <1>8 DEF DeliveryInv

-----------------------------------------------------------------------------
(* What is coming to a device that rests                                    *)

(* Nothing that is coming of a conversation is lost, a read excepted that a *)
(* newer one replaces, and no removal is made up.                           *)
Carried(u, p, c) ==
    /\ \A i \in DOMAIN outbox[c] :
          Coming(u, p, c, i) /\ outbox[c][i].kind # "read" => Coming(u, p, c, i)'
    /\ \A i \in DOMAIN outbox[c] :
          Coming(u, p, c, i)' /\ outbox[c][i].kind = "removed" => Coming(u, p, c, i)
    /\ \A j \in DOMAIN outbox[c] : Coming(u, p, c, j) /\ Current(c, j, u) =>
          \E k \in DOMAIN outbox[c] : Coming(u, p, c, k)' /\ Current(c, k, u)

LEMMA QuietCarries ==
  ASSUME NEW u \in Users, NEW p, NEW c \in Conversations, Rests(c), RowsKept,
         stream'[u].applied = stream[u].applied,
         \A e \in stream[u].entries : e.position > p => e \in stream'[u].entries,
         \A e \in stream'[u].entries : e \in stream[u].entries
  PROVE  Carried(u, p, c)
<1>1. ASSUME NEW i \in DOMAIN outbox[c] PROVE Coming(u, p, c, i)' <=> Coming(u, p, c, i)
  <2>1. /\ i \in DOMAIN outbox'[c] /\ outbox'[c][i].to = outbox[c][i].to
        /\ outbox'[c][i].kind = outbox[c][i].kind
    BY DEF RowsKept
  <2>2. Has(u, c, i)' <=> Has(u, c, i)
    BY DEF Has
  <2>3. Owed(c, i, u)' <=> Owed(c, i, u)
    BY <2>1 DEF Owed, Stays, Rests, RowsKept
  <2>4. (\E e \in stream[u].entries : e.conv = c /\ e.change = i /\ e.position > p)
        <=> \E e \in stream'[u].entries : e.conv = c /\ e.change = i /\ e.position > p
    OBVIOUS
  <2> QED
    BY <2>1, <2>2, <2>3, <2>4 DEF Coming
<1> QED
  BY <1>1 DEF Carried

(* A read that arrives overtaken was owed to nobody. *)
LEMMA OvertakenNotOwed ==
  ASSUME DeliveryInv, NEW u \in Users, NEW c \in Conversations, NEW i \in DOMAIN outbox[c],
         outbox[c][i].kind = "read", u \in outbox[c][i].to, ~Has(u, c, i),
         NEW o \in stream[u].entries, o.conv = c, o.kind = "read",
         o.upTo >= outbox[c][i].upTo
  PROVE  ~Owed(c, i, u)
<1>0. /\ DeliveryTypeOK /\ OncePerChange /\ EntriesMirror /\ EntriesMeant /\ ReadsAdvance
      /\ OwedInOrder
  BY DEF DeliveryInv, OrderInv, MeantInv, StreamsInv, RowsInv, OrderedInv
<1>1. PICK k : k = o.change
  OBVIOUS
<1>2. /\ k \in DOMAIN outbox[c] /\ outbox[c][k].kind = "read" /\ u \in outbox[c][k].to
      /\ outbox[c][k].upTo >= outbox[c][i].upTo
  BY <1>0, <1>1 DEF EntriesMirror, EntriesMeant
<1>3. Has(u, c, k)
  BY <1>0, <1>1 DEF OncePerChange, Has
<1>4. /\ k \in Nat \ {0} /\ i \in Nat /\ k # i
      /\ outbox[c][k].upTo \in Nat /\ outbox[c][i].upTo \in Nat
  <2>1. outbox[c][k] \in Changes /\ outbox[c][i] \in Changes
    BY <1>0, <1>2, RowNumbers
  <2>2. k \in Nat \ {0} /\ i \in Nat
    BY <1>0, <1>2 DEF DeliveryTypeOK
  <2> QED
    BY <1>3, <2>1, <2>2 DEF Changes
<1>5. ~(k < i)
  BY <1>0, <1>2, <1>4 DEF ReadsAdvance
<1>6. i < k
  BY <1>4, <1>5
<1> QED
  BY <1>0, <1>2, <1>3, <1>6 DEF OwedInOrder

(* A read is replaced by a newer one only. *)
LEMMA ReplacedByNewer ==
  ASSUME DeliveryInv, NEW u \in Users, NEW c \in Conversations, NEW i \in DOMAIN outbox[c],
         outbox[c][i].kind = "read", u \in outbox[c][i].to, ~Has(u, c, i),
         NEW o \in stream[u].entries, o.conv = c, o.kind = "read",
         ~(o.upTo >= outbox[c][i].upTo), Current(c, o.change, u)
  PROVE  Current(c, i, u)
<1>0. /\ DeliveryTypeOK /\ OncePerChange /\ EntriesMirror /\ EntriesMeant /\ ReadsAdvance
  BY DEF DeliveryInv, OrderInv, MeantInv, StreamsInv, RowsInv
<1>1. PICK k : k = o.change
  OBVIOUS
<1>2. /\ k \in DOMAIN outbox[c] /\ outbox[c][k].kind = "read" /\ u \in outbox[c][k].to
      /\ ~(outbox[c][k].upTo >= outbox[c][i].upTo)
  BY <1>0, <1>1 DEF EntriesMirror, EntriesMeant
<1>3. Has(u, c, k)
  BY <1>0, <1>1 DEF OncePerChange, Has
<1>4. /\ k \in Nat /\ i \in Nat \ {0} /\ k # i
      /\ outbox[c][k].upTo \in Nat /\ outbox[c][i].upTo \in Nat
      /\ \A n \in DOMAIN outbox[c] : n \in Nat
  <2>1. outbox[c][k] \in Changes /\ outbox[c][i] \in Changes
    BY <1>0, <1>2, RowNumbers
  <2>2. i \in Nat \ {0} /\ \A n \in DOMAIN outbox[c] : n \in Nat
    BY <1>0, RowNumbers DEF DeliveryTypeOK
  <2> QED
    BY <1>2, <1>3, <2>1, <2>2 DEF Changes
<1>5. ~(i < k)
  <2>1. i < k => outbox[c][i].upTo < outbox[c][k].upTo
    BY <1>0, <1>2, <1>4 DEF ReadsAdvance
  <2> QED
    BY <1>2, <1>4, <2>1
<1>6. k < i
  BY <1>4, <1>5
<1>7. \A n \in DOMAIN outbox[c] :
         outbox[c][n].kind = "removed" /\ u \in outbox[c][n].to => n < i
  BY <1>1, <1>4, <1>6 DEF Current
<1> QED
  BY <1>7 DEF Current

(* A writer that appends. *)
LEMMA AppendCarries ==
  ASSUME DeliveryInv, NEW u \in Users, NEW p \in Nat, p <= stream[u].position,
         NEW b \in Conversations, NEW i \in DOMAIN outbox[b], u \in outbox[b][i].to,
         ~Has(u, b, i), UNCHANGED <<conv, outbox>>,
         NEW n, n = stream[u].position + 1,
         stream'[u].applied = stream[u].applied \cup {Mark(b, i, n)},
         \A e \in stream'[u].entries : e \in stream[u].entries \/ e = Entry(b, i, n),
         Entry(b, i, n) \in stream'[u].entries,
         \A o \in stream[u].entries :
            \/ o \in stream'[u].entries
            \/ /\ o.conv = b /\ o.kind = "read" /\ outbox[b][i].kind = "read"
               /\ ~(o.upTo >= outbox[b][i].upTo),
         NEW c \in Conversations
  PROVE  Carried(u, p, c)
<1>0. DeliveryTypeOK /\ OncePerChange /\ EntriesMirror
  BY DEF DeliveryInv, OrderInv, StreamsInv
<1>1. /\ Entry(b, i, n).conv = b /\ Entry(b, i, n).change = i /\ Entry(b, i, n).position = n
      /\ Mark(b, i, n).conv = b /\ Mark(b, i, n).change = i
  BY DEF Entry, Mark
<1>2. n > p
  BY <1>0, StreamFacts
<1>3. \A j : Has(u, c, j)' <=> Has(u, c, j) \/ (c = b /\ j = i)
  BY <1>1 DEF Has
<1>4. \A j : Owed(c, j, u)' <=> Owed(c, j, u)
  BY DEF Owed, Stays
<1>5. Coming(u, p, b, i)'
  <2>1. \E e \in stream'[u].entries : e.conv = b /\ e.change = i /\ e.position > p
    BY <1>1, <1>2
  <2>2. Has(u, b, i)'
    BY <1>1 DEF Has
  <2> QED
    BY <2>1, <2>2 DEF Coming
<1>6. ASSUME NEW j \in DOMAIN outbox[c], Coming(u, p, c, j)
      PROVE  \/ Coming(u, p, c, j)'
             \/ /\ c = b /\ outbox[c][j].kind = "read" /\ outbox[b][i].kind = "read"
                /\ Current(c, j, u) => Current(b, i, u)
  <2>1. CASE ~Has(u, c, j) /\ ~(c = b /\ j = i)
    BY <1>3, <1>4, <1>6, <2>1 DEF Coming
  <2>2. CASE c = b /\ j = i
    BY <1>5, <2>2
  <2>3. CASE Has(u, c, j)
    <3>1. PICK e \in stream[u].entries : e.conv = c /\ e.change = j /\ e.position > p
      BY <1>6, <2>3 DEF Coming
    <3>2. CASE e \in stream'[u].entries
      BY <1>3, <1>6, <2>3, <3>1, <3>2 DEF Coming
    <3>3. CASE e \notin stream'[u].entries
      <4>1. /\ e.conv = b /\ e.kind = "read" /\ outbox[b][i].kind = "read"
            /\ ~(e.upTo >= outbox[b][i].upTo)
        BY <3>3
      <4>2. outbox[c][j].kind = "read"
        BY <1>0, <3>1, <4>1 DEF EntriesMirror
      <4>3. Current(c, j, u) => Current(b, i, u)
        BY <3>1, <4>1, ReplacedByNewer
      <4> QED
        BY <3>1, <4>1, <4>2, <4>3
    <3> QED
      BY <3>2, <3>3
  <2> QED
    BY <2>1, <2>2, <2>3
<1>7. ASSUME NEW j \in DOMAIN outbox[c], Coming(u, p, c, j)', outbox'[c][j].kind = "removed"
      PROVE  Coming(u, p, c, j)
  <2>1. u \in outbox[c][j].to /\ Owed(c, j, u)
    BY <1>7 DEF Coming, Owed
  <2>2. CASE ~Has(u, c, j)
    BY <2>1, <2>2 DEF Coming
  <2>3. CASE Has(u, c, j)
    <3>1. ~(c = b /\ j = i)
      BY <2>3
    <3>2. PICK e \in stream'[u].entries : e.conv = c /\ e.change = j /\ e.position > p
      BY <1>3, <1>7, <2>3 DEF Coming
    <3>3. e \in stream[u].entries
      BY <1>1, <3>1, <3>2
    <3> QED
      BY <2>1, <2>3, <3>2, <3>3 DEF Coming
  <2> QED
    BY <2>2, <2>3
<1> QED
  BY <1>5, <1>6, <1>7 DEF Carried

LEMMA BatchCarries ==
  ASSUME DeliveryInv, NEW w \in Writers, NEW b \in Conversations, writer[w][b].read,
         BatchInsert(w, b), UNCHANGED <<conv, outbox>>, NEW u \in Users,
         NEW p \in Nat, p <= stream[u].position, NEW c \in Conversations
  PROVE  Carried(u, p, c)
<1>0. DeliveryTypeOK /\ OncePerChange
  BY DEF DeliveryInv, OrderInv, StreamsInv
<1>1. PICK i : i = partition[b][writer[w][b].next]
  OBVIOUS
<1>2. /\ i \in DOMAIN outbox[b] /\ outbox[b][i] \in Changes
      /\ \/ stream'[u] = stream[u]
         \/ u \in outbox[b][i].to /\ stream'[u] = Insert(stream[u], b, i)
  BY <1>1, BatchFacts
<1>3. RowsKept /\ Rests(c)
  BY DEF RowsKept, Rests
<1>4. CASE stream'[u] = stream[u]
  BY <1>3, <1>4, QuietCarries
<1>5. CASE u \in outbox[b][i].to /\ stream'[u] = Insert(stream[u], b, i)
  <2> DEFINE s == stream[u]
             t == stream'[u]
             n == s.position + 1
  <2>1. s \in Streams
    BY <1>0, StreamFacts
  <2>2. \/ t = s
        \/ /\ ~Has(u, b, i) /\ outbox[b][i].kind = "read"
           /\ \E o \in s.entries :
                 o.conv = b /\ o.kind = "read" /\ o.upTo >= outbox[b][i].upTo
           /\ t.entries = s.entries /\ t.applied = s.applied \cup {Mark(b, i, 0)}
        \/ /\ ~Has(u, b, i)
           /\ t.applied = s.applied \cup {Mark(b, i, n)}
           /\ \A e \in t.entries : e \in s.entries \/ e = Entry(b, i, n)
           /\ Entry(b, i, n) \in t.entries
           /\ \A o \in s.entries :
                 \/ o \in t.entries
                 \/ /\ o.conv = b /\ o.kind = "read" /\ outbox[b][i].kind = "read"
                    /\ ~(o.upTo >= outbox[b][i].upTo)
    BY <1>2, <1>5, <2>1, InsertFields DEF Has
  <2>3. CASE t = s
    BY <1>4, <2>3
  <2>4. CASE /\ ~Has(u, b, i) /\ outbox[b][i].kind = "read"
             /\ \E o \in s.entries :
                   o.conv = b /\ o.kind = "read" /\ o.upTo >= outbox[b][i].upTo
             /\ t.entries = s.entries /\ t.applied = s.applied \cup {Mark(b, i, 0)}
    <3>1. ~Owed(b, i, u)
      BY <1>2, <1>5, <2>4, OvertakenNotOwed
    <3>0. /\ stream'[u].applied = stream[u].applied \cup {Mark(b, i, 0)}
          /\ Mark(b, i, 0).conv = b /\ Mark(b, i, 0).change = i
      BY <2>4 DEF Mark
    <3>2. \A j : Has(u, c, j)' <=> Has(u, c, j) \/ (c = b /\ j = i)
      BY <3>0 DEF Has
    <3>3. \A j : Owed(c, j, u)' <=> Owed(c, j, u)
      BY DEF Owed, Stays
    <3>4. \A e \in s.entries : ~(e.conv = b /\ e.change = i)
      BY <1>0, <2>4 DEF OncePerChange, Has
    <3>5. ~Coming(u, p, b, i) /\ ~Coming(u, p, b, i)'
      <4>1. ~Coming(u, p, b, i)
        BY <2>4, <3>1 DEF Coming
      <4>2. Has(u, b, i)'
        BY <3>0 DEF Has
      <4>3. ~Coming(u, p, b, i)'
        BY <2>4, <3>4, <4>2 DEF Coming
      <4> QED
        BY <4>1, <4>3
    <3>6. ASSUME NEW j \in DOMAIN outbox[c]
          PROVE  Coming(u, p, c, j)' <=> Coming(u, p, c, j)
      <4>1. CASE c = b /\ j = i
        BY <3>5, <4>1
      <4>2. CASE ~(c = b /\ j = i)
        BY <2>4, <3>2, <3>3, <4>2 DEF Coming
      <4> QED
        BY <4>1, <4>2
    <3> QED
      BY <3>6 DEF Carried
  <2>5. CASE /\ ~Has(u, b, i)
             /\ t.applied = s.applied \cup {Mark(b, i, n)}
             /\ \A e \in t.entries : e \in s.entries \/ e = Entry(b, i, n)
             /\ Entry(b, i, n) \in t.entries
             /\ \A o \in s.entries :
                   \/ o \in t.entries
                   \/ /\ o.conv = b /\ o.kind = "read" /\ outbox[b][i].kind = "read"
                      /\ ~(o.upTo >= outbox[b][i].upTo)
    BY <1>2, <1>5, <2>5, AppendCarries
  <2> QED
    BY <2>2, <2>3, <2>4, <2>5
<1> QED
  BY <1>2, <1>4, <1>5

(* What is coming of a conversation that rests stays coming. *)
LEMMA StepCarries ==
  ASSUME DeliveryInv, [DeliveryNext]_deliveryVars, NEW u \in Users,
         NEW p \in Nat, p <= stream[u].position, p >= stream'[u].retained,
         NEW c \in Conversations, Rests(c)
  PROVE  Carried(u, p, c)
<1>0. DeliveryTypeOK /\ RowsKept
  BY StepOnward DEF DeliveryInv, OrderInv, Onward
<1>1. CASE UNCHANGED stream
  BY <1>0, <1>1, QuietCarries
<1>2. ASSUME NEW w \in Writers, NEW b \in Conversations, WriterStep(w, b)
      PROVE  Carried(u, p, c)
  <2>1. UNCHANGED <<conv, outbox>>
        /\ \/ UNCHANGED stream
           \/ BatchInsert(w, b) /\ writer[w][b].read
    BY <1>2 DEF WriterStep, ReadMembers, WriteInbox, WriteInboxFails, CommitOffset,
                Rebalance, Leave
  <2> QED
    BY <1>1, <2>1, BatchCarries
<1>3. ASSUME NEW v \in Aging, Expire(v) \/ PruneStream(v) PROVE Carried(u, p, c)
  <2>1. v \in Users
    BY DeliveryAssumption
  <2>2. CASE v # u
    <3>1. stream'[u] = stream[u]
      BY <1>0, <1>3, <2>1, <2>2, RetentionFields
    <3> QED
      BY <1>0, <3>1, QuietCarries
  <2>3. CASE v = u
    <3>1. /\ stream'[u].applied = stream[u].applied
          /\ \/ stream'[u].entries = stream[u].entries
             \/ /\ stream'[u].retained = Larger(stream[u].retained, stream[u].expired)
                /\ stream'[u].entries
                   = {e \in stream[u].entries : e.position > stream[u].expired}
      BY <1>0, <1>3, <2>1, <2>3, RetentionFields
    <3>2. CASE stream'[u].entries = stream[u].entries
      BY <1>0, <3>1, <3>2, QuietCarries
    <3>3. CASE /\ stream'[u].retained = Larger(stream[u].retained, stream[u].expired)
               /\ stream'[u].entries
                  = {e \in stream[u].entries : e.position > stream[u].expired}
      <4>1. /\ stream[u].retained \in Nat /\ stream[u].expired \in Nat
            /\ \A e \in stream[u].entries : e.position \in Nat
        BY <1>0, StreamFacts
      <4>2. p >= stream[u].expired
        BY <3>3, <4>1 DEF Larger
      <4>3. \A e \in stream[u].entries : e.position > p => e \in stream'[u].entries
        BY <3>3, <4>1, <4>2
      <4> QED
        BY <1>0, <3>1, <3>3, <4>3, QuietCarries
    <3> QED
      BY <3>1, <3>2, <3>3
  <2> QED
    BY <2>2, <2>3
<1>4. ASSUME NEW b \in Conversations, MutateSome(b) PROVE UNCHANGED stream
  BY <1>0, <1>4, MutationsTell DEF Tells
<1>5. ASSUME NEW d \in Dispatchers, DispatcherStep(d) PROVE UNCHANGED stream
  BY <1>5 DEF DispatcherStep, CommitBatch, RollBackBatch, Dispatch, DispatchFails
<1> QED
  BY <1>1, <1>2, <1>3, <1>4, <1>5 DEF DeliveryNext, deliveryVars

-----------------------------------------------------------------------------
(* A cache keeps what it promises while its device rests                    *)

LEMMA RestFollowed ==
  ASSUME NEW u \in Users, NEW p, NEW c \in Conversations, NEW cache, Rests(c), RowsKept,
         Carried(u, p, c), ConvFollowed(u, p, c, cache)
  PROVE  ConvFollowed(u, p, c, cache)'
<1>1. /\ conv'[c] = conv[c] /\ DOMAIN outbox'[c] = DOMAIN outbox[c]
      /\ \A i \in DOMAIN outbox[c] :
            /\ outbox'[c][i].kind = outbox[c][i].kind /\ outbox'[c][i].to = outbox[c][i].to
            /\ outbox'[c][i].message = outbox[c][i].message
  BY DEF Rests, RowsKept
<1>2. Leaving(u, p, c)' <=> Leaving(u, p, c)
  BY <1>1 DEF Leaving, Carried
<1>3. \A j \in DOMAIN outbox[c] : Current(c, j, u)' <=> Current(c, j, u)
  BY <1>1 DEF Current
<1>4. \A j \in DOMAIN outbox[c] : \A m : About(c, j, m)' <=> About(c, j, m)
  BY <1>1 DEF About
<1>5. \A j \in DOMAIN outbox[c] : \A m :
         Coming(u, p, c, j) /\ About(c, j, m) => Coming(u, p, c, j)'
  BY DEF Carried, About, MessageKinds
<1>6. Visible(c, u)' = Visible(c, u) /\ \A m : Shown(c, m)' = Shown(c, m)
  BY <1>1 DEF Visible, Shown
<1>7. CASE u \notin conv[c].members
  <2>1. LeftBehind(u, p, c, cache)'
    BY <1>2, <1>7 DEF ConvFollowed, LeftBehind
  <2> QED
    BY <1>1, <1>7, <2>1 DEF ConvFollowed
<1>8. CASE u \in conv[c].members
  <2>1. RowShown(u, p, c, cache)'
    <3>1. RowShown(u, p, c, cache)
      BY <1>8 DEF ConvFollowed
    <3>2. CASE \E j \in DOMAIN outbox[c] : Coming(u, p, c, j) /\ Current(c, j, u)
      BY <1>1, <1>3, <3>2 DEF Carried, RowShown
    <3> QED
      BY <1>1, <1>2, <3>1, <3>2 DEF RowShown
  <2>2. NothingStale(u, p, c, cache)'
    BY <1>1, <1>2, <1>4, <1>5, <1>6, <1>8 DEF ConvFollowed, NothingStale
  <2>3. Len(conv[c].messages) <= Limit => NothingMissing(u, p, c, cache)'
    <3>1. ASSUME NothingMissing(u, p, c, cache), NEW m \in Visible(c, u),
                 m > conv[c].joined[u]
          PROVE  \/ Shown(c, m) \in cache.messages[c] /\ ~Leaving(u, p, c)
                 \/ \E j \in DOMAIN outbox[c] :
                       Coming(u, p, c, j)' /\ Current(c, j, u) /\ About(c, j, m)
      BY <1>5, <3>1 DEF NothingMissing
    <3>2. NothingMissing(u, p, c, cache) => NothingMissing(u, p, c, cache)'
      BY <1>1, <1>2, <1>3, <1>4, <1>6, <3>1 DEF NothingMissing
    <3> QED
      BY <1>8, <3>2 DEF ConvFollowed
  <2> QED
    BY <1>1, <1>8, <2>1, <2>2, <2>3 DEF ConvFollowed
<1> QED
  BY <1>7, <1>8

(* What comes of a conversation that mutates: whatever did, and to members  *)
(* what is published.                                                       *)
LEMMA MutationComes ==
  ASSUME DeliveryInv, DeliveryTypeOK', NEW c \in Conversations, Mutated(c),
         NEW u \in Users, NEW p
  PROVE  /\ \A i \in DOMAIN outbox[c] :
               /\ u \in conv'[c].members => (Coming(u, p, c, i) => Coming(u, p, c, i)')
               /\ outbox[c][i].kind = "removed" =>
                     (Coming(u, p, c, i) <=> Coming(u, p, c, i)')
         /\ \A j \in New(c) : u \in outbox'[c][j].to =>
               /\ j \in DOMAIN outbox'[c]
               /\ outbox'[c][j].kind = "removed" => Coming(u, p, c, j)'
               /\ u \in conv'[c].members =>
                     /\ Coming(u, p, c, j)' /\ Current(c, j, u)'
                     /\ outbox'[c][j].kind # "removed"
<1>0. DeliveryTypeOK /\ EntriesMirror /\ UNCHANGED stream
  BY DEF DeliveryInv, OrderInv, StreamsInv, Mutated, Appended
<1>1. \A i : Has(u, c, i)' <=> Has(u, c, i)
  BY <1>0 DEF Has
<1>2. ASSUME NEW i \in DOMAIN outbox[c]
      PROVE  /\ u \in conv'[c].members => (Coming(u, p, c, i) => Coming(u, p, c, i)')
             /\ outbox[c][i].kind = "removed" =>
                   (Coming(u, p, c, i) <=> Coming(u, p, c, i)')
  <2>1. /\ i \in DOMAIN outbox'[c]
        /\ outbox'[c][i].kind = outbox[c][i].kind /\ outbox'[c][i].to = outbox[c][i].to
    BY OldRow
  <2>2. outbox[c][i].kind = "removed" => (Owed(c, i, u) <=> Owed(c, i, u)')
    BY <2>1 DEF Owed
  <2>3. u \in conv'[c].members => (Owed(c, i, u) => Owed(c, i, u)')
    BY <1>0, <2>1, StaysOld DEF Owed
  <2> QED
    BY <1>0, <1>1, <2>1, <2>2, <2>3 DEF Coming
<1>3. ASSUME NEW j \in New(c), u \in outbox'[c][j].to
      PROVE  /\ j \in DOMAIN outbox'[c]
             /\ outbox'[c][j].kind = "removed" => Coming(u, p, c, j)'
             /\ u \in conv'[c].members =>
                   /\ Coming(u, p, c, j)' /\ Current(c, j, u)'
                   /\ outbox'[c][j].kind # "removed"
  <2>1. j \in DOMAIN outbox'[c] /\ j \notin DOMAIN outbox[c]
    BY DEF New
  <2>2. ~Has(u, c, j)'
    BY <1>0, <1>1, <2>1, HadRows
  <2>3. Owed(c, j, u)' => Coming(u, p, c, j)'
    BY <1>3, <2>1, <2>2 DEF Coming
  <2>4. outbox'[c][j].kind = "removed" => Owed(c, j, u)'
    BY <1>3 DEF Owed
  <2>5. u \in conv'[c].members =>
           Current(c, j, u)' /\ Owed(c, j, u)' /\ outbox'[c][j].kind # "removed"
    BY <1>0, <1>3, CurrentNew DEF Owed
  <2> QED
    BY <2>1, <2>3, <2>4, <2>5
<1> QED
  BY <1>2, <1>3

LEMMA MutationFollowed ==
  ASSUME DeliveryInv, DeliveryTypeOK', NEW c \in Conversations, Mutated(c),
         NEW u \in Users, NEW p, NEW cache, ConvFollowed(u, p, c, cache)
  PROVE  ConvFollowed(u, p, c, cache)'
<1>0. DeliveryTypeOK
  BY DEF DeliveryInv, OrderInv
<1>1. /\ \A i \in DOMAIN outbox[c] :
            /\ u \in conv'[c].members => (Coming(u, p, c, i) => Coming(u, p, c, i)')
            /\ outbox[c][i].kind = "removed" =>
                  (Coming(u, p, c, i) <=> Coming(u, p, c, i)')
      /\ \A j \in New(c) : u \in outbox'[c][j].to =>
            /\ j \in DOMAIN outbox'[c]
            /\ outbox'[c][j].kind = "removed" => Coming(u, p, c, j)'
            /\ u \in conv'[c].members =>
                  /\ Coming(u, p, c, j)' /\ Current(c, j, u)'
                  /\ outbox'[c][j].kind # "removed"
  BY MutationComes
<1>2. \A i \in DOMAIN outbox[c] :
         /\ i \in DOMAIN outbox'[c]
         /\ outbox'[c][i].kind = outbox[c][i].kind /\ outbox'[c][i].to = outbox[c][i].to
         /\ outbox'[c][i].message = outbox[c][i].message
  BY OldRow
<1>3. Leaving(u, p, c) => Leaving(u, p, c)'
  BY <1>1, <1>2 DEF Leaving
<1>4. CASE u \notin conv'[c].members
  <2>1. LeftBehind(u, p, c, cache)'
    <3>1. CASE u \in conv[c].members
      <4>1. PICK j \in New(c) : u \in outbox'[c][j].to /\ outbox'[c][j].kind = "removed"
        BY <1>4, <3>1 DEF Mutated, MembershipTold
      <4>2. Leaving(u, p, c)'
        BY <1>1, <4>1 DEF Leaving
      <4> QED
        BY <4>2 DEF LeftBehind
    <3>2. CASE u \notin conv[c].members
      <4>1. LeftBehind(u, p, c, cache)
        BY <3>2 DEF ConvFollowed
      <4> QED
        BY <1>3, <4>1 DEF LeftBehind
    <3> QED
      BY <3>1, <3>2
  <2> QED
    BY <1>4, <2>1 DEF ConvFollowed
<1>5. CASE u \in conv'[c].members
  <2>1. \A i \in DOMAIN outbox'[c] : i \in DOMAIN outbox[c] \/ i \in New(c)
    BY DEF New
  <2>2. Leaving(u, p, c)' => Leaving(u, p, c)
    <3>1. ASSUME NEW i \in DOMAIN outbox'[c], Coming(u, p, c, i)',
                 outbox'[c][i].kind = "removed"
          PROVE  Leaving(u, p, c)
      <4>1. u \in outbox'[c][i].to
        BY <3>1 DEF Coming
      <4>2. i \in DOMAIN outbox[c]
        BY <1>1, <1>5, <2>1, <3>1, <4>1
      <4>3. Coming(u, p, c, i) /\ outbox[c][i].kind = "removed"
        BY <1>1, <1>2, <3>1, <4>2
      <4> QED
        BY <4>2, <4>3 DEF Leaving
    <3> QED
      BY <3>1 DEF Leaving
  <2>3. ASSUME NEW j \in DOMAIN outbox[c], Coming(u, p, c, j)
        PROVE  /\ j \in DOMAIN outbox'[c] /\ Coming(u, p, c, j)'
               /\ Current(c, j, u) => Current(c, j, u)'
               /\ \A m : About(c, j, m) => About(c, j, m)'
    BY <1>0, <1>1, <1>2, <1>5, <2>3, CurrentOld DEF About
  <2>4. RowShown(u, p, c, cache)'
    <3>1. ASSUME NEW j \in New(c), u \in outbox'[c][j].to PROVE RowShown(u, p, c, cache)'
      BY <1>1, <1>5, <3>1 DEF RowShown
    <3>2. CASE u \notin conv[c].members
      <4>1. \E j \in New(c) : u \in outbox'[c][j].to
        BY <1>5, <3>2 DEF Mutated, MembershipTold
      <4> QED
        BY <3>1, <4>1
    <3>3. CASE u \in conv[c].members /\ conv'[c].read[u] = conv[c].read[u]
      <4>1. RowShown(u, p, c, cache)
        BY <3>3 DEF ConvFollowed
      <4>2. CASE \E j \in DOMAIN outbox[c] : Coming(u, p, c, j) /\ Current(c, j, u)
        BY <2>3, <4>2 DEF RowShown
      <4> QED
        BY <2>2, <3>3, <4>1, <4>2 DEF RowShown
    <3> QED
      BY <1>5, <3>1, <3>2, <3>3 DEF Mutated, MembershipTold
  <2>5. NothingStale(u, p, c, cache)'
    <3> SUFFICES ASSUME NEW old \in cache.messages[c]
                 PROVE  \/ old.id \in Visible(c, u)' /\ old = Shown(c, old.id)'
                        \/ Leaving(u, p, c)'
                        \/ \E j \in DOMAIN outbox'[c] :
                              Coming(u, p, c, j)' /\ About(c, j, old.id)'
      BY DEF NothingStale
    <3>1. CASE u \notin conv[c].members
      <4>1. LeftBehind(u, p, c, cache)
        BY <3>1 DEF ConvFollowed
      <4> QED
        BY <1>3, <4>1 DEF LeftBehind
    <3>2. CASE u \in conv[c].members
      <4>1. NothingStale(u, p, c, cache)
        BY <3>2 DEF ConvFollowed
      <4>2. CASE Leaving(u, p, c)
        BY <1>3, <4>2
      <4>3. CASE \E j \in DOMAIN outbox[c] : Coming(u, p, c, j) /\ About(c, j, old.id)
        BY <2>3, <4>3
      <4>4. CASE old.id \in Visible(c, u) /\ old = Shown(c, old.id)
        <5>0. PICK m : m = old.id
          OBVIOUS
        <5>1. m \in DOMAIN conv[c].messages /\ m \in DOMAIN conv'[c].messages
          BY <4>4, <5>0 DEF Visible, Mutated, MessagesStay
        <5>2. CASE SameFor(u, conv[c].messages[m], conv'[c].messages[m])
          <6>1. m \in Visible(c, u)' /\ Shown(c, m)' = Shown(c, m)
            BY <4>4, <5>0, <5>1, <5>2 DEF SameFor, Visible, Shown
          <6> QED
            BY <4>4, <5>0, <6>1
        <5>3. CASE \E j \in New(c) : /\ u \in outbox'[c][j].to
                                     /\ outbox'[c][j].kind \in MessageKinds
                                     /\ outbox'[c][j].message = m
          BY <1>1, <1>5, <5>0, <5>3 DEF About
        <5> QED
          BY <1>5, <3>2, <5>1, <5>2, <5>3 DEF Mutated, MessagesTold
      <4> QED
        BY <4>1, <4>2, <4>3, <4>4 DEF NothingStale
    <3> QED
      BY <3>1, <3>2
  <2>6. ASSUME Len(conv'[c].messages) <= Limit PROVE NothingMissing(u, p, c, cache)'
    <3> SUFFICES ASSUME NEW m \in Visible(c, u)', m > conv'[c].joined[u]
                 PROVE  \/ Shown(c, m)' \in cache.messages[c] /\ ~Leaving(u, p, c)'
                        \/ \E j \in DOMAIN outbox'[c] :
                              Coming(u, p, c, j)' /\ Current(c, j, u)' /\ About(c, j, m)'
      BY DEF NothingMissing
    <3>1. m \in DOMAIN conv'[c].messages /\ m \in Nat
      BY DEF Visible, DeliveryTypeOK, ConversationRows
    <3>2. CASE m \notin DOMAIN conv[c].messages
      <4>1. PICK j \in New(c) : /\ conv'[c].members \subseteq outbox'[c][j].to
                                /\ outbox'[c][j].kind = "new" /\ outbox'[c][j].message = m
        BY <3>1, <3>2 DEF Mutated, MessagesTold
      <4> QED
        BY <1>1, <1>5, <4>1 DEF About, MessageKinds
    <3>3. CASE m \in DOMAIN conv[c].messages /\ u \notin conv[c].members
      <4>1. conv'[c].joined[u] = Len(conv[c].messages)
        BY <1>5, <3>3 DEF Mutated, MembershipTold
      <4>2. /\ Len(conv[c].messages) \in Nat
            /\ DOMAIN conv[c].messages = 1 .. Len(conv[c].messages)
        BY <1>0, ConvFields
      <4>3. m <= Len(conv[c].messages)
        BY <3>3, <4>2
      <4> QED
        BY <3>1, <4>1, <4>2, <4>3
    <3>4. CASE m \in DOMAIN conv[c].messages /\ u \in conv[c].members
      <4>1. Len(conv[c].messages) <= Limit
        <5>1. /\ Len(conv[c].messages) \in Nat
              /\ DOMAIN conv[c].messages = 1 .. Len(conv[c].messages)
              /\ Len(conv'[c].messages) \in Nat
              /\ DOMAIN conv'[c].messages = 1 .. Len(conv'[c].messages)
          <6>1. conv'[c] \in ConversationRows
            BY DEF DeliveryTypeOK
          <6>2. conv'[c].messages \in Seq(Messages)
            BY <6>1 DEF ConversationRows
          <6> QED
            BY <1>0, <6>2, ConvFields
        <5>2. \A n \in DOMAIN conv[c].messages : n \in DOMAIN conv'[c].messages
          BY DEF Mutated, MessagesStay
        <5>3. Len(conv[c].messages) <= Len(conv'[c].messages)
          BY <5>1, <5>2
        <5> QED
          BY <2>6, <5>1, <5>3, SyncAssumption
      <4>2. m \in Visible(c, u)
        BY <3>4, HiddenStays DEF Mutated
      <4>3. conv'[c].joined[u] = conv[c].joined[u]
        BY <1>5, <3>4 DEF Mutated, MembershipTold
      <4>4. \/ Shown(c, m) \in cache.messages[c] /\ ~Leaving(u, p, c)
            \/ \E j \in DOMAIN outbox[c] :
                  Coming(u, p, c, j) /\ Current(c, j, u) /\ About(c, j, m)
        BY <3>4, <4>1, <4>2, <4>3 DEF ConvFollowed, NothingMissing
      <4>5. CASE \E j \in DOMAIN outbox[c] :
                    Coming(u, p, c, j) /\ Current(c, j, u) /\ About(c, j, m)
        BY <2>3, <4>5
      <4>6. CASE Shown(c, m) \in cache.messages[c] /\ ~Leaving(u, p, c)
        <5>1. CASE SameFor(u, conv[c].messages[m], conv'[c].messages[m])
          <6>1. Shown(c, m)' = Shown(c, m)
            BY <5>1 DEF SameFor, Shown
          <6> QED
            BY <2>2, <4>6, <6>1
        <5>2. CASE \E j \in New(c) : /\ u \in outbox'[c][j].to
                                     /\ outbox'[c][j].kind \in MessageKinds
                                     /\ outbox'[c][j].message = m
          BY <1>1, <1>5, <5>2 DEF About
        <5> QED
          BY <1>5, <3>4, <5>1, <5>2 DEF Mutated, MessagesTold
      <4> QED
        BY <4>4, <4>5, <4>6
    <3> QED
      BY <3>2, <3>3, <3>4
  <2> QED
    BY <1>5, <2>4, <2>5, <2>6 DEF ConvFollowed
<1> QED
  BY <1>4, <1>5

(* Deletions and recalls stand. *)
LEMMA ForEverKept ==
  ASSUME NEW u, NEW c \in Conversations, NEW cache, Rests(c) \/ Mutated(c),
         ForEver(u, c, cache)
  PROVE  ForEver(u, c, cache)'
<1>1. CASE Rests(c)
  BY <1>1 DEF Rests, ForEver, Visible
<1>2. CASE Mutated(c)
  <2>1. \A m \in DOMAIN conv[c].messages :
           /\ m \in DOMAIN conv'[c].messages
           /\ m \notin Visible(c, u) => m \notin Visible(c, u)'
           /\ conv[c].messages[m].recalled => conv'[c].messages[m].recalled
    BY <1>2, HiddenStays DEF Mutated, MessagesStay
  <2> QED
    BY <2>1 DEF ForEver
<1> QED
  BY <1>1, <1>2

LEMMA CacheRests ==
  ASSUME DeliveryInv, [DeliveryNext]_deliveryVars, NEW u \in Users, NEW p \in Nat,
         p <= stream[u].position, NEW cache, CacheInv(u, p, cache)
  PROVE  CacheInv(u, p, cache)'
<1>0. DeliveryTypeOK
  BY DEF DeliveryInv, OrderInv
<1>1. DeliveryTypeOK' /\ RowsKept
  BY <1>0, StepTyped, RestsOrMutates
<1>2. \A c \in Conversations : Rests(c) \/ Mutated(c)
  BY <1>0, RestsOrMutates
<1>3. \A c \in Conversations : ForEver(u, c, cache)'
  BY <1>2, ForEverKept DEF CacheInv
<1>4. ASSUME p > 0, p >= stream'[u].retained, NEW c \in Conversations
      PROVE  ConvFollowed(u, p, c, cache)'
  <2>1. p >= stream[u].retained
    <3>1. stream[u].retained \in Nat /\ stream'[u].retained \in Nat
      BY <1>0, <1>1, StreamFacts DEF DeliveryTypeOK, Streams
    <3>2. stream[u].retained <= stream'[u].retained
      BY <1>0, StreamsGrow
    <3> QED
      BY <1>4, <3>1, <3>2
  <2>2. ConvFollowed(u, p, c, cache)
    BY <1>4, <2>1 DEF CacheInv
  <2>3. CASE Rests(c)
    <3>1. Carried(u, p, c)
      BY <1>4, <2>3, StepCarries
    <3> QED
      BY <1>1, <2>2, <2>3, <3>1, RestFollowed
  <2>4. CASE Mutated(c)
    BY <1>1, <2>2, <2>4, MutationFollowed
  <2> QED
    BY <1>2, <2>3, <2>4
<1> QED
  BY <1>3, <1>4 DEF CacheInv

(* Nobody follows a stream that is not opened yet. *)
LEMMA CacheOpens ==
  ASSUME FollowInv, NEW d \in Devices, EnsureStream(d), NEW u \in Users, NEW p \in Nat,
         p <= stream[u].position, NEW cache, CacheInv(u, p, cache)
  PROVE  CacheInv(u, p, cache)'
<1>1. UNCHANGED <<conv, outbox>>
  BY DEF EnsureStream
<1>2. \A c \in Conversations : ForEver(u, c, cache)'
  BY <1>1 DEF CacheInv, ForEver, Visible
<1>3. CASE u = UserOf[d]
  <2>1. p = 0
    BY <1>3, EnsureFields DEF FollowInv
  <2> QED
    BY <1>2, <2>1 DEF CacheInv
<1>4. CASE u # UserOf[d]
  <2>1. stream'[u] = stream[u]
    BY <1>4, EnsureFields DEF FollowInv
  <2>2. RowsKept /\ \A c \in Conversations : Rests(c)
    BY <1>1 DEF RowsKept, Rests
  <2>3. \A c \in Conversations : Carried(u, p, c)
    BY <2>1, <2>2, QuietCarries
  <2>4. ASSUME p > 0, p >= stream'[u].retained, NEW c \in Conversations
        PROVE  ConvFollowed(u, p, c, cache)'
    <3>1. ConvFollowed(u, p, c, cache)
      BY <2>1, <2>4 DEF CacheInv
    <3> QED
      BY <2>2, <2>3, <3>1, RestFollowed
  <2> QED
    BY <1>2, <2>4 DEF CacheInv
<1> QED
  BY <1>3, <1>4

-----------------------------------------------------------------------------
(* A removal that is coming                                                 *)

(* What was published for a member after a removal comes after it.          *)
LEMMA LeavingLater ==
  ASSUME DeliveryInv, NEW u \in Users, NEW k \in Nat, k >= stream[u].retained,
         NEW c \in Conversations, Leaving(u, k, c), u \in conv[c].members,
         NEW j \in DOMAIN outbox[c], Current(c, j, u), outbox[c][j].kind # "read"
  PROVE  Coming(u, k, c, j)
<1>0. /\ DeliveryTypeOK /\ OncePerChange /\ EntriesMirror /\ Retained
      /\ OwedInOrder /\ RemovalsInOrder /\ MembersTold
  BY DEF DeliveryInv, OrderInv, StreamsInv, OrderedInv, RowsInv
<1>1. PICK i \in DOMAIN outbox[c] : Coming(u, k, c, i) /\ outbox[c][i].kind = "removed"
  BY DEF Leaving
<1>2. u \in outbox[c][i].to /\ Owed(c, i, u)
  BY <1>1 DEF Coming, Owed
<1>3. i < j /\ u \in outbox[c][j].to
  BY <1>1, <1>2 DEF Current
<1>4. Owed(c, j, u)
  BY <1>0, <1>3 DEF MembersTold, Owed
<1>5. CASE ~Has(u, c, j)
  BY <1>3, <1>4, <1>5 DEF Coming
<1>6. CASE Has(u, c, j)
  <2>1. Has(u, c, i)
    BY <1>0, <1>2, <1>3, <1>6 DEF OwedInOrder
  <2>2. PICK a \in stream[u].applied : a.conv = c /\ a.change = i
    BY <2>1 DEF Has
  <2>3. PICK b \in stream[u].applied : b.conv = c /\ b.change = j
    BY <1>6 DEF Has
  <2>4. a.position > k
    <3>1. PICK e \in stream[u].entries : e.conv = c /\ e.change = i /\ e.position > k
      BY <1>1, <2>1 DEF Coming
    <3>2. e.position = a.position
      BY <1>0, <2>2, <3>1 DEF OncePerChange
    <3> QED
      BY <3>1, <3>2
  <2>5. b.position # 0
    BY <1>0, <2>3 DEF EntriesMirror
  <2>6. a.position < b.position
    BY <1>0, <1>1, <1>3, <2>2, <2>3, <2>5 DEF RemovalsInOrder
  <2>7. b.position > k /\ b.position > stream[u].retained
    <3>1. a.position \in Nat /\ b.position \in Nat /\ stream[u].retained \in Nat
      BY <1>0, StreamFacts
    <3> QED
      BY <2>4, <2>6, <3>1
  <2>8. PICK e \in stream[u].entries : e.conv = c /\ e.change = j /\ e.position = b.position
    BY <1>0, <2>3, <2>7 DEF Retained
  <2> QED
    BY <1>3, <1>6, <2>7, <2>8 DEF Coming
<1> QED
  BY <1>5, <1>6

(* So whoever has come back will be told of the conversation, and of every  *)
(* message since.                                                           *)
LEMMA LeavingTold ==
  ASSUME DeliveryInv, NEW u \in Users, NEW k \in Nat, k >= stream[u].retained,
         NEW c \in Conversations, Leaving(u, k, c), u \in conv[c].members
  PROVE  /\ \E j \in DOMAIN outbox[c] :
               /\ Coming(u, k, c, j) /\ Current(c, j, u) /\ outbox[c][j].kind # "removed"
         /\ \A m \in DOMAIN conv[c].messages : m > conv[c].joined[u] =>
               \E j \in DOMAIN outbox[c] :
                  /\ Coming(u, k, c, j) /\ Current(c, j, u) /\ About(c, j, m)
                  /\ outbox[c][j].kind # "removed"
<1>1. PICK i \in DOMAIN outbox[c] :
         Coming(u, k, c, i) /\ outbox[c][i].kind = "removed" /\ u \in outbox[c][i].to
  BY DEF Leaving, Coming
<1>2. ToldIn(c)
  BY RowsByConversation DEF DeliveryInv, RowsIn
<1>3. PICK j \in DOMAIN outbox[c] : Current(c, j, u) /\ outbox[c][j].kind = "upsert"
  BY <1>1, <1>2 DEF ToldIn
<1>4. Coming(u, k, c, j)
  BY <1>3, LeavingLater
<1>5. ASSUME NEW m \in DOMAIN conv[c].messages, m > conv[c].joined[u]
      PROVE  \E n \in DOMAIN outbox[c] :
                /\ Coming(u, k, c, n) /\ Current(c, n, u) /\ About(c, n, m)
                /\ outbox[c][n].kind # "removed"
  <2>1. PICK n \in DOMAIN outbox[c] : /\ Current(c, n, u) /\ outbox[c][n].kind = "new"
                                      /\ outbox[c][n].message = m
    BY <1>2, <1>5 DEF ToldIn
  <2>2. Coming(u, k, c, n)
    BY <2>1, LeavingLater
  <2> QED
    BY <2>1, <2>2 DEF About, MessageKinds
<1> QED
  BY <1>3, <1>4, <1>5

(* While a removal is coming, any cache will do. *)
LEMMA LeavingFollowed ==
  ASSUME DeliveryInv, NEW u \in Users, NEW k \in Nat, k >= stream[u].retained,
         NEW c \in Conversations, Leaving(u, k, c), NEW cache
  PROVE  ConvFollowed(u, k, c, cache)
<1>1. CASE u \notin conv[c].members
  BY <1>1 DEF ConvFollowed, LeftBehind
<1>2. CASE u \in conv[c].members
  <2>1. RowShown(u, k, c, cache)
    BY <1>2, LeavingTold DEF RowShown
  <2>2. NothingStale(u, k, c, cache)
    BY DEF NothingStale
  <2>3. NothingMissing(u, k, c, cache)
    <3>1. \A m \in Visible(c, u) : m > conv[c].joined[u] =>
             \E j \in DOMAIN outbox[c] :
                Coming(u, k, c, j) /\ Current(c, j, u) /\ About(c, j, m)
      BY <1>2, LeavingTold DEF Visible
    <3> QED
      BY <3>1 DEF NothingMissing
  <2> QED
    BY <1>2, <2>1, <2>2, <2>3 DEF ConvFollowed
<1> QED
  BY <1>1, <1>2

-----------------------------------------------------------------------------
(* One position of a page                                                   *)

(* Only the entry at the position is no longer coming. *)
LEMMA NoEntryPassed ==
  ASSUME DeliveryInv, NEW u \in Users, NEW k \in Nat,
         \A e \in stream[u].entries : e.position # k + 1
  PROVE  \A c, j : Coming(u, k + 1, c, j) <=> Coming(u, k, c, j)
<1>1. \A e \in stream[u].entries : e.position > k + 1 <=> e.position > k
  BY StreamFacts DEF DeliveryInv, OrderInv
<1> QED
  BY <1>1 DEF Coming

LEMMA EntryPassed ==
  ASSUME DeliveryInv, NEW u \in Users, NEW k \in Nat, NEW e \in stream[u].entries,
         e.position = k + 1
  PROVE  /\ Coming(u, k, e.conv, e.change)
         /\ \A c, j : Coming(u, k + 1, c, j)
                      <=> Coming(u, k, c, j) /\ ~(c = e.conv /\ j = e.change)
<1>0. DeliveryTypeOK /\ OncePerChange /\ EntriesMirror /\ EntriesMeant
  BY DEF DeliveryInv, OrderInv, StreamsInv, MeantInv
<1>1. \A f \in stream[u].entries : f.position \in Nat
  BY <1>0, StreamFacts
<1>2. Has(u, e.conv, e.change)
  BY <1>0 DEF OncePerChange, Has
<1>3. \A f \in stream[u].entries : f.conv = e.conv /\ f.change = e.change => f = e
  BY <1>0 DEF OncePerChange
<1>4. Coming(u, k, e.conv, e.change)
  <2>1. e.change \in DOMAIN outbox[e.conv] /\ u \in outbox[e.conv][e.change].to
    BY <1>0 DEF EntriesMeant
  <2>2. e.position > k
    OBVIOUS
  <2> QED
    BY <1>2, <2>1, <2>2 DEF Coming
<1>5. ASSUME NEW c, NEW j
      PROVE  Coming(u, k + 1, c, j) <=> Coming(u, k, c, j) /\ ~(c = e.conv /\ j = e.change)
  <2>1. CASE c = e.conv /\ j = e.change
    <3>1. \A f \in stream[u].entries : f.conv = c /\ f.change = j => ~(f.position > k + 1)
      BY <1>3, <2>1
    <3> QED
      BY <1>2, <2>1, <3>1 DEF Coming
  <2>2. CASE ~(c = e.conv /\ j = e.change)
    <3>1. \A f \in stream[u].entries :
             f.conv = c /\ f.change = j => (f.position > k + 1 <=> f.position > k)
      <4>1. \A f \in stream[u].entries : f.conv = c /\ f.change = j => f.position # k + 1
        BY <1>0, <2>2 DEF OncePerChange
      <4> QED
        BY <1>1, <4>1
    <3> QED
      BY <2>2, <3>1 DEF Coming
  <2> QED
    BY <2>1, <2>2
<1> QED
  BY <1>4, <1>5

(* A conversation of which nothing more or less is coming. *)
LEMMA SameFollowed ==
  ASSUME NEW u, NEW k, NEW l, NEW c, \A j : Coming(u, l, c, j) <=> Coming(u, k, c, j),
         NEW cache, NEW new,
         new.messages[c] = cache.messages[c], new.read[c] = cache.read[c],
         c \in new.conversations <=> c \in cache.conversations,
         ConvFollowed(u, k, c, cache)
  PROVE  ConvFollowed(u, l, c, new)
<1>1. Leaving(u, l, c) <=> Leaving(u, k, c)
  BY DEF Leaving
<1>2. RowShown(u, k, c, cache) => RowShown(u, l, c, new)
  BY <1>1 DEF RowShown
<1>3. NothingStale(u, k, c, cache) => NothingStale(u, l, c, new)
  BY <1>1 DEF NothingStale
<1>4. NothingMissing(u, k, c, cache) => NothingMissing(u, l, c, new)
  BY <1>1 DEF NothingMissing
<1>5. LeftBehind(u, k, c, cache) => LeftBehind(u, l, c, new)
  BY <1>1 DEF LeftBehind
<1> QED
  BY <1>2, <1>3, <1>4, <1>5 DEF ConvFollowed

(* A removal is applied. *)
LEMMA RemovalApplied ==
  ASSUME DeliveryInv, NEW u \in Users, NEW k \in Nat, k >= stream[u].retained,
         NEW e \in stream[u].entries, e.position = k + 1, e.kind = "removed",
         NEW c \in Conversations, c = e.conv, NEW cache \in Caches, ForEver(u, c, cache),
         NEW new, new = Drop(cache, c)
  PROVE  ForEver(u, c, new) /\ ConvFollowed(u, k + 1, c, new)
<1>1. PICK i : i = e.change
  OBVIOUS
<1>2. i \in DOMAIN outbox[c] /\ outbox[c][i].kind = "removed"
  BY <1>1 DEF DeliveryInv, StreamsInv, EntriesMirror
<1>3. /\ Coming(u, k, c, i)
      /\ \A j : Coming(u, k + 1, c, j) <=> Coming(u, k, c, j) /\ j # i
  BY <1>1, EntryPassed
<1>4. /\ c \notin new.conversations /\ new.deleted = cache.deleted
      /\ new.messages[c] = {} /\ new.read[c] = 0
  BY DropFields
<1>5. ForEver(u, c, new)
  BY <1>4 DEF ForEver
<1>6. CASE u \notin conv[c].members
  BY <1>4, <1>5, <1>6 DEF ConvFollowed, LeftBehind
<1>7. CASE u \in conv[c].members
  <2>1. Leaving(u, k, c)
    BY <1>2, <1>3 DEF Leaving
  <2>2. /\ \E j \in DOMAIN outbox[c] :
              /\ Coming(u, k, c, j) /\ Current(c, j, u) /\ outbox[c][j].kind # "removed"
        /\ \A m \in DOMAIN conv[c].messages : m > conv[c].joined[u] =>
              \E j \in DOMAIN outbox[c] :
                 /\ Coming(u, k, c, j) /\ Current(c, j, u) /\ About(c, j, m)
                 /\ outbox[c][j].kind # "removed"
    BY <1>7, <2>1, LeavingTold
  <2>3. RowShown(u, k + 1, c, new)
    BY <1>2, <1>3, <2>2 DEF RowShown
  <2>4. NothingStale(u, k + 1, c, new)
    BY <1>4 DEF NothingStale
  <2>5. NothingMissing(u, k + 1, c, new)
    <3>1. \A m \in Visible(c, u) : m > conv[c].joined[u] =>
             \E j \in DOMAIN outbox[c] :
                Coming(u, k + 1, c, j) /\ Current(c, j, u) /\ About(c, j, m)
      BY <1>2, <1>3, <2>2 DEF Visible
    <3> QED
      BY <3>1 DEF NothingMissing
  <2> QED
    BY <1>5, <1>7, <2>3, <2>4, <2>5 DEF ConvFollowed
<1> QED
  BY <1>6, <1>7

(* A change of a message that is visible, or no longer, is of one that      *)
(* exists.                                                                  *)
LEMMA ChangeNames ==
  ASSUME DeliveryInv, NEW u \in Users, NEW e \in stream[u].entries, e.kind \in MessageKinds,
         NEW c, c = e.conv
  PROVE  /\ e.message \in DOMAIN conv[c].messages
         /\ e.kind = "deleted" => e.message \notin Visible(c, u)
<1>1. PICK i : i = e.change
  OBVIOUS
<1>2. /\ c \in Conversations /\ i \in DOMAIN outbox[c]
      /\ outbox[c][i].kind = e.kind /\ outbox[c][i].message = e.message
      /\ u \in outbox[c][i].to
  BY <1>1 DEF DeliveryInv, StreamsInv, EntriesMirror, MeantInv, EntriesMeant
<1> QED
  BY <1>2 DEF DeliveryInv, RowsInv, MessagesNamed

(* What showing a change makes of the messages of its conversation. *)
MessageNow(cache, new, u, e, c) ==
    \/ /\ e.kind \notin MessageKinds /\ new.messages[c] = cache.messages[c]
       /\ new.deleted[c] = cache.deleted[c]
    \/ /\ e.kind \in MessageKinds /\ e.message \in DOMAIN conv[c].messages
       /\ e.message \notin Visible(c, u)
       /\ new.messages[c] = {seen \in cache.messages[c] : seen.id # e.message}
       /\ new.deleted[c] = cache.deleted[c] \cup {e.message}
    \/ /\ e.kind \in MessageKinds /\ e.message \in Visible(c, u)
       /\ new.messages[c] = {seen \in cache.messages[c] : seen.id # e.message}
                            \cup {Shown(c, e.message)}
       /\ new.deleted[c] = cache.deleted[c]

LEMMA MessagesShown ==
  ASSUME DeliveryInv, NEW u \in Users, NEW e \in stream[u].entries,
         NEW c \in Conversations, c = e.conv, NEW cache \in Caches, ForEver(u, c, cache),
         NEW new, new = Show(cache, u, e)
  PROVE  MessageNow(cache, new, u, e, c)
<1>0. DeliveryTypeOK
  BY DEF DeliveryInv, OrderInv
<1>1. e \in Entries
  BY <1>0, StreamFacts
<1>2. ShowsMessage(cache, new, u, e, c)
  BY <1>0, <1>1, ShowFields
<1>3. e.kind \in MessageKinds =>
         /\ e.message \in DOMAIN conv[c].messages
         /\ e.kind = "deleted" => e.message \notin Visible(c, u)
  BY ChangeNames
<1>4. CASE e.message \in Visible(c, u) /\ e.kind \in MessageKinds
  <2>1. e.message \notin cache.deleted[c] /\ e.kind # "deleted"
    BY <1>3, <1>4 DEF ForEver
  <2>2. /\ Shown(c, e.message).id = e.message
        /\ Shown(c, e.message).recalled = conv[c].messages[e.message].recalled
    BY <1>0, <1>3, <1>4, ShownTyped
  <2>3. \A old \in cache.messages[c] :
           old.id = e.message /\ old.recalled => Shown(c, e.message).recalled
    BY <2>2 DEF ForEver
  <2>4. Merge(cache.messages[c], Shown(c, e.message))
        = {seen \in cache.messages[c] : seen.id # e.message} \cup {Shown(c, e.message)}
    BY <2>2, <2>3 DEF Merge
  <2> QED
    BY <1>2, <1>4, <2>1, <2>4 DEF ShowsMessage, MessageNow
<1> QED
  BY <1>2, <1>3, <1>4 DEF ShowsMessage, MessageNow

(* A change is applied for a member. *)
LEMMA ChangeApplied ==
  ASSUME DeliveryInv, NEW u \in Users, NEW k \in Nat, k + 1 >= stream[u].retained,
         NEW e \in stream[u].entries, e.position = k + 1, e.kind # "removed",
         NEW c \in Conversations, c = e.conv, u \in conv[c].members, NEW cache \in Caches,
         ForEver(u, c, cache), ConvFollowed(u, k, c, cache),
         NEW new, new = Show(cache, u, e)
  PROVE  ForEver(u, c, new) /\ ConvFollowed(u, k + 1, c, new)
<1>0. DeliveryTypeOK
  BY DEF DeliveryInv, OrderInv
<1>1. PICK i : i = e.change
  OBVIOUS
<1>2. /\ i \in DOMAIN outbox[c] /\ outbox[c][i].kind = e.kind
      /\ outbox[c][i].message = e.message
  BY <1>1 DEF DeliveryInv, StreamsInv, EntriesMirror
<1>3. /\ Coming(u, k, c, i)
      /\ \A j : Coming(u, k + 1, c, j) <=> Coming(u, k, c, j) /\ j # i
  BY <1>1, EntryPassed
<1>4. c \in new.conversations /\ new.read[c] = conv[c].read[u]
  <2>1. e \in Entries
    BY <1>0, StreamFacts
  <2> QED
    BY <1>0, <2>1, ShowFields
<1>5. MessageNow(cache, new, u, e, c)
  BY MessagesShown
<1>6. \A m \in DOMAIN conv[c].messages :
         /\ Shown(c, m).id = m /\ Shown(c, m).recalled = conv[c].messages[m].recalled
  BY <1>0, ShownTyped
<1>7. Visible(c, u) \subseteq DOMAIN conv[c].messages
  BY DEF Visible
<1>8. ForEver(u, c, new)
  <2>1. new.deleted[c] \subseteq DOMAIN conv[c].messages \ Visible(c, u)
    BY <1>5 DEF ForEver, MessageNow
  <2>2. ASSUME NEW old \in new.messages[c]
        PROVE  /\ old.id \in DOMAIN conv[c].messages
               /\ old.recalled => conv[c].messages[old.id].recalled
    <3>1. CASE old \in cache.messages[c]
      BY <3>1 DEF ForEver
    <3>2. CASE old \notin cache.messages[c]
      <4>1. e.message \in Visible(c, u) /\ old = Shown(c, e.message)
        BY <1>5, <3>2 DEF MessageNow
      <4> QED
        BY <1>6, <1>7, <4>1
    <3> QED
      BY <3>1, <3>2
  <2> QED
    BY <2>1, <2>2 DEF ForEver
<1>9. CASE Leaving(u, k + 1, c)
  BY <1>8, <1>9, LeavingFollowed
<1>10. CASE ~Leaving(u, k + 1, c)
  <2>1. ~Leaving(u, k, c)
    BY <1>2, <1>3, <1>10 DEF Leaving
  <2>2. RowShown(u, k + 1, c, new)
    BY <1>4, <1>10 DEF RowShown
  <2>3. NothingStale(u, k + 1, c, new)
    <3> SUFFICES ASSUME NEW old \in new.messages[c]
                 PROVE  \/ old.id \in Visible(c, u) /\ old = Shown(c, old.id)
                        \/ \E j \in DOMAIN outbox[c] :
                              Coming(u, k + 1, c, j) /\ About(c, j, old.id)
      BY DEF NothingStale
    <3>1. CASE old \notin cache.messages[c]
      <4>1. e.message \in Visible(c, u) /\ old = Shown(c, e.message)
        BY <1>5, <3>1 DEF MessageNow
      <4> QED
        BY <1>6, <1>7, <4>1
    <3>2. CASE old \in cache.messages[c] /\ old = Shown(c, e.message)
               /\ e.message \in Visible(c, u)
      BY <1>6, <1>7, <3>2
    <3>3. CASE old \in cache.messages[c] /\ (e.kind \notin MessageKinds \/ old.id # e.message)
      <4>1. \/ old.id \in Visible(c, u) /\ old = Shown(c, old.id)
            \/ \E j \in DOMAIN outbox[c] : Coming(u, k, c, j) /\ About(c, j, old.id)
        BY <2>1, <3>3 DEF ConvFollowed, NothingStale
      <4>2. ~About(c, i, old.id)
        BY <1>2, <3>3 DEF About
      <4> QED
        BY <1>3, <4>1, <4>2
    <3> QED
      BY <1>5, <3>1, <3>2, <3>3 DEF MessageNow
  <2>4. ASSUME Len(conv[c].messages) <= Limit PROVE NothingMissing(u, k + 1, c, new)
    <3> SUFFICES ASSUME NEW m \in Visible(c, u), m > conv[c].joined[u]
                 PROVE  \/ Shown(c, m) \in new.messages[c]
                        \/ \E j \in DOMAIN outbox[c] :
                              Coming(u, k + 1, c, j) /\ Current(c, j, u) /\ About(c, j, m)
      BY <1>10 DEF NothingMissing
    <3>1. \/ Shown(c, m) \in cache.messages[c]
          \/ \E j \in DOMAIN outbox[c] :
                Coming(u, k, c, j) /\ Current(c, j, u) /\ About(c, j, m)
      BY <2>4 DEF ConvFollowed, NothingMissing
    <3>2. CASE e.kind \in MessageKinds /\ e.message = m
      BY <1>5, <3>2 DEF MessageNow
    <3>3. CASE ~(e.kind \in MessageKinds /\ e.message = m)
      <4>1. ~About(c, i, m)
        BY <1>2, <3>3 DEF About
      <4>2. Shown(c, m) \in cache.messages[c] => Shown(c, m) \in new.messages[c]
        BY <1>5, <1>6, <1>7, <3>3 DEF MessageNow
      <4> QED
        BY <1>3, <3>1, <4>1, <4>2
    <3> QED
      BY <3>2, <3>3
  <2> QED
    BY <1>8, <2>2, <2>3, <2>4 DEF ConvFollowed
<1> QED
  BY <1>9, <1>10

(* The change of somebody who has left is not applied. *)
LEMMA ChangeWithheld ==
  ASSUME DeliveryInv, NEW u \in Users, NEW k \in Nat,
         NEW e \in stream[u].entries, e.position = k + 1, e.kind # "removed",
         NEW c \in Conversations, c = e.conv, u \notin conv[c].members,
         NEW cache, ConvFollowed(u, k, c, cache)
  PROVE  ConvFollowed(u, k + 1, c, cache)
<1>1. PICK i : i = e.change
  OBVIOUS
<1>2. i \in DOMAIN outbox[c] /\ outbox[c][i].kind # "removed"
  BY <1>1 DEF DeliveryInv, StreamsInv, EntriesMirror
<1>3. \A j : Coming(u, k + 1, c, j) <=> Coming(u, k, c, j) /\ j # i
  BY <1>1, EntryPassed
<1>4. Leaving(u, k, c) => Leaving(u, k + 1, c)
  BY <1>2, <1>3 DEF Leaving
<1>5. LeftBehind(u, k + 1, c, cache)
  BY <1>4 DEF ConvFollowed, LeftBehind
<1> QED
  BY <1>5 DEF ConvFollowed

(* The entry of a position is applied, if there is one. *)
LEMMA ChangeFollowed ==
  ASSUME DeliveryInv, NEW u \in Users, NEW k \in Nat, k >= stream[u].retained,
         NEW e \in stream[u].entries, e.position = k + 1, NEW cache \in Caches,
         \A c \in Conversations : ForEver(u, c, cache) /\ ConvFollowed(u, k, c, cache),
         NEW new, new = ApplyChange(cache, u, e)
  PROVE  \A c \in Conversations : ForEver(u, c, new) /\ ConvFollowed(u, k + 1, c, new)
<1>0. DeliveryTypeOK
  BY DEF DeliveryInv, OrderInv
<1>1. PICK c \in Conversations : c = e.conv
  BY <1>0, StreamFacts
<1>2. e \in Entries
  BY <1>0, StreamFacts
<1>3. ForEver(u, c, new) /\ ConvFollowed(u, k + 1, c, new)
  <2>1. CASE e.kind = "removed"
    <3>1. new = Drop(cache, c)
      BY <1>1, <2>1 DEF ApplyChange
    <3> QED
      BY <1>1, <2>1, <3>1, RemovalApplied
  <2>2. CASE e.kind # "removed" /\ u \notin conv[c].members
    <3>1. new = cache
      BY <1>1, <2>2 DEF ApplyChange
    <3> QED
      BY <1>1, <2>2, <3>1, ChangeWithheld
  <2>3. CASE e.kind # "removed" /\ u \in conv[c].members
    <3>1. new = Show(cache, u, e)
      BY <1>1, <2>3 DEF ApplyChange
    <3>2. k + 1 >= stream[u].retained
      BY <1>0, StreamFacts
    <3> QED
      BY <1>1, <2>3, <3>1, <3>2, ChangeApplied
  <2> QED
    BY <2>1, <2>2, <2>3
<1>4. ASSUME NEW b \in Conversations, b # c
      PROVE  ForEver(u, b, new) /\ ConvFollowed(u, k + 1, b, new)
  <2>1. \A j : Coming(u, k + 1, b, j) <=> Coming(u, k, b, j)
    BY <1>1, <1>4, EntryPassed
  <2>2. /\ new.messages[b] = cache.messages[b] /\ new.read[b] = cache.read[b]
        /\ new.deleted[b] = cache.deleted[b]
        /\ b \in new.conversations <=> b \in cache.conversations
    <3>1. CASE new = Drop(cache, c)
      BY <1>4, <3>1, DropFields
    <3>2. CASE new = Show(cache, u, e)
      BY <1>0, <1>1, <1>2, <1>4, <3>2, ShowFields
    <3>3. CASE new = cache
      BY <3>3
    <3> QED
      BY <1>1, <3>1, <3>2, <3>3 DEF ApplyChange
  <2>3. ForEver(u, b, new)
    BY <2>2 DEF ForEver
  <2>4. ConvFollowed(u, k + 1, b, new)
    <3>1. ConvFollowed(u, k, b, cache)
      OBVIOUS
    <3> QED
      BY <2>1, <2>2, <3>1, SameFollowed
  <2> QED
    BY <2>3, <2>4
<1> QED
  BY <1>3, <1>4

LEMMA PositionFollowed ==
  ASSUME DeliveryInv, NEW u \in Users, NEW k \in Nat, k >= stream[u].retained,
         NEW page \in SUBSET stream[u].entries,
         \A e \in stream[u].entries : e.position = k + 1 => e \in page,
         NEW cache \in Caches,
         \A c \in Conversations : ForEver(u, c, cache) /\ ConvFollowed(u, k, c, cache),
         NEW new, new = ApplyAt(cache, u, page, k + 1)
  PROVE  \A c \in Conversations : ForEver(u, c, new) /\ ConvFollowed(u, k + 1, c, new)
<1>1. CASE \E e \in page : e.position = k + 1
  <2>1. PICK e \in page : e = CHOOSE f \in page : f.position = k + 1
    BY <1>1
  <2>2. e.position = k + 1
    BY <1>1, <2>1
  <2>3. e \in stream[u].entries
    OBVIOUS
  <2>4. new = ApplyChange(cache, u, e)
    BY <1>1, <2>1 DEF ApplyAt
  <2> QED
    BY <2>2, <2>3, <2>4, ChangeFollowed
<1>2. CASE ~\E e \in page : e.position = k + 1
  <2>1. new = cache
    BY <1>2 DEF ApplyAt
  <2>2. \A e \in stream[u].entries : e.position # k + 1
    BY <1>2
  <2>3. \A c, j : Coming(u, k + 1, c, j) <=> Coming(u, k, c, j)
    BY <2>2, NoEntryPassed
  <2>4. ASSUME NEW c \in Conversations PROVE ConvFollowed(u, k + 1, c, new)
    <3>1. ConvFollowed(u, k, c, cache)
      OBVIOUS
    <3> QED
      BY <2>1, <2>3, <3>1, SameFollowed
  <2> QED
    BY <2>1, <2>4
<1> QED
  BY <1>1, <1>2

-----------------------------------------------------------------------------
(* A page, or a rebuild                                                     *)

(* Position by position, the cache is what it should be at that position.   *)
LEMMA PositionsFollowed ==
  ASSUME DeliveryInv, NEW u \in Users, NEW p \in Nat, p >= stream[u].retained,
         NEW cache \in Caches, cache.position = p, p <= stream[u].position,
         \A c \in Conversations : ForEver(u, c, cache) /\ ConvFollowed(u, p, c, cache),
         NEW page, page = Page(stream[u], p), NEW q, q = NextPosition(stream[u], p),
         NEW n, n = stream[u].position, NEW k \in p .. q
  PROVE  \A c \in Conversations :
            /\ ForEver(u, c, UpTo(cache, u, page, n)[k])
            /\ ConvFollowed(u, k, c, UpTo(cache, u, page, n)[k])
<1> DEFINE f == UpTo(cache, u, page, n)
           Good(l) == \A c \in Conversations :
                         ForEver(u, c, f[l]) /\ ConvFollowed(u, l, c, f[l])
           Bad == {l \in p .. q : ~Good(l)}
<1>0. DeliveryTypeOK /\ OncePerChange
  BY DEF DeliveryInv, OrderInv, StreamsInv
<1>1. stream[u] \in Streams /\ Once(stream[u]) /\ n \in Nat /\ stream[u].retained \in Nat
  BY <1>0, StreamFacts DEF OncePerChange, Once
<1>2. /\ q \in Nat /\ p <= q /\ q <= n
      /\ \A e \in stream[u].entries : p < e.position /\ e.position <= q <=> e \in page
  BY <1>1, PageEnds
<1>3. page \in SUBSET stream[u].entries /\ page \in SUBSET Entries
  <2>1. page \in SUBSET stream[u].entries
    BY DEF Page, After
  <2> QED
    BY <1>0, <2>1, StreamFacts
<1>4. ASSUME Bad # {} PROVE FALSE
  <2>1. PICK l \in Bad : \A m \in Bad : l <= m
    <3>1. Bad \subseteq Nat
      BY <1>2
    <3> HIDE DEF Bad
    <3> QED
      BY <1>4, <3>1, Least, Zenon
  <2>2. l \in p .. q /\ ~Good(l)
    OBVIOUS
  <2>3. l \in 0 .. n /\ l \in Nat
    BY <1>1, <1>2, <2>2
  <2>4. l # p
    <3>1. p \in 0 .. n
      BY <1>1, <1>2
    <3>2. f[p] = cache
      BY <1>1, <3>1, UpToSteps
    <3> HIDE DEF f
    <3> QED
      BY <2>2, <3>2
  <2>5. l - 1 \in p .. q /\ l - 1 \in 0 .. n /\ l - 1 \in Nat /\ (l - 1) + 1 = l
    <3> HIDE DEF f, Good, Bad
    <3> QED
      BY <1>1, <1>2, <2>2, <2>3, <2>4
  <2>6. Good(l - 1)
    <3>1. l - 1 \notin Bad
      BY <2>1, <2>3, <2>5
    <3> QED
      BY <2>5, <3>1
  <2>7. f[l] = ApplyAt(f[l - 1], u, page, l)
    <3>1. ~(l <= cache.position)
      BY <2>2, <2>4
    <3> QED
      BY <1>1, <2>3, <3>1, UpToSteps
  <2>8. PICK m \in Nat : m = l - 1 /\ m + 1 = l /\ m \in p .. q /\ m \in 0 .. n
    BY <2>5
  <2>9. f[m] \in Caches
    BY <1>0, <1>1, <1>3, <2>8, UpToTyped
  <2>10. PICK before \in Caches : before = f[m]
    BY <2>9
  <2>11. PICK new : new = f[l]
    OBVIOUS
  <2>12. /\ m >= stream[u].retained
         /\ \A e \in stream[u].entries : e.position = m + 1 => e \in page
    <3>1. m >= p /\ p < m + 1 /\ m + 1 <= q
      BY <2>2, <2>8
    <3>2. m >= stream[u].retained
      BY <1>1, <3>1
    <3> QED
      BY <1>2, <3>1, <3>2
  <2>13. new = ApplyAt(before, u, page, m + 1)
    BY <2>7, <2>8, <2>10, <2>11
  <2>14. \A c \in Conversations : ForEver(u, c, before) /\ ConvFollowed(u, m, c, before)
    BY <2>6, <2>8, <2>10
  <2> HIDE DEF f
  <2>15. \A c \in Conversations : ForEver(u, c, new) /\ ConvFollowed(u, m + 1, c, new)
    BY <1>3, <2>12, <2>13, <2>14, PositionFollowed
  <2> QED
    BY <2>2, <2>8, <2>11, <2>15
<1>5. k \notin Bad
  BY <1>4
<1> QED
  BY <1>5

(* Behind the end of the page nothing is applied. *)
LEMMA PageOver ==
  ASSUME DeliveryInv, NEW u \in Users, NEW cache \in Caches, NEW p, cache.position = p,
         p <= stream[u].position,
         NEW page, page = Page(stream[u], p), NEW q, q = NextPosition(stream[u], p),
         NEW n, n = stream[u].position
  PROVE  UpTo(cache, u, page, n)[n] = UpTo(cache, u, page, n)[q]
<1> DEFINE f == UpTo(cache, u, page, n)
           Bad == {l \in q .. n : f[l] # f[q]}
<1>1. /\ stream[u] \in Streams /\ Once(stream[u]) /\ n \in Nat /\ p \in Nat
      /\ page \subseteq stream[u].entries
      /\ \A e \in stream[u].entries : e.position \in Nat
  <2>1. DeliveryTypeOK /\ OncePerChange
    BY DEF DeliveryInv, OrderInv, StreamsInv
  <2>2. page \subseteq stream[u].entries
    BY DEF Page, After
  <2>3. p \in Nat
    BY DEF Caches
  <2> QED
    BY <2>1, <2>2, <2>3, StreamFacts DEF OncePerChange, Once
<1>2. /\ q \in Nat /\ p <= q /\ q <= n
      /\ \A e \in stream[u].entries : p < e.position /\ e.position <= q <=> e \in page
  BY <1>1, PageEnds
<1>3. ASSUME Bad # {} PROVE FALSE
  <2>1. PICK l \in Bad : \A m \in Bad : l <= m
    <3>1. Bad \subseteq Nat
      BY <1>1, <1>2
    <3> HIDE DEF Bad
    <3> QED
      BY <1>3, <3>1, Least, Zenon
  <2>2. l \in q .. n /\ f[l] # f[q] /\ l # q
    OBVIOUS
  <2>3. /\ l \in 0 .. n /\ l - 1 \in q .. n /\ ~(l <= l - 1)
        /\ ~(l <= cache.position) /\ ~(l <= q)
    BY <1>1, <1>2, <2>2
  <2>4. f[l - 1] = f[q]
    <3>1. l - 1 \notin Bad
      BY <2>1, <2>3
    <3> QED
      BY <2>3, <3>1
  <2>5. f[l] = ApplyAt(f[l - 1], u, page, l)
    BY <1>1, <2>3, UpToSteps
  <2>6. ~\E e \in page : e.position = l
    BY <1>1, <1>2, <2>3
  <2>7. f[l] = f[l - 1]
    <3> HIDE DEF f
    <3> QED
      BY <2>5, <2>6 DEF ApplyAt
  <2> HIDE DEF f
  <2> QED
    BY <2>2, <2>4, <2>7
<1>4. n \in q .. n
  BY <1>1, <1>2
<1>5. n \notin Bad
  BY <1>3
<1> QED
  BY <1>4, <1>5

(* Only what a cache shows counts. *)
LEMMA SameForEver ==
  ASSUME NEW u, NEW c, NEW cache, NEW new, new.messages = cache.messages,
         new.deleted = cache.deleted, ForEver(u, c, cache)
  PROVE  ForEver(u, c, new)
  BY DEF ForEver

LEMMA PageFollowed ==
  ASSUME DeliveryInv, NEW u \in Users, NEW cache \in Caches, cache.position > 0,
         GoesOn(stream[u], cache.position), CacheInv(u, cache.position, cache),
         NEW new, new = ApplyPage(cache, u)
  PROVE  CacheInv(u, new.position, new)
<1> DEFINE s == stream[u]
           p == cache.position
           page == Page(s, p)
           q == NextPosition(s, p)
           last == UpTo(cache, u, page, s.position)[s.position]
<1>0. DeliveryTypeOK /\ OncePerChange
  BY DEF DeliveryInv, OrderInv, StreamsInv
<1>1. /\ s \in Streams /\ Once(s) /\ s.position \in Nat /\ p \in Nat
      /\ s.retained \in Nat
  BY <1>0, StreamFacts DEF OncePerChange, Once, Caches
<1>2. p >= s.retained /\ p <= s.position
  BY <1>1, BoundaryBounds
<1>3. q \in Nat /\ p <= q /\ q <= s.position
  BY <1>1, <1>2, PageEnds
<1>4. /\ new.position = q /\ new.conversations = last.conversations
      /\ new.messages = last.messages /\ new.deleted = last.deleted
      /\ new.read = last.read
  BY <1>0, <1>2, PageTyped
<1>5. last = UpTo(cache, u, page, s.position)[q]
  BY <1>2, PageOver
<1>6. \A c \in Conversations : ForEver(u, c, cache) /\ ConvFollowed(u, p, c, cache)
  BY <1>2 DEF CacheInv
<1>7. \A c \in Conversations : ForEver(u, c, last) /\ ConvFollowed(u, q, c, last)
  <2>1. q \in p .. q
    BY <1>1, <1>3
  <2>2. \A c \in Conversations :
           /\ ForEver(u, c, UpTo(cache, u, page, s.position)[q])
           /\ ConvFollowed(u, q, c, UpTo(cache, u, page, s.position)[q])
    BY <1>1, <1>2, <1>6, <2>1, PositionsFollowed
  <2> HIDE DEF last
  <2> QED
    BY <1>5, <2>2
<1> HIDE DEF last, q
<1>8. ASSUME NEW c \in Conversations PROVE ForEver(u, c, new) /\ ConvFollowed(u, q, c, new)
  <2>1. ForEver(u, c, last) /\ ConvFollowed(u, q, c, last)
    BY <1>7
  <2>2. ForEver(u, c, new)
    BY <1>4, <2>1, SameForEver
  <2>3. ConvFollowed(u, q, c, new)
    BY <1>4, <2>1, SameFollowed
  <2> QED
    BY <2>2, <2>3
<1> QED
  BY <1>4, <1>8 DEF CacheInv

(* No more than Limit messages are all among the newest. *)
LEMMA AllNewest ==
  ASSUME DeliveryTypeOK, NEW c \in Conversations, NEW u \in Users,
         Len(conv[c].messages) <= Limit
  PROVE  Newest(Visible(c, u)) = Visible(c, u)
<1> DEFINE l == Len(conv[c].messages)
<1>1. l \in Nat /\ DOMAIN conv[c].messages = 1 .. l
  BY RowFacts DEF DeliveryTypeOK, RowsTyped
<1>2. Visible(c, u) \subseteq 1 .. l
  BY <1>1 DEF Visible
<1> HIDE DEF l
<1>3. ASSUME NEW m \in Visible(c, u)
      PROVE  Cardinality({n \in Visible(c, u) : n > m}) < Limit
  <2> DEFINE newer == {n \in Visible(c, u) : n > m}
  <2>1. m \in Int /\ m + 1 \in Int /\ l \in Int /\ m >= 1 /\ m <= l
    BY <1>1, <1>2
  <2>2. newer \subseteq (m + 1) .. l
    BY <1>1, <1>2, <2>1
  <2>3. /\ IsFiniteSet((m + 1) .. l)
        /\ Cardinality((m + 1) .. l) = IF m + 1 > l THEN 0 ELSE l - (m + 1) + 1
    BY <2>1, FS_Interval
  <2> HIDE DEF newer
  <2>4. /\ Cardinality(newer) <= Cardinality((m + 1) .. l)
        /\ Cardinality(newer) \in Nat
    BY <2>2, <2>3, FS_Subset, FS_CardinalityType
  <2>5. l <= Limit /\ Limit \in Nat /\ Limit # 0
    BY SyncAssumption DEF l
  <2>6. Cardinality(newer) < Limit
    BY <1>1, <2>1, <2>3, <2>4, <2>5
  <2> QED
    BY <2>6 DEF newer
<1> QED
  BY <1>3 DEF Newest

(* A rebuild shows the conversations as they are. *)
LEMMA RebuildFollowed ==
  ASSUME DeliveryInv, NEW u \in Users, NEW cache \in Caches,
         CacheInv(u, cache.position, cache), NEW new, new = Rebuild(cache, u)
  PROVE  CacheInv(u, new.position, new)
<1>0. DeliveryTypeOK /\ PositionsKnown
  BY DEF DeliveryInv, OrderInv, StreamsInv
<1>1. PICK mine : mine = {c \in Conversations : u \in conv[c].members}
  OBVIOUS
<1>2. /\ new.position = stream[u].position
      /\ new.conversations = mine /\ new.deleted = cache.deleted
      /\ \A c \in Conversations :
            /\ new.messages[c] = IF c \in mine THEN Rebuilt(c, u, cache) ELSE {}
            /\ new.read[c] = IF c \in mine THEN conv[c].read[u] ELSE 0
  BY <1>0, <1>1, RebuildTyped
<1>3. /\ stream[u].position \in Nat /\ stream[u].position >= stream[u].retained
  BY <1>0, StreamFacts DEF PositionsKnown
<1>4. ASSUME NEW c \in Conversations, NEW old \in new.messages[c]
      PROVE  old.id \in Visible(c, u) /\ old = Shown(c, old.id)
  <2>1. old \in Rebuilt(c, u, cache)
    BY <1>2, <1>4
  <2>2. PICK m \in Visible(c, u) : old = Shown(c, m)
    BY <2>1 DEF Rebuilt, Newest
  <2> QED
    BY <1>0, <2>2, ShownTyped
<1>5. ASSUME NEW c \in Conversations PROVE ForEver(u, c, new)
  <2>1. ForEver(u, c, cache)
    BY DEF CacheInv
  <2>2. ASSUME NEW old \in new.messages[c]
        PROVE  /\ old.id \in DOMAIN conv[c].messages
               /\ old.recalled => conv[c].messages[old.id].recalled
    BY <1>0, <1>4, <2>2, ShownTyped
  <2> QED
    BY <1>2, <2>1, <2>2 DEF ForEver
<1>6. ASSUME NEW c \in Conversations PROVE ConvFollowed(u, new.position, c, new)
  <2>1. CASE Leaving(u, new.position, c)
    BY <1>2, <1>3, <2>1, LeavingFollowed
  <2>2. CASE ~Leaving(u, new.position, c) /\ u \in conv[c].members
    <3>1. RowShown(u, new.position, c, new)
      BY <1>1, <1>2, <2>2 DEF RowShown
    <3>2. NothingStale(u, new.position, c, new)
      BY <1>4 DEF NothingStale
    <3>3. ASSUME Len(conv[c].messages) <= Limit
          PROVE  NothingMissing(u, new.position, c, new)
      <4>1. Newest(Visible(c, u)) = Visible(c, u)
        BY <1>0, <3>3, AllNewest
      <4>2. Visible(c, u) \cap cache.deleted[c] = {}
        BY DEF CacheInv, ForEver
      <4>3. \A m \in Visible(c, u) : Shown(c, m) \in Rebuilt(c, u, cache)
        BY <4>1, <4>2 DEF Rebuilt
      <4>4. new.messages[c] = Rebuilt(c, u, cache)
        BY <1>1, <1>2, <2>2
      <4> QED
        BY <2>2, <4>3, <4>4 DEF NothingMissing
    <3> QED
      BY <2>2, <3>1, <3>2, <3>3 DEF ConvFollowed
  <2>3. CASE u \notin conv[c].members
    <3>1. c \notin new.conversations /\ new.messages[c] = {} /\ new.read[c] = 0
      BY <1>1, <1>2, <2>3
    <3> QED
      BY <2>3, <3>1 DEF ConvFollowed, LeftBehind
  <2> QED
    BY <2>1, <2>2, <2>3
<1> QED
  BY <1>5, <1>6 DEF CacheInv

-----------------------------------------------------------------------------
(* What a device shows, at every step                                       *)

SyncInv == FollowInv /\ DeliveryInv /\ DevicesInv

(* What the device makes of the answer. *)
LEMMA AnswerFollowed ==
  ASSUME SyncInv, NEW d \in Devices, Sync(d), NEW u, u = UserOf[d],
         NEW new, new = device'[d]
  PROVE  CacheInv(u, new.position, new)
<1>0. TypeOK /\ DeliveryTypeOK /\ DeliveryInv
  BY DEF SyncInv, FollowInv, TypeOK
<1>1. PICK old : old = device[d]
  OBVIOUS
<1>2. u \in Users /\ old \in Caches /\ old.position \in Nat
  BY <1>0, <1>1, DeviceFacts
<1>3. CacheInv(u, old.position, old)
  BY <1>1 DEF SyncInv, DevicesInv
<1>4. new = IF GoesOn(stream[u], old.position) THEN ApplyPage(old, u) ELSE Rebuild(old, u)
  <2>1. device' = [device EXCEPT ![d] =
             IF GoesOn(stream[u], old.position) THEN ApplyPage(old, u) ELSE Rebuild(old, u)]
    BY <1>1, Zenon DEF Sync, GoesOn
  <2>2. device \in [Devices -> Caches]
    BY <1>0 DEF TypeOK
  <2> QED
    BY <2>1, <2>2
<1>5. GoesOn(stream[u], old.position) => old.position # 0
  <2>1. RebuildReason(stream[u], 0) = "new_device"
    BY Zenon DEF RebuildReason
  <2>2. "new_device" # ""
    OBVIOUS
  <2> QED
    BY <2>1, <2>2, Zenon DEF GoesOn
<1>6. CASE GoesOn(stream[u], old.position)
  <2>1. old.position > 0
    BY <1>2, <1>5, <1>6
  <2> QED
    BY <1>0, <1>2, <1>3, <1>4, <1>6, <2>1, PageFollowed
<1>7. CASE ~GoesOn(stream[u], old.position)
  BY <1>0, <1>2, <1>3, <1>4, <1>7, RebuildFollowed
<1> QED
  BY <1>6, <1>7

(* A step of the delivery, or none, under a cache that stays. *)
LEMMA DevicesRest ==
  ASSUME SyncInv, [DeliveryNext]_deliveryVars, NEW d \in Devices, NEW u, u = UserOf[d],
         NEW cache, CacheInv(u, cache.position, cache),
         cache.position \in Nat, cache.position <= stream[u].position
  PROVE  CacheInv(u, cache.position, cache)'
<1>1. DeliveryInv
  BY DEF SyncInv
<1>2. u \in Users
  BY SyncAssumption
<1> QED
  BY <1>1, <1>2, CacheRests

LEMMA StepSync ==
  ASSUME SyncInv, [Next]_vars PROVE SyncInv'
<1>0. FollowInv /\ DeliveryInv /\ DevicesInv /\ TypeOK /\ DevicesKnown
  BY DEF SyncInv, FollowInv
<1>1. FollowInv'
  BY <1>0, StepFollows
<1>2. ASSUME NEW d \in Devices
      PROVE  /\ UserOf[d] \in Users /\ device[d].position \in Nat
             /\ device[d].position <= stream[UserOf[d]].position
             /\ CacheInv(UserOf[d], device[d].position, device[d])
  <2>1. UserOf[d] \in Users /\ device[d].position \in Nat
    BY <1>0, DeviceFacts
  <2>2. device[d].position <= stream[UserOf[d]].position
    BY <1>0 DEF DevicesKnown
  <2>3. CacheInv(UserOf[d], device[d].position, device[d])
    BY <1>0 DEF DevicesInv
  <2> QED
    BY <2>1, <2>2, <2>3
<1>3. CASE [DeliveryNext]_deliveryVars /\ UNCHANGED device
  <2>1. DeliveryInv'
    BY <1>0, <1>3, StepDelivery
  <2>2. ASSUME NEW d \in Devices, NEW cache, cache = device'[d]
        PROVE  CacheInv(UserOf[d], cache.position, cache)'
    <3>1. cache = device[d]
      BY <1>3, <2>2
    <3>2. /\ cache.position \in Nat /\ cache.position <= stream[UserOf[d]].position
          /\ CacheInv(UserOf[d], cache.position, cache)
      BY <1>2, <3>1
    <3> QED
      BY <1>3, <3>2, DevicesRest
  <2>3. DevicesInv'
    BY <2>2 DEF DevicesInv
  <2> QED
    BY <1>1, <2>1, <2>3 DEF SyncInv
<1>4. ASSUME NEW e \in Devices, EnsureStream(e) PROVE SyncInv'
  <2>1. DeliveryInv'
    BY <1>0, <1>4, EnsureDelivery
  <2>2. ASSUME NEW d \in Devices, NEW cache, cache = device'[d]
        PROVE  CacheInv(UserOf[d], cache.position, cache)'
    <3>1. cache = device[d]
      BY <1>4, <2>2 DEF EnsureStream
    <3>2. /\ cache.position \in Nat /\ cache.position <= stream[UserOf[d]].position
          /\ CacheInv(UserOf[d], cache.position, cache) /\ UserOf[d] \in Users
      BY <1>2, <3>1
    <3> QED
      BY <1>0, <1>4, <3>2, CacheOpens
  <2>3. DevicesInv'
    BY <2>2 DEF DevicesInv
  <2> QED
    BY <1>1, <2>1, <2>3 DEF SyncInv
<1>5. ASSUME NEW e \in Devices, Sync(e) PROVE SyncInv'
  <2>1. UNCHANGED deliveryVars
    BY <1>5 DEF Sync
  <2>2. DeliveryInv'
    BY <1>0, <2>1, StepDelivery
  <2>3. ASSUME NEW d \in Devices, NEW cache, cache = device'[d]
        PROVE  CacheInv(UserOf[d], cache.position, cache)'
    <3>1. /\ cache.position \in Nat /\ cache.position <= stream[UserOf[d]].position
          /\ CacheInv(UserOf[d], cache.position, cache)
      <4>1. CASE d = e
        <5>1. PICK u : u = UserOf[d]
          OBVIOUS
        <5>2. cache \in Caches /\ cache.position <= stream[u].position
          BY <1>0, <1>5, <2>3, <4>1, <5>1, SyncMoves
        <5>3. CacheInv(u, cache.position, cache)
          BY <1>5, <2>3, <4>1, <5>1, AnswerFollowed
        <5> QED
          BY <5>1, <5>2, <5>3, CacheFields
      <4>2. CASE d # e
        <5>1. device \in [Devices -> Caches]
          BY <1>0 DEF TypeOK
        <5>2. cache = device[d]
          BY <1>5, <2>3, <4>2, <5>1 DEF Sync
        <5> QED
          BY <1>2, <5>2
      <4> QED
        BY <4>1, <4>2
    <3> QED
      BY <2>1, <3>1, DevicesRest
  <2>4. DevicesInv'
    BY <2>3 DEF DevicesInv
  <2> QED
    BY <1>1, <2>2, <2>4 DEF SyncInv
<1> QED
  BY <1>3, <1>4, <1>5 DEF Next, vars

LEMMA InitSync ==
  ASSUME Init, StartsWithOffset PROVE SyncInv
<1>1. FollowInv
  BY InitFollows
<1>2. DeliveryInv
  BY InitDelivers DEF Init
<1>3. ASSUME NEW d \in Devices, NEW cache, cache = device[d]
      PROVE  CacheInv(UserOf[d], cache.position, cache)
  <2>1. cache = NewDevice
    BY <1>3 DEF Init
  <2>2. /\ cache.position = 0
        /\ \A c \in Conversations : cache.messages[c] = {} /\ cache.deleted[c] = {}
    BY <2>1 DEF NewDevice
  <2> QED
    BY <2>2 DEF CacheInv, ForEver
<1> QED
  BY <1>1, <1>2, <1>3 DEF SyncInv, DevicesInv

-----------------------------------------------------------------------------
(* Complete caches                                                          *)

(* When every change was delivered, nothing is coming at the end of a       *)
(* stream.                                                                  *)
LEMMA NothingComing ==
  ASSUME DeliveryInv, Delivered, NEW u \in Users, NEW c \in Conversations, NEW j
  PROVE  ~Coming(u, stream[u].position, c, j)
<1>0. /\ DeliveryTypeOK /\ OncePerChange /\ PositionsKnown /\ SentArrived
      /\ CommittedCovered
  BY DEF DeliveryInv, OrderInv, StreamsInv, SkipInv
<1> SUFFICES ASSUME Coming(u, stream[u].position, c, j) PROVE FALSE
  OBVIOUS
<1>1. CASE Has(u, c, j)
  <2>1. PICK e \in stream[u].entries :
           e.conv = c /\ e.change = j /\ e.position > stream[u].position
    BY <1>1 DEF Coming
  <2>2. e.position \in Nat /\ stream[u].position \in Nat
    BY <1>0, StreamFacts
  <2>3. PICK a \in stream[u].applied : a.position = e.position
    BY <1>0 DEF OncePerChange
  <2>4. a.position <= stream[u].position
    BY <1>0 DEF PositionsKnown
  <2> QED
    BY <2>1, <2>2, <2>3, <2>4
<1>2. CASE ~Has(u, c, j)
  <2>1. j \in DOMAIN outbox[c] /\ Owed(c, j, u)
    BY <1>2 DEF Coming
  <2>2. PICK k \in DOMAIN partition[c] : partition[c][k] = j
    BY <1>0, <2>1 DEF Delivered, SentArrived, Arrived
  <2>3. k \in 1 .. group[c].committed
    <3>1. partition[c] \in Seq(Nat)
      BY <1>0 DEF DeliveryTypeOK
    <3>2. DOMAIN partition[c] = 1 .. Len(partition[c])
      BY <3>1
    <3> QED
      BY <2>2, <3>2 DEF Delivered
  <2>4. Covered(c, k)
    BY <1>0, <2>3 DEF CommittedCovered
  <2> QED
    BY <1>2, <2>1, <2>2, <2>4 DEF Covered
<1> QED
  BY <1>1, <1>2

LEMMA FollowedMeansComplete ==
  ASSUME SyncInv PROVE UpToDateMeansComplete
<1> SUFFICES ASSUME NEW d \in Devices, UpToDate(d), NEW u, u = UserOf[d],
                    NEW cache, cache = device[d]
             PROVE  /\ cache.conversations = {c \in Conversations : u \in conv[c].members}
                    /\ \A c \in cache.conversations :
                          /\ cache.read[c] = conv[c].read[u]
                          /\ cache.messages[c] \subseteq {Shown(c, m) : m \in Visible(c, u)}
                          /\ Len(conv[c].messages) <= Limit =>
                                \A m \in Visible(c, u) :
                                    m > conv[c].joined[u] => Shown(c, m) \in cache.messages[c]
  BY DEF UpToDateMeansComplete
<1>0. TypeOK /\ DeliveryTypeOK /\ DeliveryInv /\ PositionsKnown
  BY DEF SyncInv, FollowInv, TypeOK, DeliveryInv, StreamsInv
<1>1. /\ u \in Users /\ cache \in Caches /\ cache.position = stream[u].position
      /\ cache.position > 0 /\ Delivered
  BY <1>0, DeviceFacts DEF UpToDate
<1>2. PICK p : p = cache.position
  OBVIOUS
<1>3. p > 0 /\ p >= stream[u].retained
  <2>1. stream[u].retained <= stream[u].position
    BY <1>0, <1>1 DEF PositionsKnown
  <2>2. stream[u].retained \in Nat /\ stream[u].position \in Nat
    BY <1>0, <1>1, StreamFacts
  <2> QED
    BY <1>1, <1>2, <2>1, <2>2
<1>4. \A c \in Conversations : ConvFollowed(u, p, c, cache)
  <2>1. CacheInv(u, p, cache)
    BY <1>2 DEF SyncInv, DevicesInv
  <2> QED
    BY <1>3, <2>1 DEF CacheInv
<1>5. \A c \in Conversations : \A j : ~Coming(u, p, c, j)
  BY <1>0, <1>1, <1>2, NothingComing
<1>6. \A c \in Conversations : ~Leaving(u, p, c)
  BY <1>5 DEF Leaving
<1>7. ASSUME NEW c \in Conversations, u \notin conv[c].members
      PROVE  c \notin cache.conversations
  BY <1>4, <1>6, <1>7 DEF ConvFollowed, LeftBehind
<1>8. ASSUME NEW c \in Conversations, u \in conv[c].members
      PROVE  /\ c \in cache.conversations /\ cache.read[c] = conv[c].read[u]
             /\ \A old \in cache.messages[c] :
                   old.id \in Visible(c, u) /\ old = Shown(c, old.id)
             /\ Len(conv[c].messages) <= Limit =>
                   \A m \in Visible(c, u) :
                       m > conv[c].joined[u] => Shown(c, m) \in cache.messages[c]
  <2>1. /\ RowShown(u, p, c, cache) /\ NothingStale(u, p, c, cache)
        /\ Len(conv[c].messages) <= Limit => NothingMissing(u, p, c, cache)
    BY <1>4, <1>8 DEF ConvFollowed
  <2>2. c \in cache.conversations /\ cache.read[c] = conv[c].read[u]
    BY <1>5, <2>1 DEF RowShown
  <2>3. \A old \in cache.messages[c] : old.id \in Visible(c, u) /\ old = Shown(c, old.id)
    BY <1>5, <1>6, <2>1 DEF NothingStale
  <2>4. ASSUME Len(conv[c].messages) <= Limit,
               NEW m \in Visible(c, u), m > conv[c].joined[u]
        PROVE  Shown(c, m) \in cache.messages[c]
    BY <1>5, <2>1, <2>4 DEF NothingMissing
  <2> QED
    BY <2>2, <2>3, <2>4
<1>9. cache.conversations \subseteq Conversations
  BY <1>1, CacheFields
<1>10. \A c \in cache.conversations : c \in Conversations /\ u \in conv[c].members
  BY <1>7, <1>9
<1>11. cache.conversations = {c \in Conversations : u \in conv[c].members}
  BY <1>8, <1>10
<1>12. ASSUME NEW c \in cache.conversations
       PROVE  cache.messages[c] \subseteq {Shown(c, m) : m \in Visible(c, u)}
  <2>1. \A old \in cache.messages[c] : old.id \in Visible(c, u) /\ old = Shown(c, old.id)
    BY <1>8, <1>10
  <2> QED
    BY <2>1
<1> QED
  BY <1>8, <1>10, <1>11, <1>12

(* A device that has followed its stream to its end shows what the database *)
(* has, whatever was sent, edited, recalled, deleted or hidden, whoever     *)
(* left or came back, and however often it was sent back to a rebuild       *)
(* (SyncMessages, applyChange).                                             *)
THEOREM FollowersComplete ==
  ASSUME StartsWithOffset PROVE Spec => []UpToDateMeansComplete
<1>1. Init => SyncInv
  BY InitSync
<1>2. SyncInv /\ [Next]_vars => SyncInv'
  BY StepSync
<1>3. SyncInv => UpToDateMeansComplete
  BY FollowedMeansComplete
<1> QED
  BY <1>1, <1>2, <1>3, PTL DEF Spec

=============================================================================
