------------------------ MODULE RunAcceptance_proofs ------------------------
(***************************************************************************)
(* What holds of the acceptance of runs for any number of bots, consumers, *)
(* messages, changes of the conversation and failures.                     *)
(***************************************************************************)
EXTENDS RunAcceptance, TLAPS

(* Types                                                                    *)

(* The conversation, and what the consumers have of it. *)
RoomTyped ==
    /\ sent \in Seq(Messages) /\ Len(sent) <= MaxSent
    /\ seat \in [Guests -> Seats]
    /\ shape \in [Guests -> {"active", "disabled", "deleted"}]
    /\ room \in [sender: BOOLEAN, admin: BOOLEAN]
    /\ card \in [guest: Guests, inc: Incs, state: {"unsent", "sent", "committed"}]
    /\ hook \in BOOLEAN
    /\ leeway \in [choices: 0 .. MaxChoices, upsets: 0 .. MaxUpsets]
WorkTyped ==
    /\ records \in Seq(1 .. Len(sent))
    /\ holder \in Readers /\ marked \in 0 .. Len(records)
    /\ reader \in [Readers -> Handlings]
    /\ turns \in Seq(Turns)
(* A reader stands at a record, or behind the last one. *)
PlacesTyped == \A h \in Readers :
    /\ reader[h].next \in 1 .. Len(records) + 1
    /\ reader[h].at # "idle" => reader[h].next \in DOMAIN records
(* Every new binding and every save spends one of the choices. *)
ChoicesLeft == \A b \in Guests :
    /\ seat[b].inc + leeway.choices <= MaxChoices + 1
    /\ seat[b].saved + leeway.choices <= MaxChoices + 1

TypeInv == RoomTyped /\ WorkTyped /\ PlacesTyped /\ ChoicesLeft

(* The typing invariant contains the types that the run checks. *)
LEMMA TypeInvTyped == TypeInv => AcceptanceTypeOK
  BY DEF TypeInv, RoomTyped, WorkTyped, AcceptanceTypeOK

(* The bounds are numbers. *)
LEMMA Bounds ==
  MaxSent \in Nat /\ MaxChoices \in Nat /\ MaxUpsets \in Nat /\ MaxRules \in Nat
  BY AcceptanceAssumption

(* The number of a mention is that of no rule. *)
LEMMA RuleNumbers == Rules \subseteq 0 .. MaxRules /\ 0 \in 0 .. MaxRules /\ 0 \notin Rules
  BY Bounds DEF Rules

(* What is written down of the bindings when a message is sent.             *)
LEMMA StandingTyped ==
  ASSUME NEW ms, ms \in Seq(Messages), NEW m \in DOMAIN ms
  PROVE  /\ ms[m] \in Messages /\ ms[m].mentions \subseteq Guests
         /\ \A b \in Guests : ms[m].standing[b].saved \in Nat
<1>1. ms[m] \in Messages
  OBVIOUS
<1>2. \A x \in Messages :
        /\ x.mentions \subseteq Guests
        /\ x.standing \in [Guests -> [inc: Incs, saved: Incs, rules: SUBSET Rules]]
  BY DEF Messages
<1>3. \A y \in [inc: Incs, saved: Incs, rules: SUBSET Rules] : y.saved \in Nat
  BY Bounds DEF Incs
<1> QED
  BY <1>1, <1>2, <1>3

(* The incarnations and versions of the bindings are numbers. *)
LEMMA SeatNumbers ==
  ASSUME RoomTyped
  PROVE  \A b \in Guests : /\ seat[b].inc \in Nat /\ seat[b].saved \in Nat
                           /\ seat[b].inc \in Incs /\ seat[b].saved \in Incs
<1> SUFFICES ASSUME NEW b \in Guests
             PROVE  /\ seat[b].inc \in Nat /\ seat[b].saved \in Nat
                    /\ seat[b].inc \in Incs /\ seat[b].saved \in Incs
  OBVIOUS
<1>1. seat[b] \in Seats
  BY DEF RoomTyped
<1>2. seat[b].inc \in Incs /\ seat[b].saved \in Incs
  BY <1>1 DEF Seats
<1> QED
  BY <1>2, Bounds DEF Incs

(* What a bound pays for. *)
LEMMA Paid ==
  ASSUME RoomTyped
  PROVE  /\ Chooses => /\ leeway'.choices = leeway.choices - 1 /\ leeway.choices \in Nat
                       /\ leeway'.choices \in Nat /\ leeway.choices <= MaxChoices
         /\ Chooses \/ Upset \/ UNCHANGED leeway
                => leeway' \in [choices: 0 .. MaxChoices, upsets: 0 .. MaxUpsets]
         /\ Upset \/ UNCHANGED leeway => leeway'.choices = leeway.choices
  BY Bounds DEF RoomTyped, Chooses, Upset, Takes1

(* Sequences over a set are sequences over a larger one. *)
LEMMA SeqGrows == ASSUME NEW S, NEW T, S \subseteq T PROVE Seq(S) \subseteq Seq(T)
  OBVIOUS

(* A message that is spoiled for some bots changes in nothing else. *)
SpoiltFor(text, B) == [text EXCEPT !.spoilt = @ \cup B]
LEMMA SpoiltTyped ==
  ASSUME NEW text \in Messages, NEW B \in SUBSET Guests
  PROVE  /\ SpoiltFor(text, B) \in Messages
         /\ SpoiltFor(text, B).mentions = text.mentions /\ SpoiltFor(text, B).fits = text.fits
         /\ SpoiltFor(text, B).cites = text.cites
         /\ SpoiltFor(text, B).edited = text.edited /\ SpoiltFor(text, B).gone = text.gone
         /\ SpoiltFor(text, B).standing = text.standing
         /\ SpoiltFor(text, B).spoilt = text.spoilt \cup B
  BY DEF SpoiltFor, Messages

(* Spoiling leaves the messages where they are. *)
LEMMA SpoilTyped ==
  ASSUME RoomTyped, NEW P, NEW B \in SUBSET Guests
  PROVE  /\ Spoil(P, B) \in Seq(Messages)
         /\ DOMAIN Spoil(P, B) = DOMAIN sent /\ Len(Spoil(P, B)) = Len(sent)
         /\ \A m \in DOMAIN sent : Spoil(P, B)[m] = IF m \in P THEN SpoiltFor(sent[m], B)
                                                    ELSE sent[m]
<1>1. \A m \in DOMAIN sent : Spoil(P, B)[m] = IF m \in P THEN SpoiltFor(sent[m], B)
                                              ELSE sent[m]
  BY DEF Spoil, SpoiltFor
<1>2. \A m \in DOMAIN sent : Spoil(P, B)[m] \in Messages
  BY <1>1, SpoiltTyped DEF RoomTyped
<1>3. DOMAIN Spoil(P, B) = DOMAIN sent /\ sent \in Seq(Messages)
  BY DEF RoomTyped, Spoil
<1>4. Spoil(P, B) = [m \in DOMAIN sent |-> Spoil(P, B)[m]]
  BY DEF Spoil
<1>5. DOMAIN sent = 1 .. Len(sent) /\ Len(sent) \in Nat
  BY <1>3
<1>6. Spoil(P, B) \in [1 .. Len(sent) -> Messages]
  BY <1>2, <1>4, <1>5
<1>7. Spoil(P, B) \in Seq(Messages) /\ Len(Spoil(P, B)) = Len(sent)
  BY <1>3, <1>5, <1>6
<1> QED
  BY <1>1, <1>3, <1>7

(* A save of the settings of a binding. *)
LEMMA SaveTyped ==
  ASSUME NEW s \in Seats, NEW mode \in Modes, NEW rules \in SUBSET Rules,
         Len(sent) \in 0 .. MaxSent
  PROVE  LET n == Stamped(s, mode, rules)
         IN  /\ s.saved + 1 \in Incs => n \in Seats
             /\ n.inc = s.inc /\ n.start = s.start /\ n.live = s.live
             /\ n.saved = s.saved + 1 /\ n.ruleStart = Len(sent) /\ n.mode = mode
             /\ n.rules = rules
             /\ (mode = "silent" <=> s.mode = "silent") => n.epoch = s.epoch
<1> DEFINE n == Stamped(s, mode, rules)
           epoch == IF (mode = "silent") # (s.mode = "silent") THEN s.epoch + 1 ELSE s.epoch
<1>1. n = [s EXCEPT !.mode = mode, !.rules = rules, !.saved = s.saved + 1,
                    !.ruleStart = Len(sent), !.epoch = epoch]
  BY DEF Stamped
<1>2. epoch \in Nat /\ ((mode = "silent" <=> s.mode = "silent") => epoch = s.epoch)
  <2>1. s.epoch \in Nat /\ s.epoch + 1 \in Nat
    BY DEF Seats
  <2> QED
    BY <2>1
<1> HIDE DEF n, epoch
<1>3. /\ s.saved + 1 \in Incs => n \in Seats
      /\ n.inc = s.inc /\ n.start = s.start /\ n.live = s.live
      /\ n.saved = s.saved + 1 /\ n.ruleStart = Len(sent) /\ n.mode = mode
      /\ n.rules = rules /\ n.epoch = epoch
  BY <1>1, <1>2 DEF Seats
<1> QED
  BY <1>2, <1>3 DEF n

(* A new binding has no settings, or its first. *)
NewSeats(s) == {NewSeat(s)} \cup {Stamped(NewSeat(s), "watching", rules) : rules \in SUBSET Rules}
LEMMA NewSeatTyped ==
  ASSUME NEW s \in Seats, s.inc + 1 \in Incs, Len(sent) \in 0 .. MaxSent,
         NEW n \in NewSeats(s)
  PROVE  /\ n \in Seats /\ n.inc = s.inc + 1 /\ n.saved \in {0, 1}
         /\ n.live /\ n.start = Len(sent) /\ n.ruleStart <= Len(sent)
         /\ n.rules # {} => n.mode # "plain"
<1>1. 0 \in Incs /\ 1 \in Incs /\ 0 \in 0 .. MaxSent
  BY Bounds DEF Incs
<1> DEFINE t == NewSeat(s)
<1>2. t \in Seats /\ t.inc = s.inc + 1 /\ t.saved = 0 /\ t.live /\ t.start = Len(sent)
      /\ t.ruleStart = 0 /\ t.rules = {}
  BY <1>1 DEF NewSeat, NoSeat, Seats, Modes
<1>3. "watching" \in Modes /\ t.saved + 1 = 1
  BY <1>2 DEF Modes
<1> HIDE DEF t
<1>4. 0 <= Len(sent) /\ Len(sent) <= Len(sent)
  BY Bounds
<1>5. ASSUME NEW mode \in Modes, NEW rules \in SUBSET Rules
      PROVE  LET u == Stamped(t, mode, rules)
             IN  /\ u \in Seats /\ u.inc = t.inc /\ u.saved = 1 /\ u.live = t.live
                 /\ u.start = t.start /\ u.ruleStart = Len(sent) /\ u.mode = mode
  <2> DEFINE u == Stamped(t, mode, rules)
  <2>0. t \in Seats
    BY <1>2
  <2>1. /\ t.saved + 1 \in Incs => u \in Seats
        /\ u.inc = t.inc /\ u.start = t.start /\ u.live = t.live
        /\ u.saved = t.saved + 1 /\ u.ruleStart = Len(sent) /\ u.mode = mode
    BY <2>0, SaveTyped
  <2> HIDE DEF u
  <2>2. u \in Seats /\ u.saved = 1
    BY <1>1, <1>3, <2>1
  <2> QED
    BY <2>1, <2>2 DEF u
<1>6. CASE n = t
  BY <1>2, <1>4, <1>6
<1>7. CASE \E rules \in SUBSET Rules : n = Stamped(t, "watching", rules)
  <2>1. PICK rules \in SUBSET Rules : n = Stamped(t, "watching", rules)
    BY <1>7
  <2>2. /\ n \in Seats /\ n.inc = t.inc /\ n.saved = 1 /\ n.live = t.live
        /\ n.start = t.start /\ n.ruleStart = Len(sent) /\ n.mode = "watching"
    BY <1>3, <1>5, <2>1
  <2> QED
    BY <1>2, <1>4, <2>2
<1> QED
  BY <1>6, <1>7 DEF NewSeats, t

-----------------------------------------------------------------------------
(* What the conversation does                                               *)
(*                                                                          *)
(* A message keeps what it says and what stood when it was sent.  A binding *)
(* of a later incarnation, and a later version of its settings, begin       *)
(* behind the newest message.  A step that may refuse what a message asks   *)
(* of a bot says so in the message.                                         *)

ConversationStep ==
    \/ SendText \/ ChangeText \/ LeaveRoom \/ PublishCard
    \/ \E b \in Guests : SaveSettings(b) \/ RemoveGuest(b) \/ AddGuest(b) \/ ReshapeBot(b)

MessageKept(m) ==
    /\ m \in DOMAIN sent'
    /\ sent'[m].mentions = sent[m].mentions /\ sent'[m].fits = sent[m].fits
    /\ sent'[m].cites = sent[m].cites /\ sent'[m].standing = sent[m].standing
    /\ sent[m].spoilt \subseteq sent'[m].spoilt
    /\ \/ Guests \subseteq sent'[m].spoilt
       \/ sent'[m].edited = sent[m].edited /\ sent'[m].gone = sent[m].gone
(* A binding with rules is subscribed to messages, or does not participate. *)
Watched(b) == seat[b].rules # {} => seat[b].mode # "plain"
SeatKept(b) ==
    /\ Watched(b) => Watched(b)'
    /\ seat[b].inc <= seat'[b].inc
    /\ seat'[b].inc = seat[b].inc =>
          /\ seat'[b].start = seat[b].start /\ (seat'[b].live => seat[b].live)
          /\ seat[b].saved <= seat'[b].saved
          /\ \/ seat'[b].ruleStart = Len(sent) /\ seat[b].saved < seat'[b].saved
             \/ /\ seat'[b].saved = seat[b].saved /\ seat'[b].ruleStart = seat[b].ruleStart
                /\ seat'[b].rules = seat[b].rules
    /\ seat'[b].inc # seat[b].inc =>
          seat'[b].start = Len(sent) /\ seat'[b].ruleStart <= Len(sent)
BotKept(b) ==
    \/ ~Participates(b)
    \/ \A m \in DOMAIN sent : b \in sent'[m].spoilt
    \/ /\ Participates(b)' /\ room'.sender = room.sender
       /\ seat'[b].inc = seat[b].inc /\ seat'[b].start = seat[b].start
       /\ seat'[b].epoch = seat[b].epoch
(* A message that was just sent. *)
MessageNew(m) ==
    /\ m = Len(sent) + 1 /\ seat' = seat /\ shape' = shape /\ room' = room /\ card' = card
    /\ room.sender /\ ~sent'[m].edited /\ ~sent'[m].gone
    /\ sent'[m].cites = "committed" => card.state = "committed"
    /\ \A b \in Guests :
          /\ seat[b].live => /\ sent'[m].standing[b].inc = seat[b].inc
                             /\ sent'[m].standing[b].saved = seat[b].saved
                             /\ sent'[m].standing[b].rules = seat[b].rules
          /\ b \notin sent'[m].spoilt => Participates(b) /\ sent'[m].cites = "nothing"
Talk ==
    /\ UNCHANGED <<holder, marked, reader, turns>>
    /\ Len(sent) <= Len(sent')
    /\ \/ records' = records
       \/ records' = Append(records, Len(sent')) /\ Len(sent') > 0
    /\ \A m \in DOMAIN sent : MessageKept(m)
    /\ \A m \in DOMAIN sent' \ DOMAIN sent : MessageNew(m)
    /\ \A b \in Guests : SeatKept(b) /\ BotKept(b)
    /\ card'.guest = card.guest /\ card'.inc = card.inc
    /\ card.state = "committed" => card'.state = "committed"
    /\ room'.admin => room.admin

(* A message that nothing happened to is kept, and so are bindings and bots.*)
LEMMA NothingHappened ==
  ASSUME RoomTyped
  PROVE  /\ sent' = sent => \A m \in DOMAIN sent : MessageKept(m)
         /\ seat' = seat => \A b \in Guests : SeatKept(b)
         /\ seat' = seat /\ shape' = shape /\ room' = room => \A b \in Guests : BotKept(b)
<1>1. \A b \in Guests : seat[b].inc <= seat[b].inc /\ seat[b].saved <= seat[b].saved
  <2>1. \A b \in Guests : seat[b].inc \in Nat /\ seat[b].saved \in Nat
    BY SeatNumbers
  <2> QED
    BY <2>1
<1>2. sent' = sent => \A m \in DOMAIN sent : MessageKept(m)
  BY DEF MessageKept
<1>3. seat' = seat => \A b \in Guests : SeatKept(b)
  BY <1>1 DEF SeatKept, Watched
<1>4. seat' = seat /\ shape' = shape /\ room' = room => \A b \in Guests : BotKept(b)
  BY DEF BotKept, Participates
<1> QED
  BY <1>2, <1>3, <1>4

(* Spoiled messages are kept. *)
LEMMA SpoilKeeps ==
  ASSUME RoomTyped, NEW P, NEW B \in SUBSET Guests, sent' = Spoil(P, B)
  PROVE  /\ sent' \in Seq(Messages) /\ Len(sent') = Len(sent) /\ DOMAIN sent' = DOMAIN sent
         /\ \A m \in DOMAIN sent : MessageKept(m) /\ (m \in P => B \subseteq sent'[m].spoilt)
<1>1. /\ sent' \in Seq(Messages) /\ Len(sent') = Len(sent) /\ DOMAIN sent' = DOMAIN sent
      /\ \A m \in DOMAIN sent : sent'[m] = IF m \in P THEN SpoiltFor(sent[m], B)
                                           ELSE sent[m]
  BY SpoilTyped
<1>2. ASSUME NEW m \in DOMAIN sent
      PROVE  MessageKept(m) /\ (m \in P => B \subseteq sent'[m].spoilt)
  <2>1. sent[m] \in Messages
    BY DEF RoomTyped
  <2> QED
    BY <1>1, <2>1, SpoiltTyped DEF MessageKept
<1> QED
  BY <1>1, <1>2

(* A message is sent. *)
LEMMA SendTextTalks ==
  ASSUME TypeInv, SendText
  PROVE  RoomTyped' /\ ChoicesLeft' /\ Talk
<1> DEFINE n == Len(sent) + 1
<1>0. RoomTyped /\ ChoicesLeft /\ UNCHANGED <<seat, shape, room, card, hook, leeway, holder, marked, reader, turns>>
  BY DEF TypeInv, SendText
<1>1. PICK mentions \in SUBSET Guests, fits \in SUBSET Rules,
           cites \in {"nothing"} \cup (IF card.state = "unsent" THEN {} ELSE {card.state}) :
        sent' = Append(sent,
              [mentions |-> mentions, fits |-> fits, cites |-> cites,
               edited |-> FALSE, gone |-> FALSE,
               standing |-> [b \in Guests |-> Standing(seat[b])],
               spoilt |-> {b \in Guests : cites # "nothing" \/ ~Participates(b)}])
  BY DEF SendText
<1> DEFINE standing == [b \in Guests |-> Standing(seat[b])]
           spoilt == {b \in Guests : cites # "nothing" \/ ~Participates(b)}
           text == [mentions |-> mentions, fits |-> fits, cites |-> cites,
                    edited |-> FALSE, gone |-> FALSE,
                    standing |-> standing, spoilt |-> spoilt]
<1>2. sent' = Append(sent, text)
  BY <1>1
<1>3. text \in Messages
  <2>1. cites \in {"nothing", "sent", "committed"}
    BY <1>0 DEF RoomTyped
  <2>2. standing \in [Guests -> [inc: Incs, saved: Incs, rules: SUBSET Rules]]
    <3>0. 0 \in Incs
      BY Bounds DEF Incs
    <3>1. \A b \in Guests : /\ seat[b].inc \in Incs /\ seat[b].saved \in Incs
                            /\ seat[b].rules \in SUBSET Rules
      BY <1>0 DEF RoomTyped, Seats
    <3>2. \A b \in Guests : Standing(seat[b]) \in [inc: Incs, saved: Incs, rules: SUBSET Rules]
      BY <3>0, <3>1 DEF Standing
    <3> QED
      BY <3>2
  <2> QED
    BY <2>1, <2>2 DEF Messages
<1>4. /\ \A b \in Guests : seat[b].live => /\ standing[b].inc = seat[b].inc
                                           /\ standing[b].saved = seat[b].saved
                                           /\ standing[b].rules = seat[b].rules
      /\ \A b \in Guests : b \notin spoilt => Participates(b) /\ cites = "nothing"
      /\ cites = "committed" => card.state = "committed"
  BY DEF Standing
<1>5. /\ text.mentions = mentions /\ text.cites = cites /\ ~text.edited /\ ~text.gone
      /\ text.standing = standing /\ text.spoilt = spoilt
  OBVIOUS
<1> HIDE DEF text, standing, spoilt
<1>6. /\ sent' \in Seq(Messages) /\ Len(sent') = n /\ DOMAIN sent' = DOMAIN sent \cup {n}
      /\ n \notin DOMAIN sent /\ sent'[n] = text /\ n <= MaxSent /\ n > 0
      /\ \A m \in DOMAIN sent : sent'[m] = sent[m]
  BY <1>0, <1>2, <1>3, Bounds DEF RoomTyped, SendText
<1>7. RoomTyped' /\ ChoicesLeft'
  BY <1>0, <1>6 DEF RoomTyped, ChoicesLeft
<1>8. \A m \in DOMAIN sent : MessageKept(m)
  BY <1>6 DEF MessageKept
<1>9. MessageNew(n)
  BY <1>0, <1>4, <1>5, <1>6 DEF MessageNew, SendText
<1>10. \A b \in Guests : SeatKept(b) /\ BotKept(b)
  BY <1>0, NothingHappened
<1>11. records' = Append(records, Len(sent')) /\ Len(sent) <= Len(sent')
  BY <1>0, <1>6 DEF SendText, RoomTyped
<1> HIDE DEF n
<1> QED
  BY <1>0, <1>6, <1>7, <1>8, <1>9, <1>10, <1>11 DEF Talk

(* Choices that leave the bindings alone, or give one a new row. *)
LEMMA ChoicesSpent ==
  ASSUME RoomTyped, ChoicesLeft, Chooses,
         \/ seat' = seat
         \/ \E b \in Guests, s \in Seats :
              /\ seat' = [seat EXCEPT ![b] = s]
              /\ s.inc \in {seat[b].inc, seat[b].inc + 1}
              /\ s.saved \in {0, 1, seat[b].saved, seat[b].saved + 1}
  PROVE  /\ ChoicesLeft' /\ seat' \in [Guests -> Seats]
         /\ leeway' \in [choices: 0 .. MaxChoices, upsets: 0 .. MaxUpsets]
<1>1. \A b \in Guests : seat[b].inc \in Nat /\ seat[b].saved \in Nat
  BY SeatNumbers
<1>2. leeway'.choices = leeway.choices - 1 /\ leeway.choices \in Nat
      /\ leeway.choices <= MaxChoices
      /\ leeway' \in [choices: 0 .. MaxChoices, upsets: 0 .. MaxUpsets]
  BY Paid
<1>3. CASE seat' = seat
  <2>1. \A a \in Guests : /\ seat'[a].inc + leeway'.choices <= MaxChoices + 1
                          /\ seat'[a].saved + leeway'.choices <= MaxChoices + 1
    <3> SUFFICES ASSUME NEW a \in Guests
                 PROVE  /\ seat'[a].inc + leeway'.choices <= MaxChoices + 1
                        /\ seat'[a].saved + leeway'.choices <= MaxChoices + 1
      OBVIOUS
    <3>1. /\ seat[a].inc + leeway.choices <= MaxChoices + 1
          /\ seat[a].saved + leeway.choices <= MaxChoices + 1
      BY DEF ChoicesLeft
    <3> QED
      BY <1>1, <1>2, <1>3, <3>1, Bounds
  <2> QED
    BY <1>2, <1>3, <2>1 DEF RoomTyped, ChoicesLeft
<1>4. ASSUME NEW b \in Guests, NEW s \in Seats,
             seat' = [seat EXCEPT ![b] = s],
             s.inc \in {seat[b].inc, seat[b].inc + 1},
             s.saved \in {0, 1, seat[b].saved, seat[b].saved + 1}
      PROVE  ChoicesLeft' /\ seat' \in [Guests -> Seats]
  <2>1. seat' \in [Guests -> Seats] /\ seat'[b] = s
        /\ \A a \in Guests \ {b} : seat'[a] = seat[a]
    BY <1>4 DEF RoomTyped
  <2>2. \A a \in Guests : /\ seat'[a].inc + leeway'.choices <= MaxChoices + 1
                          /\ seat'[a].saved + leeway'.choices <= MaxChoices + 1
    BY <1>1, <1>2, <1>4, <2>1, Bounds DEF ChoicesLeft
  <2> QED
    BY <2>1, <2>2 DEF ChoicesLeft
<1> QED
  BY <1>2, <1>3, <1>4

(* A step that sends no message. *)
LEMMA TalkOfOld ==
  ASSUME RoomTyped, Len(sent') = Len(sent), DOMAIN sent' = DOMAIN sent,
         UNCHANGED <<records, holder, marked, reader, turns>>,
         \A m \in DOMAIN sent : MessageKept(m),
         \A b \in Guests : SeatKept(b),
         \A b \in Guests : BotKept(b),
         card'.guest = card.guest, card'.inc = card.inc,
         card.state = "committed" => card'.state = "committed",
         room'.admin => room.admin
  PROVE  Talk
<1>1. Len(sent) <= Len(sent')
  BY DEF RoomTyped
<1> QED
  BY <1>1 DEF Talk

(* A message is edited, recalled or hidden. *)
LEMMA ChangeTextTalks ==
  ASSUME TypeInv, ChangeText
  PROVE  RoomTyped' /\ ChoicesLeft' /\ Talk
<1>0. /\ RoomTyped /\ ChoicesLeft
      /\ UNCHANGED <<records, holder, marked, reader, seat, shape, room, card, hook, turns>>
  BY DEF TypeInv, ChangeText
<1>1. PICK m \in DOMAIN sent, field \in {"edited", "gone"} :
        sent' = [Spoil({m}, Guests) EXCEPT ![m][field] = TRUE]
  BY DEF ChangeText
<1> DEFINE s == Spoil({m}, Guests)
           text == [s[m] EXCEPT ![field] = TRUE]
<1>2. /\ s \in Seq(Messages) /\ Len(s) = Len(sent) /\ DOMAIN s = DOMAIN sent
      /\ \A k \in DOMAIN sent : s[k] = IF k \in {m} THEN SpoiltFor(sent[k], Guests)
                                       ELSE sent[k]
  BY <1>0, SpoilTyped
<1>3. sent' = [s EXCEPT ![m] = text]
  BY <1>1
<1>4. /\ text \in Messages /\ text.mentions = s[m].mentions
      /\ text.fits = s[m].fits /\ text.cites = s[m].cites
      /\ text.standing = s[m].standing /\ text.spoilt = s[m].spoilt
  <2>1. s[m] \in Messages
    BY <1>2
  <2> QED
    BY <2>1 DEF Messages
<1> HIDE DEF s, text
<1>5. /\ sent' \in Seq(Messages) /\ Len(sent') = Len(sent) /\ DOMAIN sent' = DOMAIN sent
      /\ sent'[m] = text /\ \A k \in DOMAIN sent \ {m} : sent'[k] = sent[k]
  BY <1>2, <1>3, <1>4
<1>6. ASSUME NEW k \in DOMAIN sent PROVE MessageKept(k)
  <2>1. sent[k] \in Messages
    BY <1>0 DEF RoomTyped
  <2>2. CASE k = m
    <3>1. s[k] = SpoiltFor(sent[k], Guests)
      BY <1>2, <2>2
    <3> QED
      BY <1>4, <1>5, <2>1, <2>2, <3>1, SpoiltTyped DEF MessageKept
  <2>3. CASE k # m
    BY <1>5, <2>3 DEF MessageKept
  <2> QED
    BY <2>2, <2>3
<1>7. \A b \in Guests : SeatKept(b) /\ BotKept(b)
  BY <1>0, NothingHappened
<1>8. Chooses
  BY DEF ChangeText
<1>9. RoomTyped' /\ ChoicesLeft'
  <2>1. /\ ChoicesLeft' /\ seat' \in [Guests -> Seats]
        /\ leeway' \in [choices: 0 .. MaxChoices, upsets: 0 .. MaxUpsets]
    BY <1>0, <1>8, ChoicesSpent
  <2> QED
    BY <1>0, <1>5, <2>1 DEF RoomTyped
<1> QED
  BY <1>0, <1>5, <1>6, <1>7, <1>9, TalkOfOld

(* Another incarnation, or another version, is a number of the bound. *)
LEMMA NextFits ==
  ASSUME RoomTyped, ChoicesLeft, Chooses, NEW b \in Guests
  PROVE  seat[b].inc + 1 \in Incs /\ seat[b].saved + 1 \in Incs
<1>1. seat[b].inc \in Nat /\ seat[b].saved \in Nat
  BY SeatNumbers
<1>2. leeway.choices \in Nat /\ leeway.choices - 1 \in Nat
  BY Paid
<1>3. seat[b].inc + leeway.choices <= MaxChoices + 1
      /\ seat[b].saved + leeway.choices <= MaxChoices + 1
  BY DEF ChoicesLeft
<1> QED
  BY <1>1, <1>2, <1>3, Bounds DEF Incs

(* A member leaves, or a result is published. *)
LEMMA RoomTalks ==
  ASSUME TypeInv, LeaveRoom \/ PublishCard
  PROVE  RoomTyped' /\ ChoicesLeft' /\ Talk
<1>0. RoomTyped /\ ChoicesLeft
  BY DEF TypeInv
<1>1. CASE LeaveRoom
  <2>1. /\ UNCHANGED <<records, holder, marked, reader, seat, shape, card, hook, turns>>
        /\ Chooses
    BY <1>1 DEF LeaveRoom
  <2>2. PICK who \in {"sender", "admin"} :
          /\ room' = [room EXCEPT ![who] = FALSE]
          /\ sent' = IF who = "sender" THEN Spoil(DOMAIN sent, Guests) ELSE sent
    BY <1>1 DEF LeaveRoom
  <2>3. /\ sent' \in Seq(Messages) /\ Len(sent') = Len(sent) /\ DOMAIN sent' = DOMAIN sent
        /\ \A m \in DOMAIN sent :
             MessageKept(m) /\ (who = "sender" => Guests \subseteq sent'[m].spoilt)
    <3>1. CASE who = "sender"
      BY <1>0, <2>2, <3>1, SpoilKeeps
    <3>2. CASE who # "sender"
      BY <1>0, <2>2, <3>2, NothingHappened DEF RoomTyped
    <3> QED
      BY <3>1, <3>2
  <2>4. /\ room' \in [sender: BOOLEAN, admin: BOOLEAN]
        /\ who # "sender" => room'.sender = room.sender
        /\ room'.admin => room.admin
    BY <1>0, <2>2 DEF RoomTyped
  <2>5. \A b \in Guests : SeatKept(b)
    BY <1>0, <2>1, NothingHappened
  <2>6. \A b \in Guests : BotKept(b)
    BY <2>1, <2>3, <2>4 DEF BotKept, Participates
  <2>7. RoomTyped' /\ ChoicesLeft'
    <3>1. ChoicesLeft' /\ seat' \in [Guests -> Seats]
          /\ leeway' \in [choices: 0 .. MaxChoices, upsets: 0 .. MaxUpsets]
      BY <1>0, <2>1, ChoicesSpent
    <3> QED
      BY <1>0, <2>1, <2>3, <2>4, <3>1 DEF RoomTyped
  <2> QED
    BY <1>0, <2>1, <2>3, <2>4, <2>5, <2>6, <2>7, TalkOfOld
<1>2. CASE PublishCard
  <2>1. UNCHANGED <<sent, records, holder, marked, reader, seat, shape, room, hook, turns>>
        /\ Chooses
    BY <1>2 DEF PublishCard
  <2>2. /\ card' \in [guest: Guests, inc: Incs, state: {"unsent", "sent", "committed"}]
        /\ card'.guest = card.guest /\ card'.inc = card.inc
        /\ card.state = "committed" => card'.state = "committed"
    BY <1>0, <1>2 DEF RoomTyped, PublishCard
  <2>3. RoomTyped' /\ ChoicesLeft'
    <3>1. ChoicesLeft' /\ leeway' \in [choices: 0 .. MaxChoices, upsets: 0 .. MaxUpsets]
      BY <1>0, <2>1, ChoicesSpent
    <3> QED
      BY <1>0, <2>1, <2>2, <3>1 DEF RoomTyped
  <2>4. /\ \A m \in DOMAIN sent : MessageKept(m)
        /\ \A b \in Guests : SeatKept(b) /\ BotKept(b)
    BY <1>0, <2>1, NothingHappened
  <2> QED
    BY <1>0, <2>1, <2>2, <2>3, <2>4, TalkOfOld
<1> QED
  BY <1>1, <1>2

(* Settings are saved, and a bot is removed, added, disabled, enabled or    *)
(* deleted.                                                                 *)
LEMMA SeatTalks ==
  ASSUME TypeInv, NEW b \in Guests,
         SaveSettings(b) \/ RemoveGuest(b) \/ AddGuest(b) \/ ReshapeBot(b)
  PROVE  RoomTyped' /\ ChoicesLeft' /\ Talk
<1>0. /\ RoomTyped /\ ChoicesLeft /\ Chooses
      /\ UNCHANGED <<records, holder, marked, reader, room, card, hook, turns>>
  BY DEF TypeInv, SaveSettings, RemoveGuest, AddGuest, ReshapeBot
<1>1. /\ seat[b] \in Seats /\ Len(sent) \in 0 .. MaxSent
      /\ seat[b].inc \in Nat /\ seat[b].saved \in Nat /\ seat[b].epoch \in Nat
      /\ seat[b].inc + 1 \in Incs /\ seat[b].saved + 1 \in Incs
  <2>1. seat[b] \in Seats /\ Len(sent) \in 0 .. MaxSent
    BY <1>0, Bounds DEF RoomTyped
  <2>2. seat[b].inc + 1 \in Incs /\ seat[b].saved + 1 \in Incs
    BY <1>0, NextFits
  <2> QED
    BY <2>1, <2>2, Bounds DEF Seats, Incs
<1>2. /\ sent' = sent \/ sent' = Spoil(DOMAIN sent, {b})
      /\ shape' \in [Guests -> {"active", "disabled", "deleted"}]
      /\ \A a \in Guests \ {b} : shape'[a] = shape[a]
  <2>1. CASE ReshapeBot(b)
    BY <1>0, <2>1 DEF ReshapeBot, RoomTyped
  <2>2. CASE SaveSettings(b)
    BY <1>0, <2>2 DEF SaveSettings, RoomTyped
  <2>3. CASE RemoveGuest(b)
    BY <1>0, <2>3 DEF RemoveGuest, RoomTyped
  <2>4. CASE AddGuest(b)
    BY <1>0, <2>4 DEF AddGuest, RoomTyped
  <2> QED
    BY <1>0, <2>1, <2>2, <2>3, <2>4
<1>3. /\ sent' \in Seq(Messages) /\ Len(sent') = Len(sent) /\ DOMAIN sent' = DOMAIN sent
      /\ \A m \in DOMAIN sent : MessageKept(m)
      /\ sent' = Spoil(DOMAIN sent, {b}) => \A m \in DOMAIN sent : b \in sent'[m].spoilt
  <2>1. CASE sent' = sent
    <3>1. sent' = Spoil(DOMAIN sent, {b}) => \A m \in DOMAIN sent : b \in sent'[m].spoilt
      BY <1>0, SpoilKeeps
    <3> QED
      BY <1>0, <2>1, <3>1, NothingHappened DEF RoomTyped
  <2>2. CASE sent' = Spoil(DOMAIN sent, {b})
    <3> DEFINE P == DOMAIN sent
               B == {b}
    <3>1. sent' = Spoil(P, B) /\ B \in SUBSET Guests
      BY <2>2
    <3> HIDE DEF P, B
    <3>2. /\ sent' \in Seq(Messages) /\ Len(sent') = Len(sent) /\ DOMAIN sent' = DOMAIN sent
          /\ \A m \in DOMAIN sent : MessageKept(m) /\ (m \in P => B \subseteq sent'[m].spoilt)
      BY <1>0, <3>1, SpoilKeeps
    <3> QED
      BY <3>2 DEF P, B
  <2> QED
    BY <1>2, <2>1, <2>2
<1>4. PICK s \in Seats :
        /\ seat' = [seat EXCEPT ![b] = s]
        /\ Watched(b) => (s.rules # {} => s.mode # "plain")
        /\ \/ /\ s.inc = seat[b].inc /\ s.saved = seat[b].saved /\ s.start = seat[b].start
              /\ s.ruleStart = seat[b].ruleStart /\ (s.live => seat[b].live)
              /\ s.rules = seat[b].rules
              /\ sent' = Spoil(DOMAIN sent, {b})
           \/ /\ s.inc = seat[b].inc /\ s.saved = seat[b].saved + 1
              /\ s.start = seat[b].start /\ s.ruleStart = Len(sent) /\ s.live = seat[b].live
              /\ shape' = shape
              /\ \/ sent' = Spoil(DOMAIN sent, {b})
                 \/ /\ s.mode # "silent"
                    /\ seat[b].mode # "silent" => s.epoch = seat[b].epoch
           \/ /\ s.inc = seat[b].inc + 1 /\ s.saved \in {0, 1} /\ s.start = Len(sent)
              /\ s.ruleStart <= Len(sent) /\ ~seat[b].live
  <2>1. CASE SaveSettings(b)
    <3>1. PICK mode \in {"silent", "watching"}, rules \in SUBSET Rules :
            /\ seat' = [seat EXCEPT ![b] = Stamped(@, mode, rules)]
            /\ sent' = IF mode = "silent" THEN Spoil(DOMAIN sent, {b}) ELSE sent
      BY <2>1 DEF SaveSettings
    <3> DEFINE s == Stamped(seat[b], mode, rules)
    <3>2. /\ s \in Seats /\ s.inc = seat[b].inc /\ s.start = seat[b].start
          /\ s.live = seat[b].live /\ s.saved = seat[b].saved + 1
          /\ s.ruleStart = Len(sent) /\ s.mode = mode
          /\ (mode = "silent" <=> seat[b].mode = "silent") => s.epoch = seat[b].epoch
      <4>1. mode \in Modes
        BY DEF Modes
      <4> QED
        BY <1>1, <4>1, SaveTyped
    <3>3. seat' = [seat EXCEPT ![b] = s] /\ shape' = shape
      BY <2>1, <3>1 DEF SaveSettings
    <3> HIDE DEF s
    <3> QED
      BY <3>1, <3>2, <3>3
  <2>2. CASE RemoveGuest(b) \/ ReshapeBot(b)
    <3>1. \E live \in BOOLEAN :
            /\ seat' = [seat EXCEPT ![b] = [seat[b] EXCEPT !.live = live,
                                                           !.epoch = seat[b].epoch + 1]]
            /\ live => seat[b].live
      <4>1. CASE RemoveGuest(b)
        BY <4>1 DEF RemoveGuest
      <4>2. CASE ReshapeBot(b)
        <5>1. seat[b].live \in BOOLEAN
              /\ [seat[b] EXCEPT !.epoch = seat[b].epoch + 1]
                  = [seat[b] EXCEPT !.live = seat[b].live, !.epoch = seat[b].epoch + 1]
          BY <1>1 DEF Seats
        <5> QED
          BY <4>2, <5>1 DEF ReshapeBot
      <4> QED
        BY <2>2, <4>1, <4>2
    <3>2. PICK live \in BOOLEAN :
            /\ seat' = [seat EXCEPT ![b] = [seat[b] EXCEPT !.live = live,
                                                           !.epoch = seat[b].epoch + 1]]
            /\ live => seat[b].live
      BY <3>1
    <3> DEFINE s == [seat[b] EXCEPT !.live = live, !.epoch = seat[b].epoch + 1]
    <3>3. /\ s \in Seats /\ s.inc = seat[b].inc /\ s.saved = seat[b].saved
          /\ s.start = seat[b].start /\ s.ruleStart = seat[b].ruleStart /\ (s.live <=> live)
          /\ s.rules = seat[b].rules /\ s.mode = seat[b].mode
      <4>1. seat[b] \in Seats /\ seat[b].epoch + 1 \in Nat
        BY <1>1
      <4>2. \A r \in Seats, l \in BOOLEAN, n \in Nat :
              [r EXCEPT !.live = l, !.epoch = n] \in Seats
        BY DEF Seats
      <4>3. s \in Seats
        BY <4>1, <4>2
      <4>4. s.inc = seat[b].inc /\ s.saved = seat[b].saved /\ s.start = seat[b].start
            /\ s.ruleStart = seat[b].ruleStart /\ (s.live <=> live)
            /\ s.rules = seat[b].rules /\ s.mode = seat[b].mode
        BY <4>1 DEF Seats
      <4> QED
        BY <4>3, <4>4
    <3>4. sent' = Spoil(DOMAIN sent, {b})
      BY <2>2 DEF RemoveGuest, ReshapeBot
    <3> HIDE DEF s
    <3>5. seat' = [seat EXCEPT ![b] = s]
      BY <3>2 DEF s
    <3> QED
      BY <3>2, <3>3, <3>4, <3>5 DEF Watched
  <2>3. CASE AddGuest(b)
    <3>1. \E s \in NewSeats(seat[b]) : seat' = [seat EXCEPT ![b] = s]
      BY <2>3 DEF AddGuest, NewSeats
    <3>2. \A s \in NewSeats(seat[b]) :
            /\ s.rules # {} => s.mode # "plain"
            /\ s \in Seats /\ s.inc = seat[b].inc + 1 /\ s.saved \in {0, 1}
            /\ s.start = Len(sent) /\ s.ruleStart <= Len(sent)
      BY <1>1, NewSeatTyped
    <3> QED
      BY <2>3, <3>1, <3>2 DEF AddGuest
  <2> QED
    BY <2>1, <2>2, <2>3
<1>5. /\ seat'[b] = s /\ \A a \in Guests \ {b} : seat'[a] = seat[a]
  BY <1>0, <1>4 DEF RoomTyped
<1>6. \A a \in Guests : SeatKept(a)
  <2>1. \A a \in Guests \ {b} : SeatKept(a)
    <3>1. \A a \in Guests : seat[a].inc <= seat[a].inc /\ seat[a].saved <= seat[a].saved
      <4>1. \A a \in Guests : seat[a].inc \in Nat /\ seat[a].saved \in Nat
        BY <1>0, SeatNumbers
      <4> QED
        BY <4>1
    <3> QED
      BY <1>5, <3>1 DEF SeatKept, Watched
  <2>2. SeatKept(b)
    <3>1. Watched(b) => Watched(b)'
      BY <1>4, <1>5 DEF Watched
    <3>2. CASE /\ s.inc = seat[b].inc /\ s.saved = seat[b].saved /\ s.start = seat[b].start
               /\ s.ruleStart = seat[b].ruleStart /\ (s.live => seat[b].live)
               /\ s.rules = seat[b].rules
      BY <1>1, <1>5, <3>1, <3>2 DEF SeatKept
    <3>3. CASE /\ s.inc = seat[b].inc /\ s.saved = seat[b].saved + 1
               /\ s.start = seat[b].start /\ s.ruleStart = Len(sent) /\ s.live = seat[b].live
      BY <1>1, <1>5, <3>1, <3>3 DEF SeatKept
    <3>4. CASE /\ s.inc = seat[b].inc + 1 /\ s.start = Len(sent)
               /\ s.ruleStart <= Len(sent)
      BY <1>1, <1>5, <3>1, <3>4 DEF SeatKept
    <3> QED
      BY <1>4, <3>2, <3>3, <3>4
  <2> QED
    BY <2>1, <2>2
<1>7. \A a \in Guests : BotKept(a)
  <2>1. \A a \in Guests \ {b} : BotKept(a)
    BY <1>0, <1>2, <1>5 DEF BotKept, Participates
  <2>2. BotKept(b)
    <3>1. CASE sent' = Spoil(DOMAIN sent, {b})
      BY <1>3, <3>1 DEF BotKept
    <3>2. CASE sent' # Spoil(DOMAIN sent, {b})
      BY <1>0, <1>4, <1>5, <3>2 DEF BotKept, Participates
    <3> QED
      BY <3>1, <3>2
  <2> QED
    BY <2>1, <2>2
<1>8. RoomTyped' /\ ChoicesLeft'
  <2>1. ChoicesLeft' /\ seat' \in [Guests -> Seats]
        /\ leeway' \in [choices: 0 .. MaxChoices, upsets: 0 .. MaxUpsets]
    BY <1>0, <1>4, ChoicesSpent
  <2> QED
    BY <1>0, <1>2, <1>3, <2>1 DEF RoomTyped
<1> QED
  BY <1>0, <1>3, <1>6, <1>7, <1>8, TalkOfOld

(* The conversation keeps its types, and talks. *)
LEMMA ConversationTalks ==
  ASSUME TypeInv, ConversationStep
  PROVE  RoomTyped' /\ ChoicesLeft' /\ Talk
  BY SendTextTalks, ChangeTextTalks, RoomTalks, SeatTalks DEF ConversationStep

(* The consumers' part keeps its types with it. *)
LEMMA TalkTyped ==
  ASSUME TypeInv, RoomTyped', ChoicesLeft', Talk
  PROVE  TypeInv'
<1>1. /\ UNCHANGED <<holder, marked, reader, turns>>
      /\ Len(sent) \in Nat /\ Len(sent') \in Nat /\ Len(sent) <= Len(sent')
      /\ \/ records' = records
         \/ records' = Append(records, Len(sent')) /\ Len(sent') > 0
  BY DEF TypeInv, RoomTyped, Talk
<1>2. records \in Seq(1 .. Len(sent'))
  <2>1. 1 .. Len(sent) \subseteq 1 .. Len(sent')
    BY <1>1
  <2> QED
    BY <2>1, SeqGrows DEF TypeInv, WorkTyped
<1>3. records' \in Seq(1 .. Len(sent')) /\ Len(records) <= Len(records')
      /\ Len(records') \in Nat /\ Len(records) \in Nat
  <2>1. CASE records' = records
    BY <1>2, <2>1
  <2>2. CASE records' = Append(records, Len(sent')) /\ Len(sent') > 0
    <3>1. Len(sent') \in 1 .. Len(sent')
      BY <1>1, <2>2
    <3> HIDE DEF Talk
    <3> QED
      BY <1>2, <2>2, <3>1
  <2> QED
    BY <1>1, <2>1, <2>2
<1>4. WorkTyped'
  BY <1>1, <1>3 DEF TypeInv, WorkTyped
<1>5. PlacesTyped'
  BY <1>1, <1>3 DEF TypeInv, WorkTyped, PlacesTyped
<1> QED
  BY <1>4, <1>5 DEF TypeInv

-----------------------------------------------------------------------------
(* Why a turn is due, and comes once                                        *)
(*                                                                          *)
(* The text of a message and what stood when it was sent never change, so   *)
(* two turns of one message, bot and rule have the same key, if each rests  *)
(* on what stood.  That it does is settled by the binding alone: a binding  *)
(* whose start is before the message is the one that stood, and so is a     *)
(* version of its rules.  As long as nothing has happened against a message *)
(* and a bot, a consumer at the record drops neither its mention nor one of *)
(* the rules that match.                                                    *)

(* A binding that began before a message stood when it was sent, and so did *)
(* the version of its settings that began before it.                        *)
Stands == \A b \in Guests, m \in DOMAIN sent : seat[b].live /\ m > seat[b].start =>
    /\ sent[m].standing[b].inc = seat[b].inc
    /\ m > seat[b].ruleStart => /\ sent[m].standing[b].saved = seat[b].saved
                                /\ sent[m].standing[b].rules = seat[b].rules
Begun == \A b \in Guests : /\ seat[b].start <= Len(sent) /\ seat[b].ruleStart <= Len(sent)
                           /\ Watched(b)
(* Nothing that may refuse has happened; the rules that stood are those of  *)
(* the binding, unless they were saved anew.                                *)
Unspoilt == \A m \in DOMAIN sent : \A b \in Guests \ sent[m].spoilt :
    /\ Participates(b) /\ m > seat[b].start /\ room.sender
    /\ ~sent[m].edited /\ ~sent[m].gone /\ sent[m].cites = "nothing"
    /\ sent[m].standing[b].saved <= seat[b].saved
    /\ sent[m].standing[b].saved = seat[b].saved =>
          m > seat[b].ruleStart /\ sent[m].standing[b].rules = seat[b].rules
CardsSent == \A m \in DOMAIN sent : sent[m].cites = "committed" => card.state = "committed"
RoomInv == Stands /\ Begun /\ Unspoilt /\ CardsSent

(* The turns of a message, and those that it still owes: to a bot that it   *)
(* mentions one, and one for each rule of another that matches.             *)
AnsweredTo(m, b, q) ==
    \E i \in DOMAIN turns : turns[i].post = m /\ turns[i].guest = b /\ turns[i].rule = q
Owes(m, b, q) ==
    /\ b \in Guests \ sent[m].spoilt
    /\ IF b \in sent[m].mentions THEN q = 0
       ELSE /\ q \in sent[m].standing[b].rules \cap sent[m].fits
            /\ seat[b].saved = sent[m].standing[b].saved /\ room.admin
RecordsAnswered(n) ==
    \A k \in 1 .. n : \A b, q : Owes(records[k], b, q) => AnsweredTo(records[k], b, q)

(* The work r of a consumer at the record of the message m.                 *)
Cleared(r, m) == ~/\ sent[m].cites = "committed"
                  /\ card.guest = r.guest /\ card.inc = r.inc
Listed(r, m) == \A t \in r.todo :
    /\ t.inc <= seat[t.guest].inc
    /\ t.inc = seat[t.guest].inc => t.start = seat[t.guest].start
    /\ t.guest \notin sent[m].spoilt => t.inc = seat[t.guest].inc
Handles(r, m) == r.at \in {"answer", "accept", "trigger", "rule", "commit", "end"} =>
    /\ r.inc <= seat[r.guest].inc
    /\ r.inc = seat[r.guest].inc => m > seat[r.guest].start
    /\ r.guest \notin sent[m].spoilt => r.inc = seat[r.guest].inc
Decides(r, m) ==
    /\ r.at \in {"accept", "trigger", "rule", "commit"} => Cleared(r, m)
    /\ r.at \in {"choose", "answer", "accept", "trigger"} => r.rules = {}
    /\ r.at = "accept" => r.guest \in sent[m].mentions
    /\ r.at \in {"trigger", "rule"} => r.guest \notin sent[m].mentions
    /\ r.at \in {"rule", "commit"} => r.rules \subseteq sent[m].fits
    /\ r.at = "commit" => IF r.guest \in sent[m].mentions
                            THEN r.plan.rule = 0 /\ r.rules = {} ELSE r.plan.rule \in r.rules
(* The rules are those of the version that was read, which is no older than *)
(* the one that stood.                                                      *)
Plans1(r, m) ==
    /\ r.at \in {"rule", "commit"} /\ r.guest \notin sent[m].mentions =>
          /\ r.inc = seat[r.guest].inc =>
                /\ r.plan.saved <= seat[r.guest].saved
                /\ r.plan.saved = seat[r.guest].saved => r.rules \subseteq seat[r.guest].rules
          /\ r.guest \notin sent[m].spoilt =>
                sent[m].standing[r.guest].saved <= r.plan.saved
    /\ r.at = "commit" /\ r.guest \notin sent[m].spoilt =>
          r.plan.epoch = seat[r.guest].epoch
(* The consumer will come to the mention, or the rule, of its bot.          *)
Pending(r, q) ==
    \/ r.at \in {"answer", "accept", "trigger"}
    \/ r.at \in {"rule", "commit"} /\ q \in r.rules
    \/ r.at = "commit" /\ q = r.plan.rule
Pursues(r, m) == \A b, q : Owes(m, b, q) =>
    \/ AnsweredTo(m, b, q)
    \/ \E t \in r.todo : t.guest = b
    \/ r.guest = b /\ Pending(r, q)
Working(r) ==
    /\ RecordsAnswered(r.next - 1)
    /\ r.at # "idle" =>
          \A m \in {records[r.next]} :
             Listed(r, m) /\ Handles(r, m) /\ Decides(r, m) /\ Plans1(r, m) /\ Pursues(r, m)
ReadersInv ==
    /\ RecordsAnswered(marked)
    /\ \A h \in Readers : \A r \in {reader[h]} : Working(r)

(* A turn is for what its message asks for, and rests on what stood.        *)
Granted(t) ==
    /\ t.post \in DOMAIN sent
    /\ t.rule = 0 <=> t.guest \in sent[t.post].mentions
    /\ sent[t.post].standing[t.guest].inc = t.inc
    /\ t.rule # 0 => /\ sent[t.post].standing[t.guest].saved = t.saved
                     /\ t.rule \in sent[t.post].standing[t.guest].rules \cap sent[t.post].fits
    /\ Cleared(t, t.post)
TurnsInv == (\A i \in DOMAIN turns : Granted(turns[i])) /\ TurnComesOnce

AcceptInv == RoomInv /\ ReadersInv /\ TurnsInv

(* What the records hold. *)
LEMMA RecordsTyped ==
  ASSUME TypeInv
  PROVE  /\ \A k \in 1 .. Len(records) : records[k] \in DOMAIN sent
         /\ Len(records) \in Nat /\ DOMAIN records = 1 .. Len(records)
         /\ \A h \in Readers :
              /\ reader[h] \in Handlings /\ reader[h].next \in 1 .. Len(records) + 1
              /\ reader[h].at # "idle" => /\ reader[h].next \in 1 .. Len(records)
                                          /\ records[reader[h].next] \in DOMAIN sent
<1>1. records \in Seq(1 .. Len(sent)) /\ DOMAIN sent = 1 .. Len(sent)
  BY DEF TypeInv, WorkTyped, RoomTyped
<1>2. /\ \A k \in 1 .. Len(records) : records[k] \in DOMAIN sent
      /\ Len(records) \in Nat /\ DOMAIN records = 1 .. Len(records)
  BY <1>1
<1> QED
  BY <1>2 DEF TypeInv, WorkTyped, PlacesTyped

(* A handled record stays answered. *)
LEMMA RecordsStay ==
  ASSUME TypeInv, NEW n \in Nat, n <= Len(records), RecordsAnswered(n),
         \A k \in 1 .. Len(records) : records'[k] = records[k],
         \A m \in DOMAIN sent : \A b, q : Owes(m, b, q)' => Owes(m, b, q),
         \A i \in DOMAIN turns : i \in DOMAIN turns' /\ turns'[i] = turns[i]
  PROVE  RecordsAnswered(n)'
<1> SUFFICES ASSUME NEW k \in 1 .. n, NEW b, NEW q, Owes(records[k], b, q)'
             PROVE  AnsweredTo(records[k], b, q)'
  BY DEF RecordsAnswered
<1>1. records'[k] = records[k] /\ records[k] \in DOMAIN sent
  BY RecordsTyped
<1>2. PICK m \in DOMAIN sent : m = records[k] /\ m = records'[k]
  BY <1>1
<1>3. Owes(m, b, q)'
  BY <1>2 DEF Owes
<1>4. AnsweredTo(m, b, q)
  BY <1>2, <1>3 DEF RecordsAnswered
<1> QED
  BY <1>2, <1>4 DEF AnsweredTo

(* The conversation goes on: what stood, stood, and what is new is behind   *)
(* every message that was sent before it.                                   *)
LEMMA TalkKeepsRoom ==
  ASSUME TypeInv, TypeInv', RoomInv, Talk
  PROVE  RoomInv'
<1>0. /\ Len(sent) \in Nat /\ DOMAIN sent = 1 .. Len(sent) /\ Len(sent) <= Len(sent')
      /\ \A m \in DOMAIN sent : m <= Len(sent) /\ MessageKept(m)
      /\ \A b \in Guests : SeatKept(b) /\ BotKept(b)
      /\ \A m \in DOMAIN sent' : m \in DOMAIN sent \/ MessageNew(m)
  <2>1. Len(sent) \in Nat /\ DOMAIN sent = 1 .. Len(sent)
    BY DEF TypeInv, RoomTyped
  <2> QED
    BY <2>1 DEF Talk
<1>1. \A b \in Guests : /\ seat[b] \in Seats /\ seat'[b] \in Seats
                        /\ seat[b].start \in Nat /\ seat[b].ruleStart \in Nat
                        /\ seat'[b].start \in Nat /\ seat'[b].ruleStart \in Nat
                        /\ seat[b].start <= Len(sent) /\ seat[b].ruleStart <= Len(sent)
  <2>1. \A b \in Guests : seat[b] \in Seats /\ seat'[b] \in Seats
    BY DEF TypeInv, RoomTyped
  <2>2. \A s \in Seats : s.start \in Nat /\ s.ruleStart \in Nat
    BY Bounds DEF Seats
  <2> QED
    BY <2>1, <2>2 DEF RoomInv, Begun
<1>2. Stands'
  <2> SUFFICES ASSUME NEW b \in Guests, NEW m \in DOMAIN sent',
                      seat'[b].live, m > seat'[b].start
               PROVE  /\ sent'[m].standing[b].inc = seat'[b].inc
                      /\ m > seat'[b].ruleStart
                            => /\ sent'[m].standing[b].saved = seat'[b].saved
                               /\ sent'[m].standing[b].rules = seat'[b].rules
    BY DEF Stands
  <2>1. CASE m \in DOMAIN sent
    <3>1. m \in Nat /\ m <= Len(sent) /\ MessageKept(m) /\ SeatKept(b)
      BY <1>0, <2>1
    <3>2. seat'[b].inc = seat[b].inc /\ seat'[b].start = seat[b].start /\ seat[b].live
      BY <1>0, <1>1, <3>1 DEF SeatKept
    <3>3. /\ sent[m].standing[b].inc = seat[b].inc
          /\ m > seat[b].ruleStart => /\ sent[m].standing[b].saved = seat[b].saved
                                      /\ sent[m].standing[b].rules = seat[b].rules
      BY <2>1, <3>2 DEF RoomInv, Stands
    <3>4. m > seat'[b].ruleStart
            => /\ seat'[b].saved = seat[b].saved /\ seat'[b].ruleStart = seat[b].ruleStart
               /\ seat'[b].rules = seat[b].rules
      BY <1>0, <3>1, <3>2 DEF SeatKept
    <3> QED
      BY <3>1, <3>2, <3>3, <3>4 DEF MessageKept
  <2>2. CASE MessageNew(m)
    BY <2>2 DEF MessageNew
  <2> QED
    BY <1>0, <2>1, <2>2
<1>3. Begun'
  <2> SUFFICES ASSUME NEW b \in Guests
               PROVE  /\ seat'[b].start <= Len(sent') /\ seat'[b].ruleStart <= Len(sent')
                      /\ Watched(b)'
    BY DEF Begun
  <2>1. SeatKept(b) /\ Len(sent') \in Nat /\ Watched(b)
    BY <1>0 DEF TypeInv, RoomTyped, RoomInv, Begun
  <2>4. Watched(b)'
    BY <2>1 DEF SeatKept
  <2>2. CASE seat'[b].inc = seat[b].inc
    BY <1>0, <1>1, <2>1, <2>2 DEF SeatKept
  <2>3. CASE seat'[b].inc # seat[b].inc
    BY <1>0, <1>1, <2>1, <2>3 DEF SeatKept
  <2> QED
    BY <2>2, <2>3, <2>4
<1>4. Unspoilt'
  <2> SUFFICES ASSUME NEW m \in DOMAIN sent', NEW b \in Guests \ sent'[m].spoilt
               PROVE  /\ Participates(b)' /\ m > seat'[b].start /\ room'.sender
                      /\ ~sent'[m].edited /\ ~sent'[m].gone /\ sent'[m].cites = "nothing"
                      /\ sent'[m].standing[b].saved <= seat'[b].saved
                      /\ sent'[m].standing[b].saved = seat'[b].saved =>
                            /\ m > seat'[b].ruleStart
                            /\ sent'[m].standing[b].rules = seat'[b].rules
    BY DEF Unspoilt
  <2>0. /\ seat[b].saved \in Nat /\ seat'[b].saved \in Nat
        /\ m \in DOMAIN sent => sent[m].standing[b].saved \in Nat
    <3>1. seat[b].saved \in Nat /\ seat'[b].saved \in Nat
      BY <1>1, Bounds DEF Seats, Incs
    <3>2. m \in DOMAIN sent => sent[m].standing[b].saved \in Nat
      BY StandingTyped DEF TypeInv, RoomTyped
    <3> QED
      BY <3>1, <3>2
  <2>1. CASE m \in DOMAIN sent
    <3>1. MessageKept(m) /\ BotKept(b) /\ SeatKept(b) /\ b \notin sent[m].spoilt
      BY <1>0, <2>1 DEF MessageKept
    <3>2. /\ Participates(b) /\ m > seat[b].start /\ room.sender
          /\ ~sent[m].edited /\ ~sent[m].gone /\ sent[m].cites = "nothing"
          /\ sent[m].standing[b].saved <= seat[b].saved
          /\ sent[m].standing[b].saved = seat[b].saved =>
                m > seat[b].ruleStart /\ sent[m].standing[b].rules = seat[b].rules
      BY <2>1, <3>1 DEF RoomInv, Unspoilt
    <3>3. /\ Participates(b)' /\ seat'[b].start = seat[b].start /\ room'.sender = room.sender
          /\ seat'[b].inc = seat[b].inc
      BY <2>1, <3>1, <3>2 DEF BotKept
    <3>4. /\ seat[b].saved <= seat'[b].saved
          /\ seat'[b].saved = seat[b].saved => /\ seat'[b].ruleStart = seat[b].ruleStart
                                               /\ seat'[b].rules = seat[b].rules
      BY <2>0, <3>1, <3>3 DEF SeatKept
    <3>5. sent'[m].standing = sent[m].standing /\ sent'[m].cites = sent[m].cites
          /\ ~sent'[m].edited /\ ~sent'[m].gone
      BY <3>1, <3>2 DEF MessageKept
    <3>6. /\ sent[m].standing[b].saved <= seat'[b].saved
          /\ sent[m].standing[b].saved = seat'[b].saved =>
                m > seat'[b].ruleStart /\ sent[m].standing[b].rules = seat'[b].rules
      BY <2>0, <2>1, <3>2, <3>4
    <3> QED
      BY <3>2, <3>3, <3>5, <3>6
  <2>2. CASE MessageNew(m)
    <3>1. /\ Participates(b) /\ Participates(b)' /\ seat' = seat /\ room' = room
          /\ m = Len(sent) + 1
      BY <2>2 DEF MessageNew, Participates
    <3>2. m > seat[b].start /\ m > seat[b].ruleStart
      BY <1>0, <1>1, <3>1
    <3>3. sent'[m].standing[b].saved = seat[b].saved /\ sent'[m].standing[b].rules = seat[b].rules
      BY <2>2, <3>1 DEF MessageNew, Participates
    <3>4. seat[b].saved <= seat[b].saved
      BY <2>0
    <3> QED
      BY <2>2, <3>1, <3>2, <3>3, <3>4 DEF MessageNew
  <2> QED
    BY <1>0, <2>1, <2>2
<1>5. CardsSent'
  <2> SUFFICES ASSUME NEW m \in DOMAIN sent', sent'[m].cites = "committed"
               PROVE  card'.state = "committed"
    BY DEF CardsSent
  <2>1. CASE m \in DOMAIN sent
    BY <1>0, <2>1 DEF RoomInv, CardsSent, MessageKept, Talk
  <2>2. CASE MessageNew(m)
    BY <2>2 DEF MessageNew
  <2> QED
    BY <1>0, <2>1, <2>2
<1> QED
  BY <1>2, <1>3, <1>4, <1>5 DEF RoomInv

(* No message owes more than before. *)
LEMMA TalkOwes ==
  ASSUME TypeInv, TypeInv', RoomInv, Talk
  PROVE  /\ \A m \in DOMAIN sent : \A b, q : Owes(m, b, q)' => Owes(m, b, q)
         /\ \A k \in 1 .. Len(records) : records'[k] = records[k]
<1>1. ASSUME NEW m \in DOMAIN sent, NEW b, NEW q, Owes(m, b, q)'
      PROVE  Owes(m, b, q)
  <2>1. MessageKept(m) /\ b \in Guests /\ b \notin sent'[m].spoilt
    BY <1>1 DEF Talk, Owes
  <2>2. SeatKept(b) /\ BotKept(b) /\ b \notin sent[m].spoilt /\ (room'.admin => room.admin)
    BY <2>1 DEF Talk, MessageKept
  <2>3. Participates(b) /\ sent[m].standing[b].saved <= seat[b].saved
    BY <2>1, <2>2 DEF RoomInv, Unspoilt
  <2>4. seat'[b].inc = seat[b].inc
    BY <2>1, <2>2, <2>3 DEF BotKept
  <2>5. seat[b].saved <= seat'[b].saved
    BY <2>2, <2>4 DEF SeatKept
  <2>6. /\ seat[b].saved \in Nat /\ seat'[b].saved \in Nat
        /\ sent[m].standing[b].saved \in Nat
    <3>1. seat[b] \in Seats /\ seat'[b] \in Seats /\ sent[m] \in Messages
      BY <2>1 DEF TypeInv, RoomTyped
    <3> QED
      BY <2>1, <3>1, Bounds DEF Seats, Messages, Incs
  <2>7. seat'[b].saved = sent[m].standing[b].saved => seat[b].saved = sent[m].standing[b].saved
    BY <2>3, <2>5, <2>6
  <2> QED
    BY <1>1, <2>1, <2>2, <2>7 DEF Owes, MessageKept
<1>2. \A k \in 1 .. Len(records) : records'[k] = records[k]
  <2>1. \/ records' = records \/ \E x \in 1 .. Len(sent') : records' = Append(records, x)
    <3>1. Len(sent') \in 1 .. Len(sent') \/ ~(Len(sent') > 0)
      <4>1. Len(sent) \in Nat /\ Len(sent) <= Len(sent')
        BY DEF TypeInv, RoomTyped, Talk
      <4> QED
        BY <4>1
    <3> QED
      BY <3>1 DEF Talk
  <2>2. \E S : records \in Seq(S)
    BY DEF TypeInv, WorkTyped
  <2> QED
    BY <2>1, <2>2
<1> QED
  BY <1>1, <1>2

(* The work of a consumer stands while the conversation goes on. *)
LEMMA TalkKeepsWork ==
  ASSUME TypeInv, TypeInv', RoomInv, Talk, NEW r \in Handlings, NEW m \in DOMAIN sent,
         Listed(r, m), Handles(r, m), Decides(r, m), Plans1(r, m), Pursues(r, m)
  PROVE  (Listed(r, m) /\ Handles(r, m) /\ Decides(r, m) /\ Plans1(r, m) /\ Pursues(r, m))'
<1>0. MessageKept(m) /\ \A b \in Guests : SeatKept(b) /\ BotKept(b)
  BY DEF Talk
<1>1. /\ r.guest \in Guests /\ r.inc \in Nat /\ r.plan.saved \in Nat
      /\ \A t \in r.todo : t.guest \in Guests /\ t.inc \in Nat
  BY Bounds DEF Handlings, Listings, Plans, Incs
<1>2. ASSUME NEW b \in Guests
      PROVE  /\ seat[b].inc \in Nat /\ seat'[b].inc \in Nat /\ seat[b].saved \in Nat
             /\ seat'[b].saved \in Nat /\ seat[b].inc <= seat'[b].inc
             /\ b \notin sent'[m].spoilt =>
                   /\ b \notin sent[m].spoilt /\ seat'[b].inc = seat[b].inc
                   /\ seat'[b].epoch = seat[b].epoch
  <2>1. seat[b].inc \in Nat /\ seat'[b].inc \in Nat /\ seat[b].saved \in Nat
        /\ seat'[b].saved \in Nat
    <3>1. seat[b] \in Seats /\ seat'[b] \in Seats
      BY DEF TypeInv, RoomTyped
    <3> QED
      BY <3>1, Bounds DEF Seats, Incs
  <2>2. seat[b].inc <= seat'[b].inc
    BY <1>0 DEF SeatKept
  <2>3. ASSUME b \notin sent'[m].spoilt
        PROVE  /\ b \notin sent[m].spoilt /\ seat'[b].inc = seat[b].inc
               /\ seat'[b].epoch = seat[b].epoch
    <3>1. b \notin sent[m].spoilt
      BY <1>0, <2>3 DEF MessageKept
    <3>2. Participates(b)
      BY <3>1 DEF RoomInv, Unspoilt
    <3> QED
      BY <1>0, <2>3, <3>1, <3>2 DEF BotKept
  <2> QED
    BY <2>1, <2>2, <2>3
<1>3. Listed(r, m)'
  <2> SUFFICES ASSUME NEW t \in r.todo
               PROVE  /\ t.inc <= seat'[t.guest].inc
                      /\ t.inc = seat'[t.guest].inc => t.start = seat'[t.guest].start
                      /\ t.guest \notin sent'[m].spoilt => t.inc = seat'[t.guest].inc
    BY DEF Listed
  <2> DEFINE b == t.guest
  <2>1. b \in Guests /\ t.inc \in Nat /\ SeatKept(b)
    BY <1>0, <1>1
  <2>2. /\ t.inc <= seat[b].inc /\ (t.inc = seat[b].inc => t.start = seat[b].start)
        /\ (b \notin sent[m].spoilt => t.inc = seat[b].inc)
    BY DEF Listed
  <2> HIDE DEF b
  <2>3. t.inc <= seat'[b].inc
    BY <1>2, <2>1, <2>2
  <2>4. t.inc = seat'[b].inc => seat'[b].inc = seat[b].inc
    BY <1>2, <2>1, <2>2
  <2> QED
    BY <1>2, <2>1, <2>2, <2>3, <2>4 DEF SeatKept, b
<1>4. Handles(r, m)'
  <2> SUFFICES ASSUME r.at \in {"answer", "accept", "trigger", "rule", "commit", "end"}
               PROVE  /\ r.inc <= seat'[r.guest].inc
                      /\ r.inc = seat'[r.guest].inc => m > seat'[r.guest].start
                      /\ r.guest \notin sent'[m].spoilt => r.inc = seat'[r.guest].inc
    BY DEF Handles
  <2>1. SeatKept(r.guest) /\ r.guest \in Guests /\ r.inc \in Nat
    BY <1>0, <1>1
  <2>2. /\ r.inc <= seat[r.guest].inc
        /\ r.inc = seat[r.guest].inc => m > seat[r.guest].start
        /\ r.guest \notin sent[m].spoilt => r.inc = seat[r.guest].inc
    BY DEF Handles
  <2>3. r.inc <= seat'[r.guest].inc
        /\ (r.inc = seat'[r.guest].inc => seat'[r.guest].inc = seat[r.guest].inc)
    BY <1>2, <2>1, <2>2
  <2> QED
    BY <1>2, <2>1, <2>2, <2>3 DEF SeatKept
<1>5. Decides(r, m)'
  BY <1>0 DEF Decides, Cleared, MessageKept, Talk
<1>6. Plans1(r, m)'
  <2> SUFFICES ASSUME r.at \in {"rule", "commit"}
               PROVE  /\ r.guest \notin sent'[m].mentions =>
                           /\ r.inc = seat'[r.guest].inc =>
                                 /\ r.plan.saved <= seat'[r.guest].saved
                                 /\ r.plan.saved = seat'[r.guest].saved
                                      => r.rules \subseteq seat'[r.guest].rules
                           /\ r.guest \notin sent'[m].spoilt =>
                                 sent'[m].standing[r.guest].saved <= r.plan.saved
                      /\ r.at = "commit" /\ r.guest \notin sent'[m].spoilt
                           => r.plan.epoch = seat'[r.guest].epoch
    BY DEF Plans1
  <2>1. SeatKept(r.guest) /\ r.guest \in Guests /\ r.inc \in Nat
    BY <1>0, <1>1
  <2>2. /\ r.guest \notin sent[m].mentions =>
             /\ r.inc = seat[r.guest].inc =>
                   /\ r.plan.saved <= seat[r.guest].saved
                   /\ r.plan.saved = seat[r.guest].saved => r.rules \subseteq seat[r.guest].rules
             /\ r.guest \notin sent[m].spoilt => sent[m].standing[r.guest].saved <= r.plan.saved
        /\ r.at = "commit" /\ r.guest \notin sent[m].spoilt => r.plan.epoch = seat[r.guest].epoch
    BY DEF Plans1
  <2>3. r.inc <= seat[r.guest].inc
    BY DEF Handles
  <2>4. ASSUME r.guest \notin sent[m].mentions, r.inc = seat'[r.guest].inc
        PROVE  /\ r.plan.saved <= seat'[r.guest].saved
               /\ r.plan.saved = seat'[r.guest].saved => r.rules \subseteq seat'[r.guest].rules
    <3>1. seat'[r.guest].inc = seat[r.guest].inc /\ r.inc = seat[r.guest].inc
      BY <1>2, <2>1, <2>3, <2>4
    <3>2. /\ seat[r.guest].saved <= seat'[r.guest].saved
          /\ \/ seat'[r.guest].saved = seat[r.guest].saved
                /\ seat'[r.guest].rules = seat[r.guest].rules
             \/ seat[r.guest].saved < seat'[r.guest].saved
      BY <1>2, <2>1, <3>1 DEF SeatKept
    <3>3. /\ r.plan.saved <= seat[r.guest].saved
          /\ r.plan.saved = seat[r.guest].saved => r.rules \subseteq seat[r.guest].rules
      BY <2>2, <2>4, <3>1
    <3>4. r.plan.saved \in Nat /\ seat[r.guest].saved \in Nat /\ seat'[r.guest].saved \in Nat
      BY <1>1, <1>2, <2>1
    <3> QED
      BY <3>2, <3>3, <3>4
  <2>5. sent'[m].mentions = sent[m].mentions /\ sent'[m].standing = sent[m].standing
    BY <1>0 DEF MessageKept
  <2> QED
    BY <1>2, <2>1, <2>2, <2>4, <2>5
<1>7. Pursues(r, m)'
  <2>1. (\A b, q : Owes(m, b, q)' => Owes(m, b, q)) /\ turns' = turns
    BY TalkOwes DEF Talk
  <2> QED
    BY <2>1 DEF Pursues, AnsweredTo, Pending
<1> QED
  BY <1>3, <1>4, <1>5, <1>6, <1>7

(* The turns keep what they rest on. *)
LEMMA TalkKeepsTurns ==
  ASSUME TypeInv, TurnsInv, Talk
  PROVE  TurnsInv'
<1>1. turns' = turns /\ \A m \in DOMAIN sent : MessageKept(m)
  BY DEF Talk
<1>2. ASSUME NEW i \in DOMAIN turns
      PROVE  Granted(turns[i])'
  <2> DEFINE t == turns[i]
  <2>1. Granted(t)
    BY DEF TurnsInv
  <2>2. t.post \in DOMAIN sent /\ MessageKept(t.post)
    BY <1>1, <2>1 DEF Granted
  <2> HIDE DEF t
  <2>3. /\ t.post \in DOMAIN sent'
        /\ t.rule = 0 <=> t.guest \in sent'[t.post].mentions
        /\ sent'[t.post].standing[t.guest].inc = t.inc
        /\ t.rule # 0 => /\ sent'[t.post].standing[t.guest].saved = t.saved
                         /\ t.rule \in sent'[t.post].standing[t.guest].rules
                                      \cap sent'[t.post].fits
    BY <2>1, <2>2 DEF Granted, MessageKept
  <2>4. ~(sent'[t.post].cites = "committed" /\ card'.guest = t.guest /\ card'.inc = t.inc)
    BY <2>1, <2>2 DEF Granted, Cleared, MessageKept, Talk
  <2>5. turns'[i] = t
    BY <1>1 DEF t
  <2> QED
    BY <2>3, <2>4, <2>5 DEF Granted, Cleared
<1>3. TurnComesOnce'
  BY <1>1 DEF TurnsInv, TurnComesOnce
<1> QED
  BY <1>1, <1>2, <1>3 DEF TurnsInv

(* The consumers' work stands while the conversation goes on. *)
LEMMA TalkKeepsReaders ==
  ASSUME TypeInv, TypeInv', RoomInv, ReadersInv, Talk
  PROVE  ReadersInv'
<1>1. /\ UNCHANGED <<marked, reader, turns>>
      /\ \A m \in DOMAIN sent : \A b, q : Owes(m, b, q)' => Owes(m, b, q)
      /\ \A k \in 1 .. Len(records) : records'[k] = records[k]
  BY TalkOwes DEF Talk
<1>2. \A n \in Nat : n <= Len(records) /\ RecordsAnswered(n) => RecordsAnswered(n)'
  BY <1>1, RecordsStay
<1>3. /\ Len(records) \in Nat /\ marked \in Nat /\ marked <= Len(records)
      /\ \A h \in Readers : reader[h].next - 1 \in Nat /\ reader[h].next - 1 <= Len(records)
  <2>1. Len(records) \in Nat /\ \A h \in Readers : reader[h].next \in 1 .. Len(records) + 1
    BY RecordsTyped
  <2>2. marked \in 0 .. Len(records)
    BY DEF TypeInv, WorkTyped
  <2> QED
    BY <2>1, <2>2
<1>4. RecordsAnswered(marked)'
  BY <1>1, <1>2, <1>3 DEF ReadersInv, RecordsAnswered
<1>5. ASSUME NEW h \in Readers, NEW r \in {reader'[h]}
      PROVE  Working(r)'
  <2>1. r = reader[h]
    BY <1>1
  <2>2. /\ r \in Handlings /\ r.next - 1 \in Nat /\ r.next - 1 <= Len(records)
        /\ r.at # "idle" => r.next \in 1 .. Len(records) /\ records[r.next] \in DOMAIN sent
        /\ Working(r)
    BY <1>3, <2>1, RecordsTyped DEF ReadersInv
  <2>3. RecordsAnswered(r.next - 1)'
    <3>1. RecordsAnswered(r.next - 1)
      BY <2>2 DEF Working
    <3>2. PICK n \in Nat : n = r.next - 1
      BY <2>2
    <3> QED
      BY <1>2, <2>2, <3>1, <3>2
  <2>4. ASSUME r.at # "idle", NEW m \in {records'[r.next]}
        PROVE  (Listed(r, m) /\ Handles(r, m) /\ Decides(r, m) /\ Plans1(r, m)
                /\ Pursues(r, m))'
    <3>1. m \in DOMAIN sent /\ m = records[r.next]
      BY <1>1, <2>2, <2>4
    <3>2. Listed(r, m) /\ Handles(r, m) /\ Decides(r, m) /\ Plans1(r, m) /\ Pursues(r, m)
      BY <2>2, <2>4, <3>1 DEF Working
    <3> QED
      BY <2>2, <3>1, <3>2, TalkKeepsWork
  <2> QED
    BY <2>3, <2>4 DEF Working
<1> QED
  BY <1>4, <1>5 DEF ReadersInv

LEMMA TalkKeeps ==
  ASSUME TypeInv, TypeInv', AcceptInv, Talk
  PROVE  AcceptInv'
  BY TalkKeepsRoom, TalkKeepsReaders, TalkKeepsTurns DEF AcceptInv

-----------------------------------------------------------------------------
(* What the consumers do                                                    *)

(* The consumer h goes on as r; the offset n is marked. *)
GoesOn(h, r, n) ==
    /\ reader' = [reader EXCEPT ![h] = r]
    /\ UNCHANGED <<sent, records, seat, shape, room, card, hook>>
    /\ holder' \in Readers /\ (Upset \/ UNCHANGED leeway)
    /\ marked' = n /\ n \in 0 .. Len(records) /\ RecordsAnswered(n)
    /\ r \in Handlings /\ r.next \in 1 .. Len(records) + 1
    /\ r.at # "idle" => r.next \in 1 .. Len(records)

(* What there is stays as it is, when at most a turn is added. *)
LEMMA GoingOnTyped ==
  ASSUME TypeInv, NEW h \in Readers, NEW r, NEW n, GoesOn(h, r, n), turns' \in Seq(Turns)
  PROVE  TypeInv'
<1>1. /\ UNCHANGED <<sent, records, seat, shape, room, card, hook>>
      /\ Upset \/ UNCHANGED leeway
      /\ RoomTyped /\ WorkTyped /\ PlacesTyped /\ ChoicesLeft
  BY DEF GoesOn, TypeInv
<1>2. leeway' \in [choices: 0 .. MaxChoices, upsets: 0 .. MaxUpsets]
      /\ leeway'.choices = leeway.choices
  BY <1>1, Paid
<1>3. RoomTyped'
  BY <1>1, <1>2 DEF RoomTyped
<1>4. ChoicesLeft'
  BY <1>1, <1>2 DEF ChoicesLeft
<1>5. WorkTyped'
  BY <1>1 DEF GoesOn, WorkTyped
<1>6. PlacesTyped'
  <2>1. \A g \in Readers : reader'[g] = IF g = h THEN r ELSE reader[g]
    BY <1>1 DEF GoesOn, WorkTyped
  <2>2. DOMAIN records = 1 .. Len(records)
    BY RecordsTyped
  <2> QED
    BY <1>1, <2>1, <2>2 DEF GoesOn, PlacesTyped
<1> QED
  BY <1>3, <1>4, <1>5, <1>6 DEF TypeInv

(* Work that stands, stands while turns are added. *)
LEMMA WorkStands ==
  ASSUME TypeInv, NEW r, Working(r), r.next \in 1 .. Len(records) + 1,
         UNCHANGED <<sent, records, seat, room, card>>,
         \A i \in DOMAIN turns : i \in DOMAIN turns' /\ turns'[i] = turns[i]
  PROVE  Working(r)'
<1>1. \A m, b, q : AnsweredTo(m, b, q) => AnsweredTo(m, b, q)'
  BY DEF AnsweredTo
<1>2. RecordsAnswered(r.next - 1)'
  BY <1>1 DEF Working, RecordsAnswered, Owes
<1>3. ASSUME r.at # "idle"
      PROVE  (Listed(r, records[r.next]) /\ Handles(r, records[r.next])
              /\ Decides(r, records[r.next]) /\ Plans1(r, records[r.next]))'
  BY <1>3 DEF Working, Listed, Handles, Decides, Cleared, Plans1
<1>4. ASSUME r.at # "idle"
      PROVE  Pursues(r, records[r.next])'
  <2>1. PICK m : m = records[r.next] /\ m = records'[r.next]
    OBVIOUS
  <2>2. Pursues(r, m)
    BY <1>4, <2>1 DEF Working
  <2>3. Pursues(r, m)'
    BY <1>1, <2>2 DEF Pursues, Pending, Owes
  <2> QED
    BY <2>1, <2>3 DEF Pursues, Pending, Owes, AnsweredTo
<1> QED
  BY <1>2, <1>3, <1>4 DEF Working

(* The invariant after a step of a consumer. *)
LEMMA GoingOnKeeps ==
  ASSUME TypeInv, AcceptInv, NEW h \in Readers, NEW r, NEW n, GoesOn(h, r, n),
         \A i \in DOMAIN turns : i \in DOMAIN turns' /\ turns'[i] = turns[i],
         Working(r)', TurnsInv'
  PROVE  AcceptInv'
<1>1. /\ UNCHANGED <<sent, records, seat, shape, room, card, hook>> /\ marked' = n
      /\ RecordsAnswered(n) /\ reader \in [Readers -> Handlings]
      /\ reader' = [reader EXCEPT ![h] = r]
  BY DEF GoesOn, TypeInv, WorkTyped
<1>2. RoomInv'
  BY <1>1 DEF AcceptInv, RoomInv, Stands, Begun, Watched, Unspoilt, CardsSent, Participates
<1>3. RecordsAnswered(marked)'
  <2>1. \A m, b, q : AnsweredTo(m, b, q) => AnsweredTo(m, b, q)'
    BY DEF AnsweredTo
  <2> QED
    BY <1>1, <2>1 DEF RecordsAnswered, Owes
<1>4. ASSUME NEW g \in Readers, NEW w \in {reader'[g]}
      PROVE  Working(w)'
  <2>1. CASE g = h
    BY <1>1, <2>1
  <2>2. CASE g # h
    <3>1. w = reader[g]
      BY <1>1, <2>2
    <3>2. Working(w) /\ w.next \in 1 .. Len(records) + 1
      BY <3>1, RecordsTyped DEF AcceptInv, ReadersInv
    <3> QED
      BY <1>1, <3>2, WorkStands
  <2> QED
    BY <2>1, <2>2
<1> QED
  BY <1>2, <1>3, <1>4 DEF AcceptInv, ReadersInv

(* A step that adds no turn. *)
LEMMA GoingOnWithout ==
  ASSUME TypeInv, AcceptInv, NEW h \in Readers, NEW r, NEW n, GoesOn(h, r, n),
         turns' = turns, Working(r)
  PROVE  TypeInv' /\ AcceptInv'
<1>1. TypeInv'
  BY GoingOnTyped DEF TypeInv, WorkTyped
<1>2. Working(r)'
  BY WorkStands DEF GoesOn
<1>3. TurnsInv'
  BY DEF AcceptInv, TurnsInv, Granted, Cleared, TurnComesOnce, GoesOn
<1> QED
  BY <1>1, <1>2, <1>3, GoingOnKeeps

(* Where a consumer stands. *)
LEMMA AtRecord ==
  ASSUME TypeInv, AcceptInv, NEW h \in Readers
  PROVE  /\ reader[h] \in Handlings /\ reader[h].guest \in Guests
         /\ reader[h].next \in 1 .. Len(records) + 1 /\ Len(records) \in Nat
         /\ marked \in 0 .. Len(records) /\ holder \in Readers
         /\ RecordsAnswered(marked) /\ RecordsAnswered(reader[h].next - 1)
         /\ reader[h].at # "idle" =>
               /\ reader[h].next \in 1 .. Len(records) /\ Current(h) \in DOMAIN sent
               /\ Listed(reader[h], Current(h)) /\ Handles(reader[h], Current(h))
               /\ Decides(reader[h], Current(h)) /\ Plans1(reader[h], Current(h))
               /\ Pursues(reader[h], Current(h))
<1>1. Working(reader[h]) /\ RecordsAnswered(marked)
  BY DEF AcceptInv, ReadersInv
<1>2. reader[h] \in Handlings /\ reader[h].guest \in Guests
  BY RecordsTyped DEF Handlings
<1>3. marked \in 0 .. Len(records) /\ holder \in Readers
  BY DEF TypeInv, WorkTyped
<1> QED
  BY <1>1, <1>2, <1>3, RecordsTyped DEF Working, Current

(* A consumer that waits has nothing to show but the records before. *)
LEMMA WaitingWorks ==
  ASSUME TypeInv, AcceptInv, NEW h \in Readers,
         NEW k \in 1 .. Len(records) + 1, RecordsAnswered(k - 1)
  PROVE  /\ Waiting(k) \in Handlings /\ Waiting(k).next = k /\ Waiting(k).at = "idle"
         /\ Waiting(k).rules = {} /\ Working(Waiting(k))
<1>1. AnyGuest \in Guests
  BY AtRecord DEF AnyGuest
<1>2. 0 \in Incs /\ 0 \in Nat /\ k \in Nat
  BY Bounds, AtRecord DEF Incs
<1>3. NoPlan \in Plans
  BY <1>2, RuleNumbers DEF NoPlan, Plans
<1>4. /\ Waiting(k) \in Handlings /\ Waiting(k).next = k /\ Waiting(k).at = "idle"
      /\ Waiting(k).rules = {}
  BY <1>1, <1>2, <1>3 DEF Waiting, Handlings
<1> QED
  BY <1>4 DEF Working

(* A consumer that turns to a record, again or for the first time. *)
LEMMA Waits ==
  ASSUME TypeInv, AcceptInv, NEW h \in Readers, NEW n \in 0 .. Len(records),
         NEW k \in 1 .. Len(records) + 1, RecordsAnswered(k - 1), RecordsAnswered(n),
         reader' = [reader EXCEPT ![h] = Waiting(k)], marked' = n, turns' = turns,
         UNCHANGED <<sent, records, seat, shape, room, card, hook>>,
         holder' \in Readers, Upset \/ UNCHANGED leeway
  PROVE  TypeInv' /\ AcceptInv'
<1>1. /\ Waiting(k) \in Handlings /\ Waiting(k).next = k /\ Waiting(k).at = "idle"
      /\ Working(Waiting(k))
  BY WaitingWorks
<1>2. GoesOn(h, Waiting(k), n)
  BY <1>1 DEF GoesOn
<1> QED
  BY <1>1, <1>2, GoingOnWithout

(* A step that begins the record again, begins it where it stands. *)
LEMMA Again ==
  ASSUME TypeInv, AcceptInv, NEW h \in Readers, BeginAgain(h), UNCHANGED <<marked, turns>>,
         Upset \/ UNCHANGED leeway
  PROVE  TypeInv' /\ AcceptInv'
<1>1. PICK k : k = reader[h].next
  OBVIOUS
<1>2. k \in 1 .. Len(records) + 1 /\ RecordsAnswered(k - 1) /\ RecordsAnswered(marked)
      /\ marked \in 0 .. Len(records) /\ holder \in Readers
  BY <1>1, AtRecord
<1>3. /\ reader' = [reader EXCEPT ![h] = Waiting(k)]
      /\ UNCHANGED <<sent, records, holder, seat, shape, room, card, hook>>
  BY <1>1 DEF BeginAgain, Goes
<1> QED
  BY <1>2, <1>3, Waits

(* A step at a record, with what it does there. *)
LEMMA GoesThere ==
  ASSUME TypeInv, AcceptInv, NEW h \in Readers, NEW r \in Handlings, Goes(h, r),
         reader[h].at # "idle", r.next = reader[h].next, UNCHANGED <<marked, turns>>,
         Upset \/ UNCHANGED leeway,
         LET m == Current(h)
         IN  Listed(r, m) /\ Handles(r, m) /\ Decides(r, m) /\ Plans1(r, m) /\ Pursues(r, m)
  PROVE  TypeInv' /\ AcceptInv'
<1>1. GoesOn(h, r, marked)
  BY AtRecord DEF GoesOn, Goes
<1>2. Working(r)
  BY AtRecord DEF Working, Current
<1> QED
  BY <1>1, <1>2, GoingOnWithout

(* Nothing refuses a bot what it is owed. *)
LEMMA OwedStands ==
  ASSUME TypeInv, AcceptInv, NEW m \in DOMAIN sent, NEW b, NEW q, Owes(m, b, q)
  PROVE  /\ b \in Guests /\ b \notin sent[m].spoilt
         /\ Participates(b) /\ seat[b].live /\ shape[b] = "active" /\ m > seat[b].start
         /\ room.sender /\ Genuine(m) /\ sent[m].cites = "nothing"
         /\ sent[m].standing[b].saved <= seat[b].saved
         /\ b \in sent[m].mentions => q = 0
         /\ b \notin sent[m].mentions =>
               /\ room.admin /\ q \in seat[b].rules /\ q \in sent[m].fits /\ Follows(b, m)
               /\ sent[m].standing[b].saved = seat[b].saved
<1>1. b \in Guests /\ b \notin sent[m].spoilt
  BY DEF Owes
<1>2. /\ Participates(b) /\ m > seat[b].start /\ room.sender
      /\ ~sent[m].edited /\ ~sent[m].gone /\ sent[m].cites = "nothing"
      /\ sent[m].standing[b].saved <= seat[b].saved
      /\ sent[m].standing[b].saved = seat[b].saved =>
            m > seat[b].ruleStart /\ sent[m].standing[b].rules = seat[b].rules
  BY <1>1 DEF AcceptInv, RoomInv, Unspoilt
<1>3. ASSUME b \notin sent[m].mentions
      PROVE  /\ room.admin /\ q \in seat[b].rules /\ q \in sent[m].fits /\ Follows(b, m)
             /\ sent[m].standing[b].saved = seat[b].saved
  <2>1. /\ room.admin /\ q \in sent[m].standing[b].rules /\ q \in sent[m].fits
        /\ sent[m].standing[b].saved = seat[b].saved
    BY <1>3 DEF Owes
  <2>2. q \in seat[b].rules /\ m > seat[b].ruleStart
    BY <1>2, <2>1
  <2>3. seat[b].mode # "plain" /\ seat[b].mode # "silent" /\ seat[b].mode \in Modes
    <3>1. Watched(b) /\ seat[b] \in Seats
      BY <1>1 DEF AcceptInv, RoomInv, Begun, TypeInv, RoomTyped
    <3> QED
      BY <1>2, <2>2, <3>1 DEF Watched, Participates, Seats
  <2> QED
    BY <2>1, <2>2, <2>3 DEF Modes, Follows
<1>4. b \in sent[m].mentions => q = 0
  BY DEF Owes
<1> QED
  BY <1>1, <1>2, <1>3, <1>4 DEF Participates, Genuine

(* A record is taken: every bot in the conversation is listed, so every bot *)
(* that is owed a turn.                                                     *)
LEMMA TakeRecordKeeps ==
  ASSUME TypeInv, AcceptInv, NEW h \in Readers, TakeRecord(h)
  PROVE  TypeInv' /\ AcceptInv'
<1> DEFINE w == reader[h]
           m == records[w.next]
           todo == {[guest |-> b, inc |-> seat[b].inc, start |-> seat[b].start] : b \in Bound}
           r == [Waiting(w.next) EXCEPT !.at = "choose", !.todo = todo]
<1>1. /\ w.at = "idle" /\ w.next <= Len(records) /\ Goes(h, r)
      /\ UNCHANGED <<marked, turns, leeway>>
  BY DEF TakeRecord
<1>2. w.next \in 1 .. Len(records) /\ m \in DOMAIN sent /\ w \in Handlings
  BY <1>1, AtRecord, RecordsTyped
<1>3. todo \in SUBSET Listings
  BY DEF TypeInv, RoomTyped, Bound, Seats, Listings
<1>4. /\ r \in Handlings /\ r.next = w.next /\ r.at = "choose" /\ r.todo = todo
      /\ r.rules = {}
  <2>1. Waiting(w.next) \in Handlings /\ Waiting(w.next).next = w.next
        /\ Waiting(w.next).rules = {}
    BY AtRecord, WaitingWorks
  <2> QED
    BY <1>3, <2>1 DEF Handlings
<1>5. Listed(r, m)
  <2>1. \A t \in todo : t.guest \in Guests /\ t.inc = seat[t.guest].inc
                        /\ t.start = seat[t.guest].start
    BY DEF Bound
  <2>2. \A b \in Guests : seat[b].inc <= seat[b].inc
    <3>1. \A b \in Guests : seat[b].inc \in Nat
      BY SeatNumbers DEF TypeInv
    <3> QED
      BY <3>1
  <2> QED
    BY <1>4, <2>1, <2>2 DEF Listed
<1>6. Pursues(r, m)
  <2> SUFFICES ASSUME NEW b, NEW q, Owes(m, b, q)
               PROVE  \E t \in todo : t.guest = b
    BY <1>4 DEF Pursues
  <2>1. b \in Guests /\ seat[b].live
    BY <1>2, OwedStands
  <2>2. b \in Bound
    BY <2>1 DEF Bound
  <2>3. [guest |-> b, inc |-> seat[b].inc, start |-> seat[b].start] \in todo
    BY <2>2
  <2> HIDE DEF todo
  <2> QED
    BY <2>3
<1>7. Working(r)
  <2>1. RecordsAnswered(w.next - 1)
    BY AtRecord
  <2> HIDE DEF r
  <2> QED
    BY <1>4, <1>5, <1>6, <2>1 DEF Working, Handles, Decides, Plans1
<1>8. GoesOn(h, r, marked)
  <2> HIDE DEF r
  <2> QED
    BY <1>1, <1>2, <1>4, AtRecord DEF GoesOn, Goes
<1> QED
  BY <1>1, <1>7, <1>8, GoingOnWithout

(* A bot against which nothing has happened is not passed over. *)
LEMMA Concerned ==
  ASSUME TypeInv, AcceptInv, NEW h \in Readers, reader[h].at # "idle",
         NEW t \in reader[h].todo, Unconcerned(h, t)
  PROVE  \A q : ~Owes(Current(h), t.guest, q)
<1> SUFFICES ASSUME NEW q, Owes(Current(h), t.guest, q)
             PROVE  FALSE
  OBVIOUS
<1>1. Current(h) \in DOMAIN sent /\ Listed(reader[h], Current(h))
  BY AtRecord
<1>2. /\ shape[t.guest] = "active" /\ Current(h) > seat[t.guest].start
      /\ t.guest \notin sent[Current(h)].spoilt
  BY <1>1, OwedStands
<1>3. t.start = seat[t.guest].start
  BY <1>1, <1>2 DEF Listed
<1>4. Current(h) \in Nat /\ t.start \in Nat
  BY <1>1, Bounds, AtRecord DEF TypeInv, RoomTyped, Handlings, Listings
<1> QED
  BY <1>2, <1>3, <1>4 DEF Unconcerned

(* A bot is passed over. *)
LEMMA PassKeeps ==
  ASSUME TypeInv, AcceptInv, NEW h \in Readers, Pass(h)
  PROVE  TypeInv' /\ AcceptInv'
<1> DEFINE w == reader[h]
           m == Current(h)
<1>1. w.at = "choose" /\ UNCHANGED <<marked, turns, leeway>>
  BY DEF Pass
<1>2. PICK t \in w.todo : Unconcerned(h, t) /\ Goes(h, [w EXCEPT !.todo = @ \ {t}])
  BY DEF Pass
<1> DEFINE r == [w EXCEPT !.todo = w.todo \ {t}]
<1>3. w \in Handlings /\ Listed(w, m) /\ Decides(w, m) /\ Pursues(w, m)
  BY <1>1, AtRecord
<1>4. /\ r \in Handlings /\ r.next = w.next /\ r.at = "choose" /\ r.todo = w.todo \ {t}
      /\ r.rules = w.rules
  BY <1>1, <1>3 DEF Handlings
<1>5. \A q : ~Owes(m, t.guest, q)
  BY <1>1, <1>2, Concerned
<1>6. Goes(h, r)
  BY <1>2
<1> HIDE DEF r, w, m
<1>7. Listed(r, m) /\ Handles(r, m) /\ Decides(r, m) /\ Plans1(r, m)
  BY <1>1, <1>3, <1>4 DEF Listed, Handles, Decides, Plans1
<1>8. Pursues(r, m)
  BY <1>1, <1>3, <1>4, <1>5 DEF Pursues, Pending
<1> QED
  BY <1>1, <1>4, <1>6, <1>7, <1>8, GoesThere DEF w, m

(* A message is shown to a bot. *)
LEMMA ObserveKeeps ==
  ASSUME TypeInv, AcceptInv, NEW h \in Readers, Observe(h)
  PROVE  TypeInv' /\ AcceptInv'
<1> DEFINE w == reader[h]
           m == Current(h)
<1>1. w.at = "choose" /\ UNCHANGED <<marked, turns, leeway>>
  BY DEF Observe
<1>2. \E t \in w.todo, unseen \in BOOLEAN :
         /\ ~Unconcerned(h, t)
         /\ Goes(h, [w EXCEPT !.at = "answer", !.todo = @ \ {t},
                              !.guest = t.guest, !.inc = t.inc, !.unseen = unseen])
  BY DEF Observe
<1>3. PICK t \in w.todo, unseen \in BOOLEAN :
         /\ ~Unconcerned(h, t)
         /\ Goes(h, [w EXCEPT !.at = "answer", !.todo = @ \ {t},
                              !.guest = t.guest, !.inc = t.inc, !.unseen = unseen])
  BY <1>2
<1> DEFINE r == [w EXCEPT !.at = "answer", !.todo = w.todo \ {t},
                          !.guest = t.guest, !.inc = t.inc, !.unseen = unseen]
<1>4. w \in Handlings /\ Listed(w, m) /\ Decides(w, m) /\ Pursues(w, m) /\ m \in DOMAIN sent
  BY <1>1, AtRecord
<1>5. t.guest \in Guests /\ t.inc \in Incs /\ t.start \in Nat
  BY <1>4, Bounds DEF Handlings, Listings
<1>6. /\ r \in Handlings /\ r.next = w.next /\ r.at = "answer" /\ r.todo = w.todo \ {t}
      /\ r.guest = t.guest /\ r.inc = t.inc /\ r.rules = w.rules
  BY <1>1, <1>4, <1>5 DEF Handlings
<1>7. Goes(h, r)
  BY <1>3
<1>8. m > t.start
  <2>1. m \in Nat
    BY <1>4 DEF TypeInv, RoomTyped
  <2> QED
    BY <1>3, <1>5, <2>1 DEF Unconcerned
<1> HIDE DEF r, w, m
<1>9. Listed(r, m) /\ Handles(r, m) /\ Decides(r, m) /\ Plans1(r, m)
  BY <1>1, <1>4, <1>6, <1>8 DEF Listed, Handles, Decides, Plans1
<1>10. Pursues(r, m)
  BY <1>1, <1>4, <1>6 DEF Pursues, Pending
<1> QED
  BY <1>1, <1>6, <1>7, <1>9, <1>10, GoesThere DEF w, m

(* The work of a consumer at another place of the same round. *)
Placed(w, at) == [w EXCEPT !.at = at]
Places == {"accept", "trigger", "end"}
LEMMA PlaceChanged ==
  ASSUME NEW w \in Handlings, NEW at \in Places
  PROVE  /\ Placed(w, at) \in Handlings /\ Placed(w, at).next = w.next
         /\ Placed(w, at).at = at /\ Placed(w, at).todo = w.todo
         /\ Placed(w, at).guest = w.guest /\ Placed(w, at).inc = w.inc
         /\ Placed(w, at).rules = w.rules
  BY DEF Handlings, Placed, Places

(* Where a round ends for a bot, it is owed nothing more. *)
LEMMA Ends ==
  ASSUME TypeInv, AcceptInv, NEW h \in Readers, GoesTo(h, "end"),
         UNCHANGED <<marked, turns>>, Upset \/ UNCHANGED leeway,
         reader[h].at \in {"answer", "accept", "trigger", "rule"},
         \A q : Owes(Current(h), reader[h].guest, q)
                    => AnsweredTo(Current(h), reader[h].guest, q)
  PROVE  TypeInv' /\ AcceptInv'
<1> DEFINE w == reader[h]
           m == Current(h)
<1>1. w \in Handlings /\ Listed(w, m) /\ Handles(w, m) /\ Pursues(w, m)
  BY AtRecord
<1> DEFINE r == Placed(w, "end")
<1>3. /\ r \in Handlings /\ r.next = w.next /\ r.at = "end"
      /\ r.todo = w.todo /\ r.guest = w.guest /\ r.inc = w.inc
  <2> HIDE DEF w
  <2>1. "end" \in Places
    BY DEF Places
  <2> QED
    BY <1>1, <2>1, PlaceChanged
<1>4. Goes(h, r)
  BY DEF GoesTo, Placed
<1> HIDE DEF r, w, m
<1>5. Listed(r, m) /\ Handles(r, m) /\ Decides(r, m) /\ Plans1(r, m)
  BY <1>1, <1>3 DEF Listed, Handles, Decides, Plans1, w
<1>6. Pursues(r, m)
  BY <1>1, <1>3 DEF Pursues, w, m
<1> QED
  BY <1>3, <1>4, <1>5, <1>6, GoesThere DEF w, m

(* A reply is looked for. *)
LEMMA ReplyInputKeeps ==
  ASSUME TypeInv, AcceptInv, NEW h \in Readers, ReplyInput(h)
  PROVE  TypeInv' /\ AcceptInv'
<1> DEFINE w == reader[h]
           m == Current(h)
<1>1. w.at = "answer" /\ UNCHANGED <<marked, turns, leeway>>
  BY DEF ReplyInput
<1>2. /\ w \in Handlings /\ Listed(w, m) /\ Handles(w, m) /\ Decides(w, m) /\ Pursues(w, m)
      /\ m \in DOMAIN sent /\ w.guest \in Guests
  BY <1>1, AtRecord
<1>3. CASE AnswersCard(h) /\ GoesTo(h, "end")
  <2>1. \A q : ~Owes(m, w.guest, q)
    BY <1>2, <1>3, OwedStands DEF AnswersCard
  <2> QED
    BY <1>1, <1>3, <2>1, Ends
<1>4. ASSUME NEW place \in {"accept", "trigger"}, ~AnswersCard(h), GoesTo(h, place),
             Mentioned(h) <=> place = "accept"
      PROVE  TypeInv' /\ AcceptInv'
  <2> DEFINE r == Placed(w, place)
  <2>2. /\ r \in Handlings /\ r.next = w.next /\ r.at = place
        /\ r.todo = w.todo /\ r.guest = w.guest /\ r.inc = w.inc /\ r.rules = w.rules
    <3> HIDE DEF w
    <3>1. place \in Places
      BY DEF Places
    <3> QED
      BY <1>2, <3>1, PlaceChanged
  <2>3. Goes(h, r)
    BY <1>4 DEF GoesTo, Placed
  <2>4. ~(sent[m].cites = "committed" /\ card.guest = w.guest /\ card.inc = w.inc)
    BY <1>2, <1>4 DEF AnswersCard, AcceptInv, RoomInv, CardsSent
  <2>5. w.guest \in sent[m].mentions <=> place = "accept"
    BY <1>4 DEF Mentioned
  <2> HIDE DEF r, w, m
  <2>7. Listed(r, m) /\ Handles(r, m) /\ Plans1(r, m)
    BY <1>1, <1>2, <2>2 DEF Listed, Handles, Plans1
  <2>8. Decides(r, m)
    BY <1>1, <1>2, <1>4, <2>2, <2>4, <2>5 DEF Decides, Cleared
  <2>9. Pursues(r, m)
    BY <1>1, <1>2, <1>4, <2>2 DEF Pursues, Pending
  <2> QED
    BY <1>1, <2>2, <2>3, <2>7, <2>8, <2>9, GoesThere DEF w, m
<1> QED
  BY <1>3, <1>4 DEF ReplyInput

(* A consumer that has read the authority goes on with what it read. *)
PlannedWork(w, plan) == [w EXCEPT !.at = "commit", !.plan = plan]
LEMMA PlanTyped ==
  ASSUME NEW w \in Handlings, NEW plan \in Plans
  PROVE  /\ PlannedWork(w, plan) \in Handlings /\ PlannedWork(w, plan).next = w.next
         /\ PlannedWork(w, plan).at = "commit" /\ PlannedWork(w, plan).todo = w.todo
         /\ PlannedWork(w, plan).guest = w.guest /\ PlannedWork(w, plan).inc = w.inc
         /\ PlannedWork(w, plan).rules = w.rules /\ PlannedWork(w, plan).plan = plan
  BY DEF Handlings, PlannedWork

LEMMA PlannedKeeps ==
  ASSUME TypeInv, AcceptInv, NEW h \in Readers, NEW rule, NEW saved \in Incs,
         \/ reader[h].at = "accept" /\ rule = 0
         \/ reader[h].at = "rule" /\ rule \in reader[h].rules /\ saved = reader[h].plan.saved,
         Planned(h, rule, saved), UNCHANGED <<marked, turns, leeway>>
  PROVE  TypeInv' /\ AcceptInv'
<1> DEFINE w == reader[h]
           m == Current(h)
           b == w.guest
           plan == [rule |-> rule, saved |-> saved, epoch |-> seat[b].epoch]
           r == PlannedWork(w, plan)
<1>1. /\ w \in Handlings /\ Listed(w, m) /\ Handles(w, m) /\ Decides(w, m) /\ Pursues(w, m)
      /\ Plans1(w, m) /\ m \in DOMAIN sent /\ b \in Guests /\ w.at \in {"accept", "rule"}
  BY AtRecord
<1>2. plan \in Plans
  <2>1. seat[b] \in Seats
    BY <1>1 DEF TypeInv, RoomTyped
  <2>2. rule \in 0 .. MaxRules
    BY <1>1, RuleNumbers DEF Handlings
  <2> QED
    BY <2>1, <2>2 DEF Plans, Seats
<1>3. plan.rule = rule /\ plan.saved = saved /\ plan.epoch = seat[b].epoch
  OBVIOUS
<1>4. Goes(h, r)
  BY DEF Planned, PlannedWork
<1>5. \/ w.at = "accept" /\ rule = 0
      \/ w.at = "rule" /\ rule \in w.rules /\ saved = w.plan.saved
  OBVIOUS
<1> HIDE DEF w, plan
<1>6. /\ r \in Handlings /\ r.next = w.next /\ r.at = "commit" /\ r.todo = w.todo
      /\ r.guest = b /\ r.inc = w.inc /\ r.rules = w.rules /\ r.plan = plan
  BY <1>1, <1>2, PlanTyped
<1> HIDE DEF r, m, b
<1>7. Listed(r, m) /\ Handles(r, m)
  BY <1>1, <1>6 DEF Listed, Handles, b
<1>8. Decides(r, m)
  BY <1>1, <1>3, <1>5, <1>6 DEF Decides, Cleared, b
<1>9. Plans1(r, m)
  BY <1>1, <1>3, <1>5, <1>6 DEF Plans1, Decides, b
<1>10. Pursues(r, m)
  <2> SUFFICES ASSUME NEW a, NEW q, Owes(m, a, q), ~AnsweredTo(m, a, q),
                      ~\E t \in r.todo : t.guest = a
               PROVE  r.guest = a /\ Pending(r, q)
    BY DEF Pursues
  <2>1. w.guest = a /\ Pending(w, q)
    BY <1>1, <1>6 DEF Pursues
  <2>2. CASE w.at = "accept"
    BY <1>1, <1>3, <1>5, <1>6, <2>1, <2>2, OwedStands DEF Decides, Pending, b
  <2>3. CASE w.at = "rule"
    BY <1>6, <2>1, <2>3 DEF Pending, b
  <2> QED
    BY <1>1, <2>2, <2>3
<1> QED
  BY <1>1, <1>4, <1>6, <1>7, <1>8, <1>9, <1>10, GoesThere DEF w, m, b

(* A run whose key is that of the turn answers it. *)
LEMMA PriorAnswers ==
  ASSUME NEW h \in Readers, NEW rule, NEW saved, Prior(Turn(h, rule, saved)) # {}
  PROVE  AnsweredTo(Current(h), reader[h].guest, rule)
  BY DEF Prior, Turn, AnsweredTo

(* A mention is accepted, or refused. *)
LEMMA AcceptMentionKeeps ==
  ASSUME TypeInv, AcceptInv, NEW h \in Readers, AcceptMention(h)
  PROVE  TypeInv' /\ AcceptInv'
<1> DEFINE b == reader[h].guest
           m == Current(h)
           missing == ~seat[b].live \/ shape[b] = "deleted"
           allowed == /\ room.sender /\ ~missing
                      /\ Seated(b, reader[h].inc) /\ Participates(b)
                      /\ Prior(Turn(h, 0, seat[b].saved)) = {}
                      /\ Genuine(m)
                      /\ sent[m].cites # "nothing" => card.state = "committed"
<1>1. reader[h].at = "accept" /\ UNCHANGED <<marked, turns, leeway>>
  BY DEF AcceptMention
<1>2. \/ BeginAgain(h) \/ Planned(h, 0, seat[b].saved)
      \/ GoesTo(h, "end") /\ ~allowed /\ ~(room.sender /\ missing)
      \/ GoesTo(h, "end") /\ sent[m].cites # "nothing"
  BY DEF AcceptMention
<1>3. /\ m \in DOMAIN sent /\ b \in Guests /\ Handles(reader[h], m) /\ Decides(reader[h], m)
  BY <1>1, AtRecord
<1>4. CASE GoesTo(h, "end") /\ (~allowed \/ sent[m].cites # "nothing")
  <2>1. ASSUME NEW q, Owes(m, b, q)
        PROVE  AnsweredTo(m, b, q)
    <3>1. /\ Participates(b) /\ seat[b].live /\ shape[b] # "deleted" /\ room.sender
          /\ Genuine(m) /\ sent[m].cites = "nothing" /\ b \notin sent[m].spoilt
      BY <1>3, <2>1, OwedStands
    <3>2. q = 0
      BY <1>1, <1>3, <2>1, OwedStands DEF Decides
    <3>3. Seated(b, reader[h].inc)
      BY <1>1, <1>3, <3>1 DEF Handles, Seated
    <3>4. Prior(Turn(h, 0, seat[b].saved)) # {}
      BY <1>4, <3>1, <3>3
    <3> QED
      BY <3>2, <3>4, PriorAnswers
  <2> QED
    BY <1>1, <1>4, <2>1, Ends
<1>5. CASE BeginAgain(h)
  BY <1>1, <1>5, Again
<1>6. CASE Planned(h, 0, seat[b].saved)
  <2>1. seat[b].saved \in Incs
    BY <1>3, SeatNumbers DEF TypeInv
  <2> QED
    BY <1>1, <1>6, <2>1, PlannedKeeps
<1> QED
  BY <1>2, <1>4, <1>5, <1>6

(* The rules that match are read, once. *)
RuledWork(w, rules, saved) == [w EXCEPT !.at = "rule", !.rules = rules, !.plan.saved = saved]
LEMMA RuledTyped ==
  ASSUME NEW w \in Handlings, NEW rules \in SUBSET Rules, NEW saved \in Incs
  PROVE  LET r == RuledWork(w, rules, saved)
         IN  /\ r \in Handlings /\ r.next = w.next /\ r.at = "rule" /\ r.todo = w.todo
             /\ r.guest = w.guest /\ r.inc = w.inc /\ r.rules = rules /\ r.plan.saved = saved
  BY DEF Handlings, Plans, RuledWork

LEMMA TriggerRulesKeeps ==
  ASSUME TypeInv, AcceptInv, NEW h \in Readers, TriggerRules(h)
  PROVE  TypeInv' /\ AcceptInv'
<1> DEFINE w == reader[h]
           m == Current(h)
           b == w.guest
           matching == IF /\ Seated(b, w.inc) /\ shape[b] = "active" /\ m > seat[b].ruleStart
                       THEN seat[b].rules \cap sent[m].fits ELSE {}
           r == RuledWork(w, matching, seat[b].saved)
<1>1. w.at = "trigger" /\ UNCHANGED <<marked, turns, leeway>>
  BY DEF TriggerRules
<1>2. \/ matching = {} /\ GoesTo(h, "end")
      \/ Goes(h, r)
  BY DEF TriggerRules, RuledWork
<1>3. /\ w \in Handlings /\ Listed(w, m) /\ Handles(w, m) /\ Decides(w, m) /\ Pursues(w, m)
      /\ m \in DOMAIN sent /\ b \in Guests
  BY <1>1, AtRecord
<1>4. /\ seat[b] \in Seats /\ seat[b].saved \in Nat /\ seat[b].saved \in Incs
      /\ matching \in SUBSET Rules
      /\ matching \subseteq seat[b].rules /\ matching \subseteq sent[m].fits
  <2>1. seat[b] \in Seats
    BY <1>3 DEF TypeInv, RoomTyped
  <2>2. seat[b].saved \in Nat /\ seat[b].saved \in Incs
    BY <1>3, SeatNumbers DEF TypeInv
  <2>3. seat[b].rules \in SUBSET Rules
    BY <2>1 DEF Seats
  <2> QED
    BY <2>1, <2>2, <2>3
<1>5. ASSUME NEW q, Owes(m, b, q)
      PROVE  q \in matching
  <2>1. /\ seat[b].live /\ shape[b] = "active" /\ b \notin sent[m].spoilt
        /\ q \in seat[b].rules /\ q \in sent[m].fits /\ Follows(b, m)
    BY <1>1, <1>3, <1>5, OwedStands DEF Decides
  <2>2. Seated(b, w.inc)
    BY <1>1, <1>3, <2>1 DEF Handles, Seated
  <2> QED
    BY <2>1, <2>2 DEF Follows
<1>6. CASE matching = {} /\ GoesTo(h, "end")
  BY <1>1, <1>5, <1>6, Ends
<1>7. CASE Goes(h, r)
  <2> HIDE DEF matching, w
  <2>1. /\ r \in Handlings /\ r.next = w.next /\ r.at = "rule" /\ r.todo = w.todo
        /\ r.guest = b /\ r.inc = w.inc /\ r.rules = matching /\ r.plan.saved = seat[b].saved
    BY <1>3, <1>4, RuledTyped
  <2>2. b \notin sent[m].spoilt => sent[m].standing[b].saved <= seat[b].saved
    BY <1>3 DEF AcceptInv, RoomInv, Unspoilt
  <2> HIDE DEF r, m
  <2>3. Listed(r, m) /\ Handles(r, m)
    BY <1>1, <1>3, <2>1 DEF Listed, Handles
  <2>4. Decides(r, m)
    BY <1>1, <1>3, <1>4, <2>1 DEF Decides, Cleared
  <2>5. Plans1(r, m)
    <3>1. seat[b].saved <= seat[b].saved
      BY <1>4
    <3> QED
      BY <1>4, <2>1, <2>2, <3>1 DEF Plans1
  <2>6. Pursues(r, m)
    BY <1>3, <1>5, <2>1 DEF Pursues, Pending
  <2> QED
    BY <1>1, <1>7, <2>1, <2>3, <2>4, <2>5, <2>6, GoesThere DEF w, m, b
<1> QED
  BY <1>2, <1>6, <1>7

(* A consumer that is done with a mention, or with one rule, comes to the   *)
(* other rules.                                                             *)
Passed(w, rule) ==
    [w EXCEPT !.at = IF w.rules \ {rule} = {} THEN "end" ELSE "rule",
              !.rules = w.rules \ {rule}, !.plan.rule = 0, !.plan.epoch = 0]
LEMMA PassedTyped ==
  ASSUME NEW w \in Handlings, NEW rule
  PROVE  LET r == Passed(w, rule)
         IN  /\ r \in Handlings /\ r.next = w.next /\ r.todo = w.todo
             /\ r.guest = w.guest /\ r.inc = w.inc /\ r.rules = w.rules \ {rule}
             /\ r.at = IF r.rules = {} THEN "end" ELSE "rule"
             /\ r.plan.saved = w.plan.saved
<1> DEFINE at == IF w.rules \ {rule} = {} THEN "end" ELSE "rule"
           left == w.rules \ {rule}
           plan == [w.plan EXCEPT !.rule = 0, !.epoch = 0]
           r == [w EXCEPT !.at = at, !.rules = left, !.plan = plan]
<1>1. Passed(w, rule) = r
  BY DEF Passed, Handlings, Plans
<1>2. at \in {"end", "rule"} /\ left \in SUBSET Rules
  BY DEF Handlings
<1>3. plan \in Plans /\ plan.saved = w.plan.saved
  BY RuleNumbers DEF Handlings, Plans
<1>4. at = IF left = {} THEN "end" ELSE "rule"
  OBVIOUS
<1> HIDE DEF at, left, plan
<1>5. /\ r \in Handlings /\ r.next = w.next /\ r.todo = w.todo
      /\ r.guest = w.guest /\ r.inc = w.inc /\ r.rules = left /\ r.at = at /\ r.plan = plan
  BY <1>2, <1>3 DEF Handlings
<1> QED
  BY <1>1, <1>3, <1>4, <1>5 DEF left

LEMMA PassedWorks ==
  ASSUME TypeInv, NEW w \in Handlings, NEW m \in DOMAIN sent, NEW rule,
         \/ w.at = "rule"
         \/ w.at = "commit" /\ rule = w.plan.rule,
         Listed(w, m), Handles(w, m), Decides(w, m), Plans1(w, m), Pursues(w, m)
  PROVE  LET r == Passed(w, rule)
         IN  /\ r \in Handlings /\ r.next = w.next /\ r.guest = w.guest /\ r.at \in {"rule", "end"}
             /\ Listed(r, m) /\ Handles(r, m) /\ Decides(r, m) /\ Plans1(r, m)
             /\ \A b, q : Owes(m, b, q) =>
                  \/ AnsweredTo(m, b, q)
                  \/ \E t \in r.todo : t.guest = b
                  \/ r.guest = b /\ (q = rule \/ Pending(r, q))
<1> DEFINE r == Passed(w, rule)
<1>1. /\ r \in Handlings /\ r.next = w.next /\ r.todo = w.todo
      /\ r.guest = w.guest /\ r.inc = w.inc /\ r.rules = w.rules \ {rule}
      /\ r.at = IF r.rules = {} THEN "end" ELSE "rule"
      /\ r.plan.saved = w.plan.saved
  BY PassedTyped
<1> HIDE DEF r
<1>2. Listed(r, m) /\ Handles(r, m)
  BY <1>1 DEF Listed, Handles
<1>3. r.at = "rule" => w.guest \notin sent[m].mentions
  BY <1>1 DEF Decides
<1>4. Decides(r, m)
  BY <1>1, <1>3 DEF Decides, Cleared
<1>5. Plans1(r, m)
  BY <1>1, <1>3 DEF Plans1
<1>6. \A b, q : Owes(m, b, q) =>
         \/ AnsweredTo(m, b, q)
         \/ \E t \in r.todo : t.guest = b
         \/ r.guest = b /\ (q = rule \/ Pending(r, q))
  BY <1>1 DEF Pursues, Pending
<1> QED
  BY <1>1, <1>2, <1>4, <1>5, <1>6 DEF r

(* A mention, or a rule, that is not accepted is owed nothing more. *)
LEMMA OnKeeps ==
  ASSUME TypeInv, AcceptInv, NEW h \in Readers, NEW rule, OnToNextRule(h, rule),
         UNCHANGED <<marked, turns, leeway>>,
         \/ reader[h].at = "rule"
         \/ reader[h].at = "commit" /\ rule = reader[h].plan.rule,
         Owes(Current(h), reader[h].guest, rule)
            => AnsweredTo(Current(h), reader[h].guest, rule)
  PROVE  TypeInv' /\ AcceptInv'
<1> DEFINE w == reader[h]
           m == Current(h)
           r == Passed(w, rule)
<1>1. /\ w \in Handlings /\ Listed(w, m) /\ Handles(w, m) /\ Decides(w, m) /\ Plans1(w, m)
      /\ Pursues(w, m) /\ m \in DOMAIN sent /\ w.at # "idle"
  BY AtRecord
<1>2. Goes(h, r)
  BY DEF OnToNextRule, Passed
<1>3. \/ w.at = "rule"
      \/ w.at = "commit" /\ rule = w.plan.rule
  OBVIOUS
<1>4. Owes(m, w.guest, rule) => AnsweredTo(m, w.guest, rule)
  OBVIOUS
<1> HIDE DEF w, m
<1>5. /\ r \in Handlings /\ r.next = w.next /\ r.guest = w.guest
      /\ Listed(r, m) /\ Handles(r, m) /\ Decides(r, m) /\ Plans1(r, m)
      /\ \A b, q : Owes(m, b, q) =>
           \/ AnsweredTo(m, b, q)
           \/ \E t \in r.todo : t.guest = b
           \/ r.guest = b /\ (q = rule \/ Pending(r, q))
  BY <1>1, <1>3, PassedWorks
<1> HIDE DEF r
<1>6. Pursues(r, m)
  BY <1>4, <1>5 DEF Pursues
<1> QED
  BY <1>1, <1>2, <1>5, <1>6, GoesThere DEF w, m

(* A rule is accepted, or refused. *)
LEMMA AcceptRuleKeeps ==
  ASSUME TypeInv, AcceptInv, NEW h \in Readers, NEW rule \in Rules, AcceptRule(h, rule)
  PROVE  TypeInv' /\ AcceptInv'
<1> DEFINE b == reader[h].guest
           m == Current(h)
           saved == reader[h].plan.saved
           missing == ~seat[b].live \/ shape[b] = "deleted"
           allowed == /\ room.admin /\ ~missing
                      /\ Seated(b, reader[h].inc) /\ Participates(b)
                      /\ Prior(Turn(h, rule, saved)) = {}
                      /\ seat[b].saved = saved
                      /\ Follows(b, m) /\ Genuine(m)
<1>1. reader[h].at = "rule" /\ rule \in reader[h].rules /\ UNCHANGED <<marked, turns, leeway>>
  BY DEF AcceptRule
<1>2. \/ missing /\ GoesTo(h, "end")
      \/ Planned(h, rule, saved)
      \/ ~allowed /\ ~(room.admin /\ missing) /\ OnToNextRule(h, rule)
  BY DEF AcceptRule
<1>3. /\ m \in DOMAIN sent /\ b \in Guests /\ reader[h] \in Handlings
      /\ Handles(reader[h], m) /\ Decides(reader[h], m) /\ Plans1(reader[h], m)
  BY <1>1, AtRecord
<1>4. CASE missing /\ GoesTo(h, "end")
  <2>1. \A q : ~Owes(m, b, q)
    BY <1>3, <1>4, OwedStands
  <2> QED
    BY <1>1, <1>4, <2>1, Ends
<1>5. CASE Planned(h, rule, saved)
  <2>1. saved \in Incs
    BY <1>3 DEF Handlings, Plans
  <2> QED
    BY <1>1, <1>5, <2>1, PlannedKeeps
<1>6. CASE ~allowed /\ ~(room.admin /\ missing) /\ OnToNextRule(h, rule)
  <2>1. ASSUME Owes(m, b, rule)
        PROVE  AnsweredTo(m, b, rule)
    <3>1. b \notin sent[m].mentions
      BY <1>1, <1>3 DEF Decides
    <3>2. /\ Participates(b) /\ seat[b].live /\ shape[b] # "deleted" /\ Genuine(m)
          /\ b \notin sent[m].spoilt /\ room.admin /\ Follows(b, m)
          /\ sent[m].standing[b].saved = seat[b].saved
      BY <1>3, <2>1, <3>1, OwedStands
    <3>3. Seated(b, reader[h].inc)
      BY <1>1, <1>3, <3>2 DEF Handles, Seated
    <3>4. seat[b].saved = saved
      <4>1. saved <= seat[b].saved /\ seat[b].saved <= saved
        BY <1>1, <1>3, <3>1, <3>2, <3>3 DEF Plans1, Seated
      <4>2. saved \in Nat /\ seat[b].saved \in Nat
        BY <1>3, SeatNumbers, Bounds DEF TypeInv, Handlings, Plans, Incs
      <4> QED
        BY <4>1, <4>2
    <3>5. Prior(Turn(h, rule, saved)) # {}
      BY <1>6, <3>2, <3>3, <3>4
    <3> QED
      BY <3>5, PriorAnswers
  <2> QED
    BY <1>1, <1>6, <2>1, OnKeeps
<1> QED
  BY <1>2, <1>4, <1>5, <1>6

(* The round of a bot is over. *)
LEMMA FinishGuestKeeps ==
  ASSUME TypeInv, AcceptInv, NEW h \in Readers, FinishGuest(h)
  PROVE  TypeInv' /\ AcceptInv'
<1> DEFINE w == reader[h]
           m == Current(h)
           r == [Waiting(w.next) EXCEPT !.at = "choose", !.todo = w.todo]
<1>1. w.at = "end" /\ UNCHANGED <<marked, turns, leeway>>
  BY DEF FinishGuest
<1>2. CASE BeginAgain(h)
  BY <1>1, <1>2, Again
<1>3. CASE Goes(h, r)
  <2>1. /\ w \in Handlings /\ Listed(w, m) /\ Pursues(w, m)
        /\ w.next \in 1 .. Len(records) + 1 /\ RecordsAnswered(w.next - 1)
    BY <1>1, AtRecord
  <2>2. PICK k \in 1 .. Len(records) + 1 : k = w.next
    BY <2>1
  <2>3. Waiting(k) \in Handlings /\ Waiting(k).next = k /\ Waiting(k).rules = {}
    BY <2>1, <2>2, WaitingWorks
  <2>4. w.todo \in SUBSET Listings
    BY <2>1 DEF Handlings
  <2>5. /\ r \in Handlings /\ r.next = w.next /\ r.at = "choose" /\ r.todo = w.todo
        /\ r.rules = {}
    BY <2>2, <2>3, <2>4 DEF Handlings
  <2>6. Goes(h, r)
    BY <1>3
  <2> HIDE DEF r, w, m
  <2>7. Listed(r, m) /\ Handles(r, m) /\ Decides(r, m) /\ Plans1(r, m)
    BY <2>1, <2>5 DEF Listed, Handles, Decides, Plans1
  <2>8. Pursues(r, m)
    BY <1>1, <2>1, <2>5 DEF Pursues, Pending
  <2> QED
    BY <1>1, <2>5, <2>6, <2>7, <2>8, GoesThere DEF w, m
<1> QED
  BY <1>2, <1>3 DEF FinishGuest

(* A record that is marked owes nothing. *)
LEMMA MarkRecordKeeps ==
  ASSUME TypeInv, AcceptInv, NEW h \in Readers, MarkRecord(h)
  PROVE  TypeInv' /\ AcceptInv'
<1>1. /\ reader[h].at = "choose" /\ reader[h].todo = {} /\ UNCHANGED <<turns, leeway>>
      /\ Goes(h, Waiting(reader[h].next + 1)) /\ marked' \in {marked, reader[h].next}
  BY DEF MarkRecord
<1>2. PICK k : k = reader[h].next
  OBVIOUS
<1>3. /\ k \in 1 .. Len(records) /\ Len(records) \in Nat /\ RecordsAnswered(k - 1)
      /\ Pursues(reader[h], Current(h)) /\ Current(h) = records[k]
      /\ RecordsAnswered(marked) /\ marked \in 0 .. Len(records) /\ holder \in Readers
  BY <1>1, <1>2, AtRecord DEF Current
<1>4. RecordsAnswered(k)
  <2>1. \A b, q : Owes(records[k], b, q) => AnsweredTo(records[k], b, q)
    BY <1>1, <1>3 DEF Pursues, Pending
  <2>2. \A i \in 1 .. k : i = k \/ i \in 1 .. k - 1
    BY <1>3
  <2> QED
    BY <1>3, <2>1, <2>2 DEF RecordsAnswered
<1>5. PICK n : n = marked'
  OBVIOUS
<1>6. n \in 0 .. Len(records) /\ RecordsAnswered(n)
  BY <1>1, <1>2, <1>3, <1>4, <1>5
<1>7. PICK j \in 1 .. Len(records) + 1 : j = k + 1 /\ j - 1 = k
  BY <1>3
<1>8. RecordsAnswered(j - 1) /\ reader' = [reader EXCEPT ![h] = Waiting(j)]
  BY <1>1, <1>2, <1>4, <1>7 DEF Goes
<1>9. UNCHANGED <<sent, records, seat, shape, room, card, hook>> /\ holder' \in Readers
  BY <1>1, <1>3 DEF Goes
<1> QED
  BY <1>1, <1>5, <1>6, <1>8, <1>9, Waits

(* What goes wrong begins at a record that is not marked. *)
LEMMA UpsetsKeep ==
  ASSUME TypeInv, AcceptInv, NEW h \in Readers, CallFails(h) \/ ProcessDies(h) \/ Rebalance(h)
  PROVE  TypeInv' /\ AcceptInv'
<1>1. CASE CallFails(h)
  BY <1>1, Again DEF CallFails
<1>2. CASE ProcessDies(h) \/ Rebalance(h)
  <2>1. /\ reader' = [reader EXCEPT ![h] = Waiting(marked + 1)] /\ UNCHANGED <<marked, turns>>
        /\ UNCHANGED <<sent, records, seat, shape, room, card, hook>> /\ Upset
        /\ holder' \in Readers
    BY <1>2, AtRecord DEF ProcessDies, Rebalance, Goes
  <2>2. PICK n \in 0 .. Len(records) : n = marked /\ RecordsAnswered(n)
    BY AtRecord
  <2>3. PICK k \in 1 .. Len(records) + 1 : k = n + 1 /\ k - 1 = n
    <3>1. Len(records) \in Nat
      BY AtRecord
    <3> QED
      BY <3>1
  <2> QED
    BY <2>1, <2>2, <2>3, Waits
<1> QED
  BY <1>1, <1>2

(* A record comes again behind the others, or the webhooks change. *)
LEMMA OthersKeep ==
  ASSUME TypeInv, AcceptInv, RecordComesAgain \/ HookChanges
  PROVE  TypeInv' /\ AcceptInv'
<1>1. /\ UNCHANGED <<sent, holder, marked, reader, seat, shape, room, card, turns>>
      /\ Upset \/ UNCHANGED leeway
      /\ hook' \in BOOLEAN
      /\ records' = records \/ \E m \in DOMAIN sent : records' = Append(records, m)
  BY DEF RecordComesAgain, HookChanges, TypeInv, RoomTyped
<1>2. records \in Seq(1 .. Len(sent)) /\ DOMAIN sent = 1 .. Len(sent)
  BY DEF TypeInv, WorkTyped, RoomTyped
<1>3. /\ records' \in Seq(1 .. Len(sent)) /\ Len(records') \in Nat
      /\ Len(records) \in Nat /\ Len(records) <= Len(records')
      /\ \A k \in 1 .. Len(records) : records'[k] = records[k]
      /\ DOMAIN records = 1 .. Len(records) /\ DOMAIN records' = 1 .. Len(records')
  <2>1. CASE records' = records
    BY <1>2, <2>1
  <2>2. ASSUME NEW m \in 1 .. Len(sent), records' = Append(records, m)
        PROVE  /\ records' \in Seq(1 .. Len(sent)) /\ Len(records') \in Nat
               /\ Len(records) \in Nat /\ Len(records) <= Len(records')
               /\ \A k \in 1 .. Len(records) : records'[k] = records[k]
               /\ DOMAIN records = 1 .. Len(records) /\ DOMAIN records' = 1 .. Len(records')
    BY <1>2, <2>2
  <2> QED
    BY <1>1, <1>2, <2>1, <2>2
<1>4. TypeInv'
  <2>1. leeway' \in [choices: 0 .. MaxChoices, upsets: 0 .. MaxUpsets]
        /\ leeway'.choices = leeway.choices
    BY <1>1, Paid DEF TypeInv
  <2>2. RoomTyped' /\ ChoicesLeft'
    BY <1>1, <2>1 DEF TypeInv, RoomTyped, ChoicesLeft
  <2>3. WorkTyped'
    <3>1. records' \in Seq(1 .. Len(sent'))
      BY <1>1, <1>3
    <3>2. marked' \in 0 .. Len(records')
      <4>1. marked \in 0 .. Len(records)
        BY DEF TypeInv, WorkTyped
      <4>2. marked' = marked
        BY <1>1
      <4>3. Len(records') \in Nat /\ Len(records) \in Nat /\ Len(records) <= Len(records')
        BY <1>3
      <4> QED
        BY <4>1, <4>2, <4>3
    <3>3. holder' \in Readers /\ reader' \in [Readers -> Handlings] /\ turns' \in Seq(Turns)
      BY <1>1 DEF TypeInv, WorkTyped
    <3> QED
      BY <3>1, <3>2, <3>3 DEF WorkTyped
  <2>4. PlacesTyped'
    <3>1. 1 .. Len(records) + 1 \subseteq 1 .. Len(records') + 1
          /\ DOMAIN records \subseteq DOMAIN records'
      BY <1>3
    <3> QED
      BY <1>1, <3>1 DEF TypeInv, PlacesTyped
  <2> QED
    BY <2>2, <2>3, <2>4 DEF TypeInv
<1>5. RoomInv'
  BY <1>1 DEF AcceptInv, RoomInv, Stands, Begun, Watched, Unspoilt, CardsSent, Participates
<1>6. TurnsInv'
  BY <1>1 DEF AcceptInv, TurnsInv, Granted, Cleared, TurnComesOnce
<1>7. ReadersInv'
  <2>0. \A m, b, q : /\ Owes(m, b, q)' <=> Owes(m, b, q)
                     /\ AnsweredTo(m, b, q)' <=> AnsweredTo(m, b, q)
    BY <1>1 DEF Owes, AnsweredTo
  <2>1. ASSUME NEW n \in 0 .. Len(records), RecordsAnswered(n)
        PROVE  RecordsAnswered(n)'
    <3>1. \A k \in 1 .. n : k \in 1 .. Len(records)
      BY <1>3
    <3>2. \A k \in 1 .. n : records'[k] = records[k]
      BY <1>3, <3>1
    <3> SUFFICES ASSUME NEW k \in 1 .. n, NEW b, NEW q, Owes(records[k], b, q)'
                 PROVE  AnsweredTo(records[k], b, q)'
      BY DEF RecordsAnswered
    <3>3. Owes(records[k], b, q)
      BY <2>0, <3>2
    <3>4. AnsweredTo(records[k], b, q)
      BY <2>1, <3>3 DEF RecordsAnswered
    <3> QED
      BY <2>0, <3>2, <3>4
  <2>2. marked' = marked /\ marked \in 0 .. Len(records) /\ RecordsAnswered(marked)
    BY <1>1 DEF TypeInv, WorkTyped, AcceptInv, ReadersInv
  <2>3. RecordsAnswered(marked)'
    BY <2>1, <2>2 DEF RecordsAnswered
  <2>4. ASSUME NEW h \in Readers, NEW r \in {reader'[h]}
        PROVE  Working(r)'
    <3>1. r = reader[h]
      BY <1>1
    <3>2. Working(r) /\ r.next \in 1 .. Len(records) + 1
          /\ (r.at # "idle" => r.next \in 1 .. Len(records))
      BY <3>1, RecordsTyped DEF AcceptInv, ReadersInv
    <3>3. PICK n \in 0 .. Len(records) : n = r.next - 1
      BY <1>3, <3>2
    <3>4. RecordsAnswered(r.next - 1)'
      BY <2>1, <3>2, <3>3 DEF Working
    <3>5. r.at # "idle" => records'[r.next] = records[r.next]
      BY <1>3, <3>2
    <3>6. ASSUME NEW m
          PROVE  /\ Listed(r, m) => Listed(r, m)'
                 /\ Handles(r, m) => Handles(r, m)'
                 /\ Decides(r, m) => Decides(r, m)'
                 /\ Plans1(r, m) => Plans1(r, m)'
                 /\ Pursues(r, m) => Pursues(r, m)'
      <4>1. Pursues(r, m) => Pursues(r, m)'
        BY <2>0 DEF Pursues, Pending
      <4> QED
        BY <1>1, <4>1 DEF Listed, Handles, Decides, Cleared, Plans1
    <3> QED
      BY <3>2, <3>4, <3>5, <3>6 DEF Working
  <2> QED
    BY <2>3, <2>4 DEF ReadersInv
<1> QED
  BY <1>4, <1>5, <1>6, <1>7 DEF AcceptInv

-----------------------------------------------------------------------------
(* The transaction that accepts a run                                       *)

(* A run that is accepted rests on what stood when its message was sent.    *)
LEMMA CommitGrants ==
  ASSUME TypeInv, AcceptInv, NEW h \in Readers, reader[h].at = "commit", StillHolds(h)
  PROVE  LET t == Turn(h, reader[h].plan.rule, reader[h].plan.saved)
         IN  t \in Turns /\ Granted(t)
<1> DEFINE w == reader[h]
           m == Current(h)
           b == w.guest
           t == Turn(h, w.plan.rule, w.plan.saved)
<1>1. /\ w \in Handlings /\ Handles(w, m) /\ Decides(w, m) /\ Plans1(w, m)
      /\ m \in DOMAIN sent /\ b \in Guests
  BY AtRecord
<1>2. /\ t.post = m /\ t.guest = b /\ t.inc = w.inc
      /\ t.rule = w.plan.rule /\ t.saved = w.plan.saved
  BY DEF Turn
<1>3. t \in Turns
  <2>1. w.inc \in Incs /\ w.plan.saved \in Incs /\ w.plan.rule \in 0 .. MaxRules
    BY <1>1 DEF Handlings, Plans
  <2>2. m \in 1 .. MaxSent
    BY <1>1, Bounds DEF TypeInv, RoomTyped
  <2> QED
    BY <1>1, <2>1, <2>2 DEF Turn, Turns
<1>4. /\ seat[b].live /\ seat[b].inc = w.inc
      /\ w.plan.rule # 0 => seat[b].saved = w.plan.saved /\ m > seat[b].ruleStart
  BY DEF StillHolds, Seated, Follows
<1>5. m > seat[b].start
  BY <1>1, <1>4 DEF Handles
<1>6. w.plan.rule = 0 <=> b \in sent[m].mentions
  <2>1. w.rules \subseteq Rules
    BY <1>1 DEF Handlings
  <2> QED
    BY <1>1, <2>1, RuleNumbers DEF Decides
<1>7. sent[m].standing[b].inc = w.inc
  BY <1>1, <1>4, <1>5 DEF AcceptInv, RoomInv, Stands
<1>8. ASSUME w.plan.rule # 0
      PROVE  /\ sent[m].standing[b].saved = w.plan.saved
             /\ w.plan.rule \in sent[m].standing[b].rules \cap sent[m].fits
  <2>1. w.plan.rule \in w.rules /\ w.rules \subseteq sent[m].fits
    BY <1>1, <1>6, <1>8 DEF Decides
  <2>2. w.rules \subseteq seat[b].rules
    BY <1>1, <1>4, <1>6, <1>8 DEF Plans1
  <2>3. /\ sent[m].standing[b].saved = seat[b].saved
        /\ sent[m].standing[b].rules = seat[b].rules
    BY <1>1, <1>4, <1>5, <1>8 DEF AcceptInv, RoomInv, Stands
  <2> QED
    BY <1>4, <1>8, <2>1, <2>2, <2>3
<1>9. ~(sent[m].cites = "committed" /\ card.guest = b /\ card.inc = w.inc)
  BY <1>1 DEF Decides, Cleared
<1>10. Granted(t)
  <2> HIDE DEF t, w, m, b
  <2> QED
    BY <1>1, <1>2, <1>6, <1>7, <1>8, <1>9 DEF Granted, Cleared
<1> QED
  BY <1>3, <1>10

(* Two turns that were granted to one message, bot and rule have one key,   *)
(* and so have two that were granted to a mention.                          *)
LEMMA OneKey ==
  ASSUME NEW t, Granted(t), NEW i \in DOMAIN turns, Granted(turns[i]),
         turns[i].post = t.post, turns[i].guest = t.guest,
         turns[i].rule \in {0, t.rule} \/ t.rule \in {0, turns[i].rule}
  PROVE  i \in Prior(t)
<1>1. turns[i].rule = t.rule /\ turns[i].inc = t.inc
      /\ (t.rule # 0 => turns[i].saved = t.saved)
  BY DEF Granted
<1> QED
  BY <1>1 DEF Prior

(* The run is accepted, whether or not its caller hears of it. *)
LEMMA CommitKeeps ==
  ASSUME TypeInv, AcceptInv, NEW h \in Readers, reader[h].at = "commit", StillHolds(h),
         Prior(Turn(h, reader[h].plan.rule, reader[h].plan.saved)) = {},
         turns' = Append(turns, Turn(h, reader[h].plan.rule, reader[h].plan.saved)),
         marked' = marked,
         \/ OnToNextRule(h, reader[h].plan.rule) /\ UNCHANGED leeway
         \/ BeginAgain(h) /\ Upset
  PROVE  TypeInv' /\ AcceptInv'
<1> DEFINE w == reader[h]
           m == Current(h)
           t == Turn(h, w.plan.rule, w.plan.saved)
           n == Len(turns) + 1
<1>1. t \in Turns /\ Granted(t)
  BY CommitGrants
<1>2. t.post = m /\ t.guest = w.guest /\ t.rule = w.plan.rule
  BY DEF Turn
<1>3. /\ UNCHANGED <<sent, records, holder, seat, shape, room, card, hook>>
      /\ Upset \/ UNCHANGED leeway
  BY DEF OnToNextRule, BeginAgain, Goes
<1>4. Prior(t) = {} /\ turns' = Append(turns, t)
  OBVIOUS
<1>5. /\ w \in Handlings /\ Listed(w, m) /\ Handles(w, m) /\ Decides(w, m) /\ Plans1(w, m)
      /\ Pursues(w, m) /\ m \in DOMAIN sent
      /\ w.next \in 1 .. Len(records) /\ RecordsAnswered(w.next - 1)
      /\ marked \in 0 .. Len(records) /\ RecordsAnswered(marked) /\ holder \in Readers
  BY AtRecord
<1> HIDE DEF t
<1>6. turns \in Seq(Turns)
  BY DEF TypeInv, WorkTyped
<1>7. /\ turns' \in Seq(Turns) /\ DOMAIN turns' = DOMAIN turns \cup {n} /\ n \notin DOMAIN turns
      /\ turns'[n] = t
      /\ \A i \in DOMAIN turns : i \in DOMAIN turns' /\ turns'[i] = turns[i]
  BY <1>1, <1>4, <1>6
<1> HIDE DEF n
<1>8. TurnsInv'
  <2>1. ASSUME NEW i \in DOMAIN turns'
        PROVE  Granted(turns[i])'
    <3>1. PICK u : u = turns'[i] /\ Granted(u)
      <4>1. CASE i = n
        BY <1>1, <1>7, <4>1
      <4>2. CASE i \in DOMAIN turns
        BY <1>7, <4>2 DEF AcceptInv, TurnsInv
      <4> QED
        BY <1>7, <4>1, <4>2
    <3> QED
      BY <1>3, <3>1 DEF Granted, Cleared
  <2>2. \A i \in DOMAIN turns :
          ~/\ turns[i].post = t.post /\ turns[i].guest = t.guest
           /\ (turns[i].rule \in {0, t.rule} \/ t.rule \in {0, turns[i].rule})
    BY <1>1, <1>4, OneKey DEF AcceptInv, TurnsInv
  <2>3. TurnComesOnce'
    <3>1. TurnComesOnce
      BY DEF AcceptInv, TurnsInv
    <3> QED
      BY <1>7, <2>2, <3>1 DEF TurnComesOnce
  <2> QED
    BY <2>1, <2>3 DEF TurnsInv
<1>9. CASE BeginAgain(h)
  <2>1. PICK k \in 1 .. Len(records) + 1 : k = w.next
    BY <1>5, AtRecord
  <2>2. /\ Waiting(k) \in Handlings /\ Waiting(k).next = k /\ Waiting(k).at = "idle"
        /\ Working(Waiting(k))
    BY <1>5, <2>1, WaitingWorks
  <2>3. GoesOn(h, Waiting(k), marked)
    BY <1>3, <1>5, <1>9, <2>1, <2>2 DEF GoesOn, BeginAgain, Goes
  <2>4. Working(Waiting(k))'
    BY <1>3, <1>7, <2>2, WorkStands
  <2> QED
    BY <1>7, <1>8, <2>3, <2>4, GoingOnTyped, GoingOnKeeps
<1>10. CASE OnToNextRule(h, w.plan.rule)
  <2>0. w.at = "commit"
    OBVIOUS
  <2>1. PICK r : /\ r = Passed(w, w.plan.rule)
                 /\ r \in Handlings /\ r.next = w.next /\ r.guest = w.guest
                 /\ r.at \in {"rule", "end"}
                 /\ Listed(r, m) /\ Handles(r, m) /\ Decides(r, m) /\ Plans1(r, m)
                 /\ \A b, q : Owes(m, b, q) =>
                      \/ AnsweredTo(m, b, q)
                      \/ \E u \in r.todo : u.guest = b
                      \/ r.guest = b /\ (q = w.plan.rule \/ Pending(r, q))
    <3> HIDE DEF w, m
    <3> QED
      BY <1>5, <2>0, PassedWorks
  <2>2. Goes(h, r)
    BY <1>10, <2>1 DEF OnToNextRule, Passed
  <2>3. GoesOn(h, r, marked)
    <3>1. w.next \in 1 .. Len(records) + 1
      BY AtRecord
    <3> QED
      BY <1>3, <1>5, <2>1, <2>2, <3>1 DEF GoesOn, Goes
  <2>4. Working(r)'
    <3>1. m = records[r.next]
      BY <2>1 DEF Current
    <3>2. PICK p : p = m /\ p = records[r.next] /\ p = records'[r.next]
      BY <1>3, <3>1
    <3> HIDE DEF w, m
    <3>3. Listed(r, p)' /\ Handles(r, p)' /\ Decides(r, p)' /\ Plans1(r, p)'
      <4>1. Listed(r, p) /\ Handles(r, p) /\ Decides(r, p) /\ Plans1(r, p)
        BY <2>1, <3>2
      <4> QED
        BY <1>3, <4>1 DEF Listed, Handles, Decides, Cleared, Plans1
    <3>4. \A k, b, q : AnsweredTo(k, b, q) => AnsweredTo(k, b, q)'
      BY <1>7 DEF AnsweredTo
    <3>5. \A b, q : b = w.guest /\ q = w.plan.rule => AnsweredTo(p, b, q)'
      BY <1>2, <1>7, <3>2 DEF AnsweredTo
    <3>6. Pursues(r, p)'
      <4>1. \A b, q : Owes(p, b, q) =>
               \/ AnsweredTo(p, b, q)'
               \/ \E u \in r.todo : u.guest = b
               \/ r.guest = b /\ Pending(r, q)
        BY <2>1, <3>2, <3>4, <3>5
      <4> QED
        BY <1>3, <4>1 DEF Pursues, Pending, Owes
    <3>7. RecordsAnswered(r.next - 1)'
      <4>1. RecordsAnswered(r.next - 1)
        BY <1>5, <2>1
      <4> QED
        BY <1>3, <3>4, <4>1 DEF RecordsAnswered, Owes
    <3> QED
      BY <3>2, <3>3, <3>6, <3>7 DEF Working
  <2> QED
    BY <1>7, <1>8, <2>3, <2>4, GoingOnTyped, GoingOnKeeps
<1> QED
  BY <1>9, <1>10

(* Nothing refuses in the transaction what is owed. *)
LEMMA OwedAtCommit ==
  ASSUME TypeInv, AcceptInv, NEW h \in Readers, reader[h].at = "commit",
         Owes(Current(h), reader[h].guest, reader[h].plan.rule)
  PROVE  StillHolds(h) /\ ~sent[Current(h)].gone
<1> DEFINE w == reader[h]
           m == Current(h)
           b == w.guest
<1>1. /\ m \in DOMAIN sent /\ b \in Guests /\ w \in Handlings
      /\ Handles(w, m) /\ Decides(w, m) /\ Plans1(w, m)
  BY AtRecord
<1>2. /\ Participates(b) /\ seat[b].live /\ Genuine(m) /\ b \notin sent[m].spoilt
      /\ room.sender
      /\ b \notin sent[m].mentions => /\ room.admin /\ Follows(b, m)
                                      /\ sent[m].standing[b].saved = seat[b].saved
  BY <1>1, OwedStands
<1>3. Seated(b, w.inc) /\ seat[b].epoch = w.plan.epoch
  BY <1>1, <1>2 DEF Handles, Plans1, Seated
<1>4. w.plan.rule # 0 => b \notin sent[m].mentions
  BY <1>1 DEF Decides
<1>5. b \notin sent[m].mentions => seat[b].saved = w.plan.saved
  <2>1. b \notin sent[m].mentions => w.plan.saved <= seat[b].saved /\ seat[b].saved <= w.plan.saved
    BY <1>1, <1>2, <1>3 DEF Plans1, Seated
  <2>2. w.plan.saved \in Nat /\ seat[b].saved \in Nat
    BY <1>1, SeatNumbers, Bounds DEF TypeInv, Handlings, Plans, Incs
  <2> QED
    BY <2>1, <2>2
<1> QED
  BY <1>2, <1>3, <1>4, <1>5 DEF StillHolds, Genuine

(* The transaction accepts, refuses, or is begun again. *)
LEMMA CommitRunKeeps ==
  ASSUME TypeInv, AcceptInv, NEW h \in Readers, CommitRun(h)
  PROVE  TypeInv' /\ AcceptInv'
<1> DEFINE m == Current(h)
           rule == reader[h].plan.rule
           t == Turn(h, rule, reader[h].plan.saved)
           new == Prior(t) = {} /\ StillHolds(h) /\ ~sent[m].gone
<1>1. reader[h].at = "commit" /\ marked' = marked
  BY DEF CommitRun
<1>2. \/ BeginAgain(h) /\ UNCHANGED <<turns, leeway>>
      \/ /\ new /\ turns' = Append(turns, t)
         /\ \/ OnToNextRule(h, rule) /\ UNCHANGED leeway
            \/ BeginAgain(h) /\ Upset
      \/ ~new /\ OnToNextRule(h, rule) /\ UNCHANGED <<turns, leeway>>
  BY DEF CommitRun
<1>3. CASE BeginAgain(h) /\ UNCHANGED <<turns, leeway>>
  BY <1>1, <1>3, Again
<1>4. CASE /\ new /\ turns' = Append(turns, t)
           /\ \/ OnToNextRule(h, rule) /\ UNCHANGED leeway
              \/ BeginAgain(h) /\ Upset
  BY <1>1, <1>4, CommitKeeps
<1>5. CASE ~new /\ OnToNextRule(h, rule) /\ UNCHANGED <<turns, leeway>>
  <2>1. ASSUME Owes(m, reader[h].guest, rule)
        PROVE  AnsweredTo(m, reader[h].guest, rule)
    <3>1. StillHolds(h) /\ ~sent[m].gone
      BY <1>1, <2>1, OwedAtCommit
    <3> QED
      BY <1>5, <3>1, PriorAnswers
  <2> QED
    BY <1>1, <1>5, <2>1, OnKeeps
<1> QED
  BY <1>2, <1>3, <1>4, <1>5

-----------------------------------------------------------------------------
(* The theorems                                                             *)

LEMMA AcceptInit == AcceptanceInit => TypeInv /\ AcceptInv
<1> SUFFICES ASSUME AcceptanceInit PROVE TypeInv /\ AcceptInv
  OBVIOUS
<1>1. /\ sent = <<>> /\ records = <<>> /\ marked = 0 /\ turns = <<>> /\ holder \in Readers
      /\ reader = [h \in Readers |-> Waiting(1)]
      /\ shape = [b \in Guests |-> "active"]
      /\ room = [sender |-> TRUE, admin |-> TRUE] /\ hook = TRUE
      /\ leeway = [choices |-> MaxChoices, upsets |-> MaxUpsets]
  BY DEF AcceptanceInit
<1>2. PICK here \in (SUBSET Guests) \ {{}}, rules \in [Guests -> SUBSET Rules] :
        /\ seat = [b \in Guests |-> IF b \in here
              THEN [NoSeat EXCEPT !.inc = 1, !.live = TRUE, !.mode = "watching",
                             !.rules = rules[b], !.saved = 1]
              ELSE NoSeat]
        /\ \E b \in here, state \in {"unsent", "sent", "committed"} :
              card = [guest |-> b, inc |-> 1, state |-> state]
  BY DEF AcceptanceInit
<1>3. 0 \in Incs /\ 1 \in Incs /\ 0 \in 0 .. MaxSent /\ 0 \in Nat
  BY Bounds DEF Incs
<1>4. \A b \in Guests : /\ seat[b] \in Seats /\ seat[b].inc \in {0, 1} /\ seat[b].saved \in {0, 1}
                        /\ seat[b].start = 0 /\ seat[b].ruleStart = 0 /\ Watched(b)
  <2>1. /\ NoSeat \in Seats /\ NoSeat.inc = 0 /\ NoSeat.saved = 0 /\ NoSeat.start = 0
        /\ NoSeat.ruleStart = 0 /\ NoSeat.rules = {}
    BY <1>3 DEF NoSeat, Seats, Modes
  <2> DEFINE s(q) == [NoSeat EXCEPT !.inc = 1, !.live = TRUE, !.mode = "watching",
                                    !.rules = q, !.saved = 1]
  <2>2. \A q \in SUBSET Rules :
          /\ s(q) \in Seats /\ s(q).inc = 1 /\ s(q).saved = 1 /\ s(q).start = 0
          /\ s(q).ruleStart = 0 /\ s(q).mode # "plain"
    BY <1>3 DEF NoSeat, Seats, Modes
  <2>3. \A b \in Guests : seat[b] = IF b \in here THEN s(rules[b]) ELSE NoSeat
    BY <1>2
  <2> HIDE DEF s
  <2>4. \A b \in Guests : rules[b] \in SUBSET Rules
    BY <1>2
  <2> QED
    BY <2>1, <2>2, <2>3, <2>4 DEF Watched
<1>5. AnyGuest \in Guests
  BY <1>2 DEF AnyGuest
<1>6. Waiting(1) \in Handlings /\ Waiting(1).at = "idle" /\ Waiting(1).next = 1
  <2>1. NoPlan \in Plans
    BY <1>3, RuleNumbers DEF NoPlan, Plans
  <2> QED
    BY <1>3, <1>5, <2>1 DEF Waiting, Handlings
<1>7. \A S : <<>> \in Seq(S) /\ Len(<<>>) = 0 /\ DOMAIN <<>> = {}
  OBVIOUS
<1>8. RoomTyped
  <2>1. seat \in [Guests -> Seats]
    BY <1>2, <1>4
  <2>2. card \in [guest: Guests, inc: Incs, state: {"unsent", "sent", "committed"}]
    <3>1. PICK b \in here, state \in {"unsent", "sent", "committed"} :
            card = [guest |-> b, inc |-> 1, state |-> state]
      BY <1>2
    <3>2. b \in Guests /\ 1 \in Incs
      BY <1>3
    <3> QED
      BY <3>1, <3>2
  <2>3. leeway \in [choices: 0 .. MaxChoices, upsets: 0 .. MaxUpsets]
    BY <1>1, Bounds
  <2>4. sent \in Seq(Messages) /\ Len(sent) <= MaxSent
    BY <1>1, <1>7, Bounds
  <2> QED
    BY <1>1, <2>1, <2>2, <2>3, <2>4 DEF RoomTyped
<1>9. WorkTyped /\ PlacesTyped
  BY <1>1, <1>6, <1>7 DEF WorkTyped, PlacesTyped
<1>10. ChoicesLeft
  BY <1>1, <1>4, Bounds DEF ChoicesLeft
<1>11. RoomInv
  <2>1. DOMAIN sent = {} /\ Len(sent) = 0
    BY <1>1, <1>7
  <2> QED
    BY <1>4, <2>1 DEF RoomInv, Stands, Begun, Unspoilt, CardsSent
<1>12. RecordsAnswered(0)
  BY DEF RecordsAnswered
<1>13. ReadersInv
  <2>1. \A h \in Readers : reader[h].at = "idle" /\ reader[h].next - 1 = 0
    BY <1>1, <1>6
  <2> QED
    BY <1>1, <1>12, <2>1 DEF ReadersInv, Working
<1>14. TurnsInv
  BY <1>1, <1>7 DEF TurnsInv, TurnComesOnce
<1> QED
  BY <1>8, <1>9, <1>10, <1>11, <1>13, <1>14 DEF TypeInv, AcceptInv

LEMMA AcceptNext ==
  TypeInv /\ AcceptInv /\ [AcceptanceNext]_acceptanceVars => TypeInv' /\ AcceptInv'
<1> SUFFICES ASSUME TypeInv, AcceptInv, [AcceptanceNext]_acceptanceVars
             PROVE  TypeInv' /\ AcceptInv'
  OBVIOUS
<1>1. CASE ConversationStep
  BY <1>1, ConversationTalks, TalkTyped, TalkKeeps
<1>2. ASSUME NEW h \in Readers,
             \/ TakeRecord(h) \/ Pass(h) \/ Observe(h) \/ ReplyInput(h)
             \/ AcceptMention(h) \/ TriggerRules(h) \/ (\E rule \in Rules : AcceptRule(h, rule))
             \/ CommitRun(h)
             \/ FinishGuest(h) \/ MarkRecord(h)
             \/ CallFails(h) \/ ProcessDies(h) \/ Rebalance(h)
      PROVE  TypeInv' /\ AcceptInv'
  BY <1>2, TakeRecordKeeps, PassKeeps, ObserveKeeps, ReplyInputKeeps, AcceptMentionKeeps,
     TriggerRulesKeeps, AcceptRuleKeeps, CommitRunKeeps, FinishGuestKeeps, MarkRecordKeeps, UpsetsKeep
<1>3. CASE RecordComesAgain \/ HookChanges
  BY <1>3, OthersKeep
<1>4. CASE UNCHANGED acceptanceVars
  <2>1. UNCHANGED <<sent, records, holder, marked, reader, seat, shape, room, card, hook,
                    turns, leeway>>
    BY <1>4 DEF acceptanceVars
  <2>2. TypeInv'
    BY <2>1 DEF TypeInv, RoomTyped, WorkTyped, PlacesTyped, ChoicesLeft
  <2>3. RoomInv' /\ TurnsInv'
    BY <2>1 DEF AcceptInv, RoomInv, Stands, Begun, Watched, Unspoilt, CardsSent, Participates,
                TurnsInv, Granted, Cleared, TurnComesOnce
  <2>4. ReadersInv'
    <3>1. /\ RecordsAnswered(marked)
          /\ \A h \in Readers : \A r \in {reader[h]} :
                Working(r) /\ r.next \in 1 .. Len(records) + 1
      BY RecordsTyped DEF AcceptInv, ReadersInv
    <3>2. \A h \in Readers : \A r \in {reader'[h]} : Working(r)'
      BY <2>1, <3>1, WorkStands
    <3>3. RecordsAnswered(marked)'
      BY <2>1, <3>1 DEF RecordsAnswered, Owes, AnsweredTo
    <3> QED
      BY <3>2, <3>3 DEF ReadersInv
  <2> QED
    BY <2>2, <2>3, <2>4 DEF AcceptInv
<1> QED
  BY <1>1, <1>2, <1>3, <1>4 DEF AcceptanceNext, ConversationStep

LEMMA AcceptHolds == AcceptanceSpec => [](TypeInv /\ AcceptInv)
  BY AcceptInit, AcceptNext, PTL DEF AcceptanceSpec

(* Messages, records, consumers, bindings and turns keep their types, with  *)
(* incarnations and versions inside their bounds (Handle, StampSettings,    *)
(* AddGuest).                                                               *)
THEOREM AcceptanceTyped == AcceptanceSpec => []AcceptanceTypeOK
  BY AcceptHolds, TypeInvTyped, PTL

(* A message has at most one turn with a bot that it mentions, and else at  *)
(* most one for each rule; what a turn rests on, the binding and the rule   *)
(* in its version, stood when the message was sent.  This holds for any     *)
(* number of bots and rules, of consumers that own the partition one after  *)
(* the other, of records that come again and of rounds that are begun       *)
(* again, also between two rules (Handle, TriggerRules, RunRepo.Accept,     *)
(* StampSettings).                                                          *)
THEOREM TurnsDue == AcceptanceSpec => []TurnsAreDue
<1>1. TypeInv /\ AcceptInv => TurnsAreDue
  BY DEF AcceptInv, TurnsInv, Granted, Cleared, TurnsAreDue, TurnWasGranted
<1> QED
  BY <1>1, AcceptHolds, PTL

(* A bot that is mentioned, and every rule that matches of another, has its *)
(* turn by the time the record counts as handled, unless something that may *)
(* refuse it has happened since: whichever calls failed, in a round or      *)
(* between two rules, and whoever took the partition over (Handle,          *)
(* TriggerRules, MarkMessage).                                              *)
THEOREM TurnsTaken == AcceptanceSpec => []TurnsAreTaken
<1>1. TypeInv /\ AcceptInv => TurnsAreTaken
  <2> SUFFICES ASSUME TypeInv, AcceptInv, NEW n \in 1 .. marked
               PROVE  LET m == records[n]
                      IN  /\ \A b \in sent[m].mentions \ sent[m].spoilt :
                               \E i \in DOMAIN turns : turns[i].post = m /\ turns[i].guest = b
                          /\ \A b \in Guests \ (sent[m].mentions \cup sent[m].spoilt) :
                               seat[b].saved = sent[m].standing[b].saved /\ room.admin =>
                                 \A q \in sent[m].standing[b].rules \cap sent[m].fits :
                                   \E i \in DOMAIN turns : /\ turns[i].post = m
                                                           /\ turns[i].guest = b
                                                           /\ turns[i].rule = q
    BY DEF TurnsAreTaken, MentionsAreAnswered, RulesAreAnswered
  <2> DEFINE m == records[n]
  <2>1. \A b, q : Owes(m, b, q) => AnsweredTo(m, b, q)
    BY DEF AcceptInv, ReadersInv, RecordsAnswered
  <2>2. m \in DOMAIN sent
    <3>1. marked \in 0 .. Len(records) /\ Len(records) \in Nat
      BY RecordsTyped DEF TypeInv, WorkTyped
    <3> QED
      BY <3>1, RecordsTyped
  <2>3. sent[m].mentions \subseteq Guests
    BY <2>2, StandingTyped DEF TypeInv, RoomTyped
  <2> HIDE DEF m
  <2>4. ASSUME NEW b \in sent[m].mentions \ sent[m].spoilt
        PROVE  \E i \in DOMAIN turns : turns[i].post = m /\ turns[i].guest = b
    <3>1. Owes(m, b, 0)
      BY <2>3 DEF Owes
    <3> QED
      BY <2>1, <3>1 DEF AnsweredTo
  <2>5. ASSUME NEW b \in Guests \ (sent[m].mentions \cup sent[m].spoilt),
               seat[b].saved = sent[m].standing[b].saved, room.admin,
               NEW q \in sent[m].standing[b].rules \cap sent[m].fits
        PROVE  \E i \in DOMAIN turns :
                 turns[i].post = m /\ turns[i].guest = b /\ turns[i].rule = q
    <3>1. Owes(m, b, q)
      BY <2>5 DEF Owes
    <3> QED
      BY <2>1, <3>1 DEF AnsweredTo
  <2> QED
    BY <2>4, <2>5 DEF m
<1> QED
  BY <1>1, AcceptHolds, PTL

=============================================================================
