--------------------------- MODULE RunAcceptance ---------------------------
(***************************************************************************)
(* From the messages of one conversation to the runs of the bots in it.    *)
(* The consumer of the bot service handles the records of the partition    *)
(* in order: for each bot bound to the conversation it shows the message   *)
(* to the bot's executor, recognizes a reply to one of its results,        *)
(* accepts a run when the message mentions the bot, and otherwise one run  *)
(* for each rule of the binding that matches.  A round that fails is begun *)
(* again, also in the middle of the rules, and a record may be handled by  *)
(* two owners of the partition or come twice.                              *)
(*                                                                         *)
(* Reading and accepting are apart: what was read is compared again in the *)
(* transaction that accepts.  Reads that follow each other directly, and   *)
(* whose disagreement only refuses, are one step.                          *)
(***************************************************************************)
EXTENDS Naturals, FiniteSets, Sequences

CONSTANTS Guests,       \* bots
          Hooked,       \* those of them that are told of messages by a webhook
          Readers,      \* processes of the bot service
          MaxRules,     \* how many rules a binding may have
          MaxSent,      \* bound: messages of the user
          MaxChoices,   \* bound: what administrators, members and the publisher
                        \* do besides
          MaxUpsets     \* bound: calls that fail, records that come again,
                        \* processes that die, partitions that change hands

ASSUME AcceptanceAssumption ==
    /\ Hooked \subseteq Guests
    /\ {MaxRules, MaxSent, MaxChoices, MaxUpsets} \subseteq Nat

VARIABLES sent,     \* the messages; the sequence number of one is its index
          records,  \* the partition
          holder,   \* the process that owns it
          marked,   \* the offset the group has committed
          reader,   \* the work of each process
          seat,     \* the newest binding of each bot
          shape,    \* the status of each bot
          room,     \* who is still a member: the sender, the administrator
          card,     \* the published result of an earlier run
          hook,     \* do the webhooks answer?
          turns,    \* the runs, in the order of their acceptance
          leeway    \* what is left of the bounds

acceptanceVars == <<sent, records, holder, marked, reader, seat, shape, room,
                    card, hook, turns, leeway>>

-----------------------------------------------------------------------------
(* Values *)

Incs == 0 .. MaxChoices + 1
Rules == 1 .. MaxRules

(* silent: participation is disabled; watching: subscribed to messages.    *)
Modes == {"silent", "plain", "watching"}

(* start: StartSeq of the binding, ruleStart: that of its settings and of  *)
(* each rule; rules: those that are enabled; saved: the version of the     *)
(* settings; epoch: the authorization versions of bot and binding, which   *)
(* only grow and are only compared.                                        *)
Seats == [inc: Incs, live: BOOLEAN, start: 0 .. MaxSent, mode: Modes,
          rules: SUBSET Rules, saved: Incs, ruleStart: 0 .. MaxSent, epoch: Nat]

(* fits: the rules whose condition the text satisfies.  standing is        *)
(* history: the bindings when the message was sent; spoilt: the bots for   *)
(* which something has happened since that may refuse it.                  *)
Messages == [mentions: SUBSET Guests, fits: SUBSET Rules,
             cites: {"nothing", "sent", "committed"}, edited: BOOLEAN, gone: BOOLEAN,
             standing: [Guests -> [inc: Incs, saved: Incs, rules: SUBSET Rules]],
             spoilt: SUBSET Guests]

Listings == [guest: Guests, inc: Incs, start: 0 .. MaxSent]
(* rule: for which rule, 0 for a mention; saved: the version of the rules. *)
Plans == [rule: 0 .. MaxRules, saved: Incs, epoch: Nat]
(* rules: those that matched and are still to be accepted.                 *)
Handlings == [at: {"idle", "choose", "answer", "accept", "trigger", "rule", "commit", "end"},
              next: Nat, todo: SUBSET Listings, guest: Guests, inc: Incs,
              unseen: BOOLEAN, rules: SUBSET Rules, plan: Plans]

Turns == [post: 1 .. MaxSent, guest: Guests, inc: Incs, rule: 0 .. MaxRules,
          saved: Incs]

AcceptanceTypeOK ==
    /\ sent \in Seq(Messages) /\ Len(sent) <= MaxSent
    /\ records \in Seq(1 .. Len(sent))
    /\ holder \in Readers /\ marked \in 0 .. Len(records)
    /\ reader \in [Readers -> Handlings]
    /\ seat \in [Guests -> Seats]
    /\ shape \in [Guests -> {"active", "disabled", "deleted"}]
    /\ room \in [sender: BOOLEAN, admin: BOOLEAN]
    /\ card \in [guest: Guests, inc: Incs, state: {"unsent", "sent", "committed"}]
    /\ hook \in BOOLEAN /\ turns \in Seq(Turns)
    /\ leeway \in [choices: 0 .. MaxChoices, upsets: 0 .. MaxUpsets]

NoSeat == [inc |-> 0, live |-> FALSE, start |-> 0, mode |-> "plain", rules |-> {},
           saved |-> 0, ruleStart |-> 0, epoch |-> 0]
NoPlan == [rule |-> 0, saved |-> 0, epoch |-> 0]
AnyGuest == CHOOSE b \in Guests : TRUE
Waiting(n) == [at |-> "idle", next |-> n, todo |-> {}, guest |-> AnyGuest, inc |-> 0,
               unseen |-> FALSE, rules |-> {}, plan |-> NoPlan]

AcceptanceInit ==
    /\ sent = <<>> /\ records = <<>> /\ marked = 0 /\ turns = <<>>
    /\ holder \in Readers
    /\ reader = [h \in Readers |-> Waiting(1)]
    /\ \E here \in (SUBSET Guests) \ {{}}, rules \in [Guests -> SUBSET Rules] :
          /\ seat = [b \in Guests |-> IF b \in here
                        THEN [NoSeat EXCEPT !.inc = 1, !.live = TRUE, !.mode = "watching",
                                       !.rules = rules[b], !.saved = 1]
                        ELSE NoSeat]
          /\ \E b \in here, state \in {"unsent", "sent", "committed"} :
                card = [guest |-> b, inc |-> 1, state |-> state]
    /\ shape = [b \in Guests |-> "active"]
    /\ room = [sender |-> TRUE, admin |-> TRUE]
    /\ hook = TRUE
    /\ leeway = [choices |-> MaxChoices, upsets |-> MaxUpsets]

Takes1(bound) == leeway[bound] > 0 /\ leeway' = [leeway EXCEPT ![bound] = @ - 1]
Chooses == Takes1("choices")
Upset == Takes1("upsets")

Seated(b, inc) == seat[b].live /\ seat[b].inc = inc
Participates(b) == seat[b].live /\ shape[b] = "active" /\ seat[b].mode # "silent"

(* Something may refuse what these messages ask of these bots.             *)
Spoil(posts, bots) ==
    [m \in DOMAIN sent |-> IF m \in posts THEN [sent[m] EXCEPT !.spoilt = @ \cup bots]
                           ELSE sent[m]]

-----------------------------------------------------------------------------
(* The conversation.  Its changes hold the conversation's lock, which the  *)
(* transaction that accepts a run shares.                                  *)

Standing(s) == IF s.live THEN [inc |-> s.inc, saved |-> s.saved, rules |-> s.rules]
               ELSE [inc |-> 0, saved |-> 0, rules |-> {}]

SendText ==
    /\ room.sender /\ Len(sent) < MaxSent
    /\ \E mentions \in SUBSET Guests, fits \in SUBSET Rules,
          cites \in {"nothing"} \cup (IF card.state = "unsent" THEN {} ELSE {card.state}) :
          sent' = Append(sent,
              [mentions |-> mentions, fits |-> fits, cites |-> cites,
               edited |-> FALSE, gone |-> FALSE,
               standing |-> [b \in Guests |-> Standing(seat[b])],
               spoilt |-> {b \in Guests : cites # "nothing" \/ ~Participates(b)}])
    /\ records' = Append(records, Len(sent'))
    /\ UNCHANGED <<holder, marked, reader, seat, shape, room, card, hook, turns, leeway>>

(* An edit, which changes the text, publishes no new request; a message    *)
(* that was recalled or hidden by its sender is no source any more.        *)
ChangeText ==
    /\ Chooses
    /\ \E m \in DOMAIN sent :
          /\ ~sent[m].gone
          /\ \E field \in {"edited", "gone"} :
                sent' = [Spoil({m}, Guests) EXCEPT ![m][field] = TRUE]
    /\ UNCHANGED <<records, holder, marked, reader, seat, shape, room, card, hook, turns>>

(* Mutant: a save keeps the watermark of the settings before it. *)
StampedFromBefore(s, mode, rules) ==
    [s EXCEPT !.mode = mode, !.rules = rules, !.saved = @ + 1,
              !.epoch = IF (mode = "silent") # (s.mode = "silent") THEN @ + 1 ELSE @]

(* StampSettings: every save is a new version, of all rules, which begins  *)
(* here.  The epoch moves when participation is enabled or disabled.       *)
Stamped(s, mode, rules) ==
    [s EXCEPT !.mode = mode, !.rules = rules, !.saved = @ + 1, !.ruleStart = Len(sent),
              !.epoch = IF (mode = "silent") # (s.mode = "silent") THEN @ + 1 ELSE @]

(* A disabled participant accepts by no rule, whichever are saved with it. *)
SaveSettings(b) ==
    /\ room.admin /\ seat[b].live /\ Chooses
    /\ \/ /\ seat' = [seat EXCEPT ![b] = Stamped(@, "silent", {})]
          /\ sent' = Spoil(DOMAIN sent, {b})
       \/ /\ \E rules \in SUBSET Rules :
                seat' = [seat EXCEPT ![b] = Stamped(@, "watching", rules)]
          /\ UNCHANGED sent
    /\ UNCHANGED <<records, holder, marked, reader, shape, room, card, hook, turns>>

RemoveGuest(b) ==
    /\ room.admin /\ seat[b].live /\ Chooses
    /\ seat' = [seat EXCEPT ![b].live = FALSE, ![b].epoch = @ + 1]
    /\ sent' = Spoil(DOMAIN sent, {b})
    /\ UNCHANGED <<records, holder, marked, reader, shape, room, card, hook, turns>>

(* A new binding sees and answers what comes after it.                     *)
NewSeat(s) == [NoSeat EXCEPT !.inc = s.inc + 1, !.live = TRUE, !.start = Len(sent),
                             !.epoch = s.epoch]

AddGuest(b) ==
    /\ room.admin /\ ~seat[b].live /\ shape[b] = "active" /\ Chooses
    /\ seat' = [seat EXCEPT ![b] = NewSeat(@)]
       \/ \E rules \in SUBSET Rules :
             seat' = [seat EXCEPT ![b] = Stamped(NewSeat(@), "watching", rules)]
    /\ UNCHANGED <<sent, records, holder, marked, reader, shape, room, card, hook, turns>>

(* The owner of the bot disables, enables or deletes it.                   *)
ReshapeBot(b) ==
    /\ shape[b] # "deleted" /\ Chooses
    /\ \E status \in {"active", "disabled", "deleted"} \ {shape[b]} :
          shape' = [shape EXCEPT ![b] = status]
    /\ seat' = [seat EXCEPT ![b].epoch = @ + 1]
    /\ sent' = Spoil(DOMAIN sent, {b})
    /\ UNCHANGED <<records, holder, marked, reader, room, card, hook, turns>>

LeaveRoom ==
    /\ Chooses
    /\ \E who \in {"sender", "admin"} :
          /\ room[who]
          /\ room' = [room EXCEPT ![who] = FALSE]
          /\ sent' = IF who = "sender" THEN Spoil(DOMAIN sent, Guests) ELSE sent
    /\ UNCHANGED <<records, holder, marked, reader, seat, shape, card, hook, turns>>

(* The publisher sends a result as a message, and commits it to the run.   *)
PublishCard ==
    /\ Chooses
    /\ \/ /\ card.state = "unsent" /\ Seated(card.guest, card.inc)
          /\ card' = [card EXCEPT !.state = "sent"]
       \/ card.state = "sent" /\ card' = [card EXCEPT !.state = "committed"]
    /\ UNCHANGED <<sent, records, holder, marked, reader, seat, shape, room, hook, turns>>

-----------------------------------------------------------------------------
(* Handle *)

Current(h) == records[reader[h].next]
Goes(h, r) ==
    /\ reader' = [reader EXCEPT ![h] = r]
    /\ UNCHANGED <<sent, records, holder, seat, shape, room, card, hook>>
GoesTo(h, place) == Goes(h, [reader[h] EXCEPT !.at = place])
BeginAgain(h) == Goes(h, Waiting(reader[h].next))

Bound == {b \in Guests : seat[b].live}

TakeRecord(h) ==
    /\ reader[h].at = "idle" /\ holder = h /\ reader[h].next <= Len(records)
    /\ Goes(h, [Waiting(reader[h].next) EXCEPT !.at = "choose",
           !.todo = {[guest |-> b, inc |-> seat[b].inc, start |-> seat[b].start] : b \in Bound}])
    /\ UNCHANGED <<marked, turns, leeway>>

Unconcerned(h, t) == Current(h) <= t.start \/ shape[t.guest] # "active"

Pass(h) ==
    /\ reader[h].at = "choose"
    /\ \E t \in reader[h].todo :
          Unconcerned(h, t) /\ Goes(h, [reader[h] EXCEPT !.todo = @ \ {t}])
    /\ UNCHANGED <<marked, turns, leeway>>

(* The activity is that of a present member's message as it was sent.      *)
Genuine(m) == ~sent[m].edited /\ ~sent[m].gone /\ room.sender
Follows(b, m) == seat[b].mode = "watching" /\ m > seat[b].ruleStart

(* ObserveActivity; only a failure of the transport is kept, as unseen.    *)
Observe(h) ==
    /\ reader[h].at = "choose"
    /\ \E t \in reader[h].todo :
          /\ ~Unconcerned(h, t)
          /\ Goes(h, [reader[h] EXCEPT !.at = "answer", !.todo = @ \ {t},
                 !.guest = t.guest, !.inc = t.inc,
                 !.unseen = /\ t.guest \in Hooked /\ ~hook
                            /\ Seated(t.guest, t.inc) /\ Follows(t.guest, Current(h))
                            /\ Genuine(Current(h))])
    /\ UNCHANGED <<marked, turns, leeway>>

(* A published result takes no input: its run has ended.                   *)
AnswersCard(h) ==
    /\ sent[Current(h)].cites # "nothing"
    /\ card.state = "committed" /\ card.guest = reader[h].guest /\ card.inc = reader[h].inc

Mentioned(h) == reader[h].guest \in sent[Current(h)].mentions

ReplyInput(h) ==
    /\ reader[h].at = "answer"
    /\ \/ AnswersCard(h) /\ GoesTo(h, "end")
       \/ ~AnswersCard(h) /\ Mentioned(h) /\ GoesTo(h, "accept")
       \/ ~AnswersCard(h) /\ ~Mentioned(h) /\ GoesTo(h, "trigger")
    /\ UNCHANGED <<marked, turns, leeway>>

(* The runs whose submission key is that of this turn: for a rule, the key *)
(* names the rule and its version.                                         *)
Prior(t) ==
    {i \in DOMAIN turns : /\ turns[i].post = t.post /\ turns[i].guest = t.guest
                          /\ turns[i].inc = t.inc /\ turns[i].rule = t.rule
                          /\ t.rule # 0 => turns[i].saved = t.saved}

Turn(h, rule, saved) == [post |-> Current(h), guest |-> reader[h].guest,
                         inc |-> reader[h].inc, rule |-> rule, saved |-> saved]

Planned(h, rule, saved) ==
    Goes(h, [reader[h] EXCEPT !.at = "commit",
        !.plan = [rule |-> rule, saved |-> saved, epoch |-> seat[reader[h].guest].epoch]])

(* A run was accepted or refused: on to the rules that are left.           *)
OnToNextRule(h, rule) ==
    LET left == reader[h].rules \ {rule}
    IN  Goes(h, [reader[h] EXCEPT !.at = IF left = {} THEN "end" ELSE "rule",
                                  !.rules = left, !.plan.rule = 0, !.plan.epoch = 0])

(* Accept up to its transaction, for a message that mentions the bot.  The *)
(* source must be the text of the record; a cited message of a bot must be *)
(* the committed result of a run, and other checks on it may refuse.  A    *)
(* binding that is not found at all is an error that begins the round      *)
(* again.                                                                  *)
AcceptMention(h) ==
    LET b == reader[h].guest
        m == Current(h)
        missing == ~seat[b].live \/ shape[b] = "deleted"
        allowed == /\ room.sender /\ ~missing
                   /\ Seated(b, reader[h].inc) /\ Participates(b)
                   /\ Prior(Turn(h, 0, seat[b].saved)) = {}
                   /\ Genuine(m)
                   /\ sent[m].cites # "nothing" => card.state = "committed"
    IN  /\ reader[h].at = "accept"
        /\ \/ room.sender /\ missing /\ BeginAgain(h)
           \/ allowed /\ Planned(h, 0, seat[b].saved)
           \/ ~allowed /\ ~(room.sender /\ missing) /\ GoesTo(h, "end")
           \/ allowed /\ sent[m].cites # "nothing" /\ GoesTo(h, "end")
        /\ UNCHANGED <<marked, turns, leeway>>

(* TriggerRules reads the binding and its rules once.                      *)
TriggerRules(h) ==
    LET b == reader[h].guest
        m == Current(h)
        matching == IF /\ Seated(b, reader[h].inc) /\ shape[b] = "active"
                       /\ m > seat[b].ruleStart
                    THEN seat[b].rules \cap sent[m].fits ELSE {}
    IN  /\ reader[h].at = "trigger"
        /\ IF matching = {} THEN GoesTo(h, "end")
           ELSE Goes(h, [reader[h] EXCEPT !.at = "rule", !.rules = matching,
                                          !.plan.saved = seat[b].saved])
        /\ UNCHANGED <<marked, turns, leeway>>

(* Accept up to its transaction, for one of the rules; which is first does *)
(* not matter.  A refusal leaves it to the next rule; a binding that is    *)
(* not found is an error, which ends the loop and is discarded.            *)
AcceptRule(h, r) ==
    LET b == reader[h].guest
        m == Current(h)
        missing == ~seat[b].live \/ shape[b] = "deleted"
        allowed == /\ room.admin /\ ~missing
                   /\ Seated(b, reader[h].inc) /\ Participates(b)
                   /\ Prior(Turn(h, r, reader[h].plan.saved)) = {}
                   /\ seat[b].saved = reader[h].plan.saved
                   /\ Follows(b, m) /\ Genuine(m)
    IN  /\ reader[h].at = "rule" /\ r \in reader[h].rules
        /\ \/ room.admin /\ missing /\ GoesTo(h, "end")
           \/ allowed /\ Planned(h, r, reader[h].plan.saved)
           \/ ~allowed /\ ~(room.admin /\ missing) /\ OnToNextRule(h, r)
        /\ UNCHANGED <<marked, turns, leeway>>

(* RunRepo.Accept, one transaction: the run that exists already, what the  *)
(* authority has become since it was read, the rule, the source.           *)
StillHolds(h) ==
    LET b == reader[h].guest
        p == reader[h].plan
    IN  /\ Seated(b, reader[h].inc) /\ Participates(b) /\ seat[b].epoch = p.epoch
        /\ p.rule = 0 => room.sender
        /\ p.rule # 0 => /\ room.admin /\ seat[b].saved = p.saved
                         /\ Follows(b, Current(h))

CommitRun(h) ==
    LET m == Current(h)
        t == Turn(h, reader[h].plan.rule, reader[h].plan.saved)
        new == Prior(t) = {} /\ StillHolds(h) /\ ~sent[m].gone
    IN  /\ reader[h].at = "commit"
        /\ \/ new /\ sent[m].edited /\ BeginAgain(h) /\ UNCHANGED <<turns, leeway>>
           \/ /\ new /\ ~sent[m].edited /\ turns' = Append(turns, t)
              /\ \/ OnToNextRule(h, reader[h].plan.rule) /\ UNCHANGED leeway
                 \/ BeginAgain(h) /\ Upset
           \/ ~new /\ OnToNextRule(h, reader[h].plan.rule) /\ UNCHANGED <<turns, leeway>>
        /\ UNCHANGED marked

(* The round fails after all when the executor could not be told.          *)
FinishGuest(h) ==
    /\ reader[h].at = "end"
    /\ IF reader[h].unseen THEN BeginAgain(h)
       ELSE Goes(h, [Waiting(reader[h].next) EXCEPT !.at = "choose", !.todo = reader[h].todo])
    /\ UNCHANGED <<marked, turns, leeway>>

(* MarkMessage; what is marked is committed sooner or later, unless the    *)
(* partition has changed hands.                                            *)
MarkRecord(h) ==
    /\ reader[h].at = "choose" /\ reader[h].todo = {}
    /\ Goes(h, Waiting(reader[h].next + 1))
    /\ marked' \in IF holder = h THEN {marked, reader[h].next} ELSE {marked}
    /\ UNCHANGED <<turns, leeway>>

-----------------------------------------------------------------------------
(* What goes wrong *)

(* Mutant: a call that fails is taken for a refusal. *)
CallRefuses(h) ==
    /\ reader[h].at \in {"choose", "answer", "accept", "trigger", "rule", "commit"}
    /\ GoesTo(h, "end") /\ Upset
    /\ UNCHANGED <<marked, turns>>

(* A call fails for another reason than a refusal.                         *)
CallFails(h) ==
    /\ reader[h].at \in {"choose", "answer", "accept", "trigger", "rule", "commit"}
    /\ BeginAgain(h) /\ Upset
    /\ UNCHANGED <<marked, turns>>

ProcessDies(h) ==
    /\ Upset
    /\ Goes(h, Waiting(marked + 1))
    /\ UNCHANGED <<marked, turns>>

(* The former owner may go on with its record.                             *)
Rebalance(h) ==
    /\ holder # h /\ reader[h].at = "idle" /\ Upset
    /\ holder' = h
    /\ reader' = [reader EXCEPT ![h] = Waiting(marked + 1)]
    /\ UNCHANGED <<sent, records, marked, seat, shape, room, card, hook, turns>>

(* The dispatcher sends a change again after newer ones.                   *)
RecordComesAgain ==
    /\ Upset
    /\ \E m \in DOMAIN sent : records' = Append(records, m)
    /\ UNCHANGED <<sent, holder, marked, reader, seat, shape, room, card, hook, turns>>

HookChanges ==
    /\ hook' = ~hook
    /\ IF hook THEN Upset ELSE UNCHANGED leeway
    /\ UNCHANGED <<sent, records, holder, marked, reader, seat, shape, room, card, turns>>

-----------------------------------------------------------------------------

AcceptanceNext ==
    \/ SendText \/ ChangeText \/ LeaveRoom \/ PublishCard
    \/ \E b \in Guests : SaveSettings(b) \/ RemoveGuest(b) \/ AddGuest(b) \/ ReshapeBot(b)
    \/ \E h \in Readers :
          \/ TakeRecord(h) \/ Pass(h) \/ Observe(h) \/ ReplyInput(h)
          \/ AcceptMention(h) \/ TriggerRules(h) \/ \E r \in Rules : AcceptRule(h, r)
          \/ CommitRun(h)
          \/ FinishGuest(h) \/ MarkRecord(h)
          \/ CallFails(h) \/ ProcessDies(h) \/ Rebalance(h)
    \/ RecordComesAgain \/ HookChanges

AcceptanceSpec == AcceptanceInit /\ [][AcceptanceNext]_acceptanceVars

-----------------------------------------------------------------------------
(* Properties *)

(* A message that mentions a bot has at most one turn with it, and another *)
(* at most one for each of the bot's rules, whatever is retried, comes     *)
(* again, or is handled by two owners while rules are saved anew           *)
(* (StampSettings: replay cannot acquire a newly granted authorization).   *)
TurnComesOnce ==
    \A i, j \in DOMAIN turns :
        /\ turns[i].post = turns[j].post /\ turns[i].guest = turns[j].guest
        /\ turns[i].rule \in {0, turns[j].rule}
        => i = j

(* What a turn rests on stood when its message was sent: the binding, and  *)
(* the rule in its version.  A reply to a committed result begins none;    *)
(* one to a result that is not committed yet is any message.               *)
TurnWasGranted ==
    \A i \in DOMAIN turns :
        LET t == turns[i]
            m == sent[t.post]
        IN  /\ m.standing[t.guest].inc = t.inc
            /\ t.rule # 0 => /\ m.standing[t.guest].saved = t.saved
                             /\ t.rule \in m.standing[t.guest].rules \cap m.fits
            /\ ~(m.cites = "committed" /\ card.guest = t.guest /\ card.inc = t.inc)

TurnsAreDue == TurnComesOnce /\ TurnWasGranted

(* A bot that is mentioned and against which nothing has happened since    *)
(* has its turn by the time the record counts as handled, whichever calls  *)
(* failed, for it or for the other bots, and whoever took over.            *)
MentionsAreAnswered ==
    \A n \in 1 .. marked :
        LET m == records[n]
        IN  \A b \in sent[m].mentions \ sent[m].spoilt :
                \E i \in DOMAIN turns : turns[i].post = m /\ turns[i].guest = b

(* So has every rule that matches, of a bot that is not mentioned, as long *)
(* as it is not saved anew and who saved it is a member: the loop over the *)
(* rules may have failed in the middle, or the webhook after it.           *)
RulesAreAnswered ==
    \A n \in 1 .. marked :
        LET m == records[n]
        IN  \A b \in Guests \ (sent[m].mentions \cup sent[m].spoilt) :
              seat[b].saved = sent[m].standing[b].saved /\ room.admin =>
                \A r \in sent[m].standing[b].rules \cap sent[m].fits :
                    \E i \in DOMAIN turns :
                        turns[i].post = m /\ turns[i].guest = b /\ turns[i].rule = r

TurnsAreTaken == MentionsAreAnswered /\ RulesAreAnswered

=============================================================================
