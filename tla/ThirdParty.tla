----------------------------- MODULE ThirdParty -----------------------------
(***************************************************************************)
(* One run whose work is done by an executor of a third party.  The        *)
(* platform tells the executor what to do by deliveries, which are queued  *)
(* in the outbox and sent at least once, and it accepts the executor's     *)
(* updates, which may be lost, late or sent twice.  A run has generations: *)
(* resuming and taking over begin a new one, for a new piece of work of    *)
(* the executor.                                                           *)
(*                                                                         *)
(* A transaction is one step: it compares the version of the row that was  *)
(* authorized before, so what happened in between makes it begin again.    *)
(* Delivery reads, sends and completes its item apart.  The model ends     *)
(* where the run ends or its result is accepted.                           *)
(***************************************************************************)
EXTENDS Naturals, FiniteSets

CONSTANTS MaxGenerations,  \* bound: generations of the run
          MaxInputs,       \* bound: versions of its input
          MaxOrders,       \* bound: what users ask for
          Couriers,        \* bound: deliveries under way at the same time
          MaxReports,      \* bound: updates the executor sends
          MaxMishaps       \* bound: controllers that leave, authority revoked,
                           \* leases that run out, deliveries that are cut off

ASSUME ThirdPartyAssumption ==
    /\ MaxGenerations \in Nat \ {0} /\ MaxInputs \in Nat \ {0}
    /\ {Couriers, MaxOrders, MaxReports, MaxMishaps} \subseteq Nat

VARIABLES job,        \* the row of bot.runs
          authority,  \* what the tables say the run may do
          errands,    \* the deliver items of the outbox that are not completed
          courier,    \* items whose delivery is under way, with what was decided
          contractor, \* the executor's work on each generation
          post,       \* the executor's update that is under way
          handedOver, \* history: the generations that a takeover ended
          margin      \* what is left of the bounds

thirdPartyVars ==
    <<job, authority, errands, courier, contractor, post, handedOver, margin>>

-----------------------------------------------------------------------------
(* Values *)

Pieces == 1 .. MaxGenerations
Inputs == 1 .. MaxInputs
Orders == {"start", "input", "stop", "resume"}

Jobs == [status: {"accepted", "running", "waiting_input", "waiting_authorization",
                  "stopping", "stopped", "failed"},
         executor: {"pending", "accepted", "stop_rejected", "lost", "stopped", "completed"},
         stop: {"none", "requested", "unknown", "rejected", "confirmed"},
         lease: {"none", "live", "expired"},
         generation: Pieces, input: Inputs, sequence: 0 .. MaxReports,
         control: Orders, acknowledged: BOOLEAN, open: BOOLEAN,
         revoked: BOOLEAN, supportsStop: BOOLEAN, queued: Nat]

(* "no controller": the controller has left the conversation. *)
Authorities == {"held", "no controller", "withdrawn"}

Errands == [number: Nat, generation: Pieces, input: Inputs, order: Orders]
Decided == [errand: Errands, send: BOOLEAN]

(* knows: the inputs it was given; cites: the version it was last told;    *)
(* order: its delivery.  Older deliveries tell it nothing; work that has    *)
(* stopped does not begin again.                                           *)
Contractors == [state: {"none", "working", "stopped"}, knows: 0 .. MaxInputs,
                cites: 0 .. MaxInputs, order: Orders, askedToStop: BOOLEAN]

Updates == [generation: Pieces, input: Inputs, sequence: 0 .. MaxReports + 1,
            what: {"ack", "claim", "waiting_input", "failed", "completed",
                   "stopped", "stop_rejected"},
            order: Orders]

ThirdPartyTypeOK ==
    /\ job \in Jobs /\ authority \in Authorities
    /\ errands \subseteq Errands /\ courier \subseteq Decided
    /\ contractor \in [Pieces -> Contractors]
    /\ post \subseteq Updates /\ Cardinality(post) <= 1
    /\ handedOver \subseteq Pieces
    /\ margin \in [orders: 0 .. MaxOrders, reports: 0 .. MaxReports, mishaps: 0 .. MaxMishaps]

Over == job.status \in {"stopped", "failed"} \/ job.executor = "completed"

(* QueueRunDelivery for the row j; queued numbers the items. *)
Errand(j) == [number |-> j.queued, generation |-> j.generation, input |-> j.input,
              order |-> j.control]
Numbered(j) == [j EXCEPT !.queued = @ + 1]

ThirdPartyInit ==
    /\ \E supportsStop \in BOOLEAN :
          job = [status |-> "accepted", executor |-> "pending", stop |-> "none",
                 lease |-> "none", generation |-> 1, input |-> 1, sequence |-> 0,
                 control |-> "start", acknowledged |-> FALSE, open |-> TRUE,
                 revoked |-> FALSE, supportsStop |-> supportsStop, queued |-> 1]
    /\ authority = "held"
    /\ errands = {Errand(job)} /\ courier = {}
    /\ contractor = [g \in Pieces |-> [state |-> "none", knows |-> 0, cites |-> 0,
                                       order |-> "start", askedToStop |-> FALSE]]
    /\ post = {} /\ handedOver = {}
    /\ margin = [orders |-> MaxOrders, reports |-> MaxReports, mishaps |-> MaxMishaps]

Uses(bound) == margin[bound] > 0 /\ margin' = [margin EXCEPT ![bound] = @ - 1]

-----------------------------------------------------------------------------
(* requestRunStop: the row it leaves, and whether it queues a delivery.    *)

AsksAnew ==
    /\ job.stop \notin {"requested", "unknown"}
    /\ ~(job.executor = "stopped" /\ job.stop = "confirmed")

StopAsked(byUser) ==
    CASE AsksAnew -> Numbered([job EXCEPT !.status = "stopping", !.stop = "requested",
                                  !.open = FALSE, !.control = "stop", !.acknowledged = FALSE])
      [] job.stop \in {"requested", "unknown"} ->
            IF byUser THEN job ELSE [job EXCEPT !.status = "stopping"]
      [] OTHER -> [job EXCEPT !.status = "stopped"]

(* The items after it, when those of "done" are completed. *)
AsksToStop(byUser, done) ==
    /\ job' = StopAsked(byUser)
    /\ errands' = (errands \ done) \cup (IF AsksAnew THEN {Errand(job')} ELSE {})

-----------------------------------------------------------------------------
(* Control *)

Instruct(j) == job' = Numbered(j) /\ errands' = errands \cup {Errand(job')}

GiveInput ==
    /\ Uses("orders") /\ authority = "held"
    /\ job.status \in {"accepted", "running", "waiting_input"} /\ job.executor # "lost"
    /\ job.input < MaxInputs
    /\ Instruct([job EXCEPT !.input = @ + 1, !.control = "input", !.acknowledged = FALSE,
                            !.status = IF @ = "waiting_input" THEN "running" ELSE @])
    /\ UNCHANGED <<authority, courier, contractor, post, handedOver>>

StopJob ==
    /\ Uses("orders") /\ authority # "withdrawn"
    /\ IF job.supportsStop
         THEN AsksToStop(TRUE, {})
         ELSE job' = [job EXCEPT !.stop = "rejected"] /\ UNCHANGED errands
    /\ UNCHANGED <<authority, courier, contractor, post, handedOver>>

(* A new generation, which nobody has claimed. *)
Renewed(j) == [j EXCEPT !.generation = @ + 1, !.sequence = 0, !.executor = "pending",
                        !.status = "accepted", !.lease = "none", !.open = TRUE,
                        !.control = "resume", !.acknowledged = FALSE]

ResumeJob ==
    /\ Uses("orders") /\ authority = "held"
    /\ \/ job.status = "waiting_input"
       \/ job.executor = "lost" /\ job.status \in {"accepted", "running"}
    /\ job.generation < MaxGenerations
    /\ Instruct(Renewed(job))
    /\ UNCHANGED <<authority, courier, contractor, post, handedOver>>

(* Somebody else becomes the controller; a suspended run goes on with a    *)
(* new generation, once its executor has stopped.                          *)
(* Mutant: it is enough that the executor was asked to stop. *)
SuspendedOnRequest == job.stop # "none"
Suspended == job.stop = "confirmed"

TakeOverJob ==
    /\ Uses("orders") /\ authority # "withdrawn" /\ job.status # "stopping"
    /\ \/ /\ job.status # "waiting_authorization"
          /\ UNCHANGED <<job, errands, handedOver>>
       \/ /\ job.status = "waiting_authorization" /\ Suspended
          /\ job.generation < MaxGenerations
          /\ Instruct([Renewed(job) EXCEPT !.stop = "none"])
          /\ handedOver' = handedOver \cup {job.generation}
    /\ authority' = "held"
    /\ UNCHANGED <<courier, contractor, post>>

-----------------------------------------------------------------------------
(* Time and authority: reconcile *)

LoseAuthority ==
    /\ Uses("mishaps")
    /\ \E lost \in Authorities \ {"held"} :
          authority # "withdrawn" /\ authority # lost /\ authority' = lost
    /\ UNCHANGED <<job, errands, courier, contractor, post, handedOver>>

LeaseRunsOut ==
    /\ Uses("mishaps") /\ job.lease = "live"
    /\ job' = [job EXCEPT !.lease = "expired"]
    /\ UNCHANGED <<authority, errands, courier, contractor, post, handedOver>>

NoticeLost ==
    /\ job.executor \in {"accepted", "stop_rejected"} /\ job.lease # "live"
    /\ job' = [job EXCEPT !.executor = "lost", !.open = FALSE,
                  !.stop = IF job.status = "stopping" /\ @ = "requested" THEN "unknown" ELSE @]
    /\ UNCHANGED <<authority, errands, courier, contractor, post, handedOver, margin>>

NoticeDeparture ==
    /\ authority = "no controller"
    /\ job.status \notin {"waiting_authorization", "stopping"}
    /\ Instruct([job EXCEPT !.status = "waiting_authorization", !.open = FALSE,
                            !.stop = "requested", !.control = "stop"])
    /\ UNCHANGED <<authority, courier, contractor, post, handedOver, margin>>

NoticeRevocation ==
    /\ authority = "withdrawn" /\ ~job.revoked
    /\ job' = [StopAsked(FALSE) EXCEPT !.revoked = TRUE]
    /\ errands' = errands \cup (IF AsksAnew THEN {Errand(job')} ELSE {})
    /\ UNCHANGED <<authority, courier, contractor, post, handedOver, margin>>

(* Five seconds without an answer. *)
StopUnanswered ==
    /\ job.stop = "requested"
    /\ job' = [job EXCEPT !.stop = "unknown"]
    /\ UNCHANGED <<authority, errands, courier, contractor, post, handedOver, margin>>

-----------------------------------------------------------------------------
(* deliverRun *)

IsCurrent(e) ==
    e.generation = job.generation /\ e.input = job.input /\ e.order = job.control

(* Mutant: an instruction is dropped once its generation was claimed. *)
StillToSendUnclaimed(e) ==
    /\ IsCurrent(e) /\ job.executor = "pending" /\ job.open

StillToSend(e) ==
    /\ IsCurrent(e)
    /\ CASE e.order = "stop" -> job.stop \notin {"confirmed", "rejected"}
         [] e.order = "input" -> ~job.acknowledged
         [] OTHER -> job.executor = "pending"
    /\ e.order # "stop" =>
          /\ job.status \notin {"stopping", "waiting_input", "waiting_authorization"}
          /\ job.open

LookAtErrand(e) ==
    /\ e \in errands /\ \A c \in courier : c.errand # e
    /\ Cardinality(courier) < Couriers
    /\ courier' = courier \cup {[errand |-> e, send |-> StillToSend(e)]}
    /\ UNCHANGED <<job, authority, errands, contractor, post, handedOver, margin>>

DropErrand(c) ==
    /\ c \in courier /\ ~c.send
    /\ courier' = courier \ {c} /\ errands' = errands \ {c.errand}
    /\ UNCHANGED <<job, authority, contractor, post, handedOver, margin>>

(* The bot-service dies, or the send fails: the item is tried again.       *)
CutOff(c) ==
    /\ c \in courier /\ Uses("mishaps")
    /\ courier' = courier \ {c}
    /\ UNCHANGED <<job, authority, errands, contractor, post, handedOver>>

(* authorize refuses what the check before it let pass. *)
RefuseErrand(c) ==
    /\ c \in courier /\ c.send /\ c.errand.order # "stop" /\ authority # "held"
    /\ courier' = courier \ {c}
    /\ IF c.errand.generation # job.generation
         THEN UNCHANGED <<job, errands>>
         ELSE AsksToStop(FALSE, {c.errand})
    /\ UNCHANGED <<authority, contractor, post, handedOver, margin>>

(* What is sent holds all inputs up to its version, or only the stop.      *)
Delivered(work, e) ==
    IF e.input < work.cites THEN work
    ELSE [work EXCEPT !.cites = e.input, !.order = e.order,
                      !.askedToStop = @ \/ e.order = "stop",
                      !.knows = IF e.order = "stop" THEN @ ELSE e.input,
                      !.state = IF e.order # "stop" /\ @ = "none" THEN "working" ELSE @]

(* The item stays until it is no longer needed; a webhook's is completed   *)
(* when it was superseded meanwhile.                                       *)
SendErrand(c) ==
    LET e == c.errand IN
    /\ c \in courier /\ c.send /\ (e.order # "stop" => authority = "held")
    /\ courier' = courier \ {c}
    /\ contractor' = [contractor EXCEPT ![e.generation] = Delivered(@, e)]
    /\ \/ UNCHANGED errands
       \/ /\ e.order # "stop"
          /\ e.generation # job.generation \/ e.input # job.input
          /\ errands' = errands \ {e}
    /\ UNCHANGED <<job, authority, post, handedOver, margin>>

-----------------------------------------------------------------------------
(* The executor, as its deliveries and updates use it *)

Report(g) ==
    /\ post = {} /\ contractor[g].cites # 0 /\ contractor[g].state # "stopped"
    /\ Uses("reports")
    /\ \E what \in {"ack", "claim", "waiting_input", "failed", "completed",
                    "stopped", "stop_rejected"} :
          /\ what \in {"stopped", "stop_rejected"} => contractor[g].askedToStop
          /\ what \notin {"ack", "stopped", "stop_rejected"} => contractor[g].state = "working"
          /\ post' = {[generation |-> g, input |-> contractor[g].cites, what |-> what,
                       order |-> contractor[g].order,
                       sequence |-> IF what \in {"ack", "claim"} THEN 0
                                    ELSE IF g = job.generation THEN job.sequence + 1 ELSE 1]}
          /\ contractor' = [contractor EXCEPT ![g].state = IF what = "stopped" THEN what ELSE @]
    /\ UNCHANGED <<job, authority, errands, courier, handedOver>>

LoseReport ==
    /\ post # {} /\ post' = {}
    /\ UNCHANGED <<job, authority, errands, courier, contractor, handedOver, margin>>

-----------------------------------------------------------------------------
(* ExecutorUpdate.  An update that comes again with its key is answered    *)
(* from its receipt, and one that is refused changes nothing: neither is a *)
(* step.                                                                   *)

Fits(u) == u.generation = job.generation /\ u.input = job.input
Leased == job.lease = "live"
Authorized(u) ==
    /\ authority = "held" /\ ~job.revoked
    /\ Leased \/ (u.what \in {"ack", "claim"} /\ job.executor = "pending" /\ job.lease = "none")

Accepts(u, j) ==
    /\ u \in post /\ Fits(u)
    /\ job' = j
    /\ post' = post \ {u}
    /\ UNCHANGED <<authority, errands, courier, contractor, handedOver, margin>>

AcceptAck(u) ==
    /\ u.what = "ack" /\ Authorized(u) /\ u.order = job.control
    /\ Accepts(u, [job EXCEPT !.acknowledged = TRUE])

AcceptClaim(u) ==
    /\ u.what = "claim" /\ Authorized(u)
    /\ job.executor = "pending" /\ job.status \notin {"stopping", "waiting_authorization"}
    /\ Accepts(u, [job EXCEPT !.executor = "accepted", !.status = "running", !.lease = "live"])

AcceptProgress(u) ==
    /\ u.what \in {"waiting_input", "failed", "completed"} /\ Authorized(u)
    /\ job.executor \in {"accepted", "stop_rejected"} /\ u.sequence = job.sequence + 1
    /\ job.status # "waiting_authorization"
    /\ u.what = "waiting_input" => job.status # "stopping"
    /\ u.what = "completed" => job.status # "waiting_input"
    /\ Accepts(u, [job EXCEPT !.sequence = u.sequence,
                      !.status = IF u.what = "completed" THEN "running" ELSE u.what,
                      !.executor = IF u.what = "completed" THEN u.what ELSE @])

AcceptStopped(u) ==
    /\ u.what = "stopped" /\ u.sequence = job.sequence + 1
    /\ job.stop \in {"requested", "unknown", "rejected"}
    /\ Accepts(u, [job EXCEPT !.sequence = u.sequence, !.open = FALSE, !.stop = "confirmed",
                      !.executor = "stopped",
                      !.status = IF @ = "waiting_authorization" THEN @ ELSE "stopped"])

AcceptRejection(u) ==
    /\ u.what = "stop_rejected" /\ u.sequence = job.sequence + 1
    /\ job.stop \in {"requested", "unknown"}
    /\ Accepts(u, [job EXCEPT !.sequence = u.sequence, !.open = FALSE, !.stop = "rejected",
                      !.executor = "stop_rejected",
                      !.status = IF job.revoked \/ @ = "waiting_authorization" THEN @ ELSE "running"])

-----------------------------------------------------------------------------

ThirdPartyNext ==
    /\ ~Over
    /\ \/ GiveInput \/ StopJob \/ ResumeJob \/ TakeOverJob
       \/ LoseAuthority \/ LeaseRunsOut \/ NoticeLost \/ NoticeDeparture
       \/ NoticeRevocation \/ StopUnanswered
       \/ \E e \in errands : LookAtErrand(e)
       \/ \E c \in courier : DropErrand(c) \/ CutOff(c) \/ RefuseErrand(c) \/ SendErrand(c)
       \/ \E g \in Pieces : Report(g)
       \/ LoseReport
       \/ \E u \in post : \/ AcceptAck(u) \/ AcceptClaim(u) \/ AcceptProgress(u)
                          \/ AcceptStopped(u) \/ AcceptRejection(u)

ThirdPartySpec == ThirdPartyInit /\ [][ThirdPartyNext]_thirdPartyVars

-----------------------------------------------------------------------------
(* Properties *)

(* What the platform has accepted for its executor is not forgotten: while *)
(* a stop is asked for, its instruction is queued, and while the run is    *)
(* open, either the executor was given every input or the instruction that *)
(* gives it the newest one is queued.                                      *)
ExecutorIsTold == ~Over =>
    /\ job.stop \in {"requested", "unknown"} =>
          \E e \in errands : IsCurrent(e) /\ e.order = "stop"
    /\ job.open /\ job.executor \in {"pending", "accepted"} =>
          \/ contractor[job.generation].knows = job.input
          \/ \E e \in errands : IsCurrent(e)

(* A run is given to another controller only when the work that the former *)
(* one started has really stopped, however late the updates arrive.        *)
HandoverAfterStop == \A g \in handedOver : contractor[g].state # "working"

(* The executor is told, and it has stopped where others take over.        *)
ExecutorHolds == ExecutorIsTold /\ HandoverAfterStop
=============================================================================
