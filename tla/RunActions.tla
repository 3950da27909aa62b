------------------------------ MODULE RunActions ------------------------------
(***************************************************************************)
(* The external actions of one Run of a built-in bot: the tool calls of    *)
(* one model answer, the durable row of each, the human decisions and      *)
(* standing grants that permit a write, the claim, the call itself and the *)
(* receipt of its outcome, and the recovery of actions whose executor was  *)
(* lost.                                                                   *)
(*                                                                         *)
(* The run is reduced to what actions read and write; RunLifecycle has the *)
(* rest of it.  A run that has no action in flight and is neither parked   *)
(* nor over is "running", whatever it does.  A transaction is one action;  *)
(* the external call is a step between two transactions.                   *)
(***************************************************************************)
EXTENDS Naturals, Sequences, FiniteSets

CONSTANTS ExecutorCount,      \* goroutines of the "execute" pool
          Calls,              \* how many tool calls the model's answer holds
          MaxActionCommands,  \* bound: user commands in a behaviour
          MaxTroubles         \* bound: crashes, stalls, lost receipts, changes of
                              \* owner or membership, deadlines that pass

ASSUME ActionsAssumption ==
    /\ ExecutorCount \in Nat \ {0} /\ Calls \in Nat \ {0}
    /\ MaxActionCommands \in Nat /\ MaxTroubles \in Nat

VARIABLES work,      \* the row of bot.runs
          items,     \* the execute rows of bot.run_outbox
          risks,     \* the risk class of the tool of each call
          action,    \* the rows of bot.run_actions, one per tool call
          paired,    \* the persisted result of each call
          executor,  \* the worker goroutines
          owner,     \* the owner of the tool's server; owner 0 is the requester
          grant,     \* the standing permission (bot.action_grants) of owner 0
          effects,   \* how often each call took effect outside
          budget     \* what is left of the bounds

actionVars == <<work, items, risks, action, paired, executor, owner, grant, effects, budget>>

-----------------------------------------------------------------------------
(* Values *)

Executors == 1 .. ExecutorCount

Risks == {"read", "write"}
ActionStatuses == {"absent", "pending", "approved", "denied", "revoked", "expired",
                   "executing", "succeeded", "failed", "unknown"}

(* controller counts the takeovers; member says that the controller is      *)
(* still the member of the conversation it was.                             *)
Works == [status: {"running", "waiting_authorization", "stopping", "stopped",
                   "failed", "succeeded"},
          stage: {"", "pending_action", "action_outcome_unknown", "awaiting_takeover"},
          generation: Nat, input: Nat, controller: Nat, member: BOOLEAN,
          holding: {"pending", "accepted", "lost"}]

(* approver 0 .. is an owner; late says that ExpiresAt has passed; refused  *)
(* remembers that an owner's denial or revocation was accepted.             *)
Rows == [status: ActionStatuses, generation: Nat, input: Nat, controller: Nat,
         approver: Nat, granted: BOOLEAN, late: BOOLEAN, refused: BOOLEAN]
Absent == [status |-> "absent", generation |-> 0, input |-> 0, controller |-> 0,
           approver |-> 0, granted |-> FALSE, late |-> FALSE, refused |-> FALSE]

ActionItems == [holder: Executors \cup {0}, generation: Nat,
                live: BOOLEAN, done: BOOLEAN]
NewWake == [holder |-> 0, generation |-> 0, live |-> FALSE, done |-> FALSE]

Pcs == {"idle", "enter", "restart", "agent", "prepare", "claim", "check", "call",
        "receipt", "pair", "post", "confirm", "fail", "finish"}
(* call is the tool call it performs, input the version it read before;     *)
(* failed says that the call produced no confirmed success.                 *)
Threads == [pc: Pcs, item: Nat, generation: Nat, call: 0 .. Calls, input: Nat,
            failed: BOOLEAN, err: {"none", "aborted", "failed"}]
AtRest == [pc |-> "idle", item |-> 0, generation |-> 0, call |-> 0, input |-> 0,
           failed |-> FALSE, err |-> "none"]

-----------------------------------------------------------------------------
(* What the code reads *)

Ended(r) == r.status \in {"stopped", "failed", "succeeded"}
Halted(r) == r.status \in {"stopping", "waiting_authorization"}

LiveItem(i) == ~items[i].done /\ items[i].live

(* CheckExecutionLease                                                      *)
HoldsLease(g) ==
    g = 0 \/ (g = work.generation /\ \E i \in DOMAIN items :
                                        LiveItem(i) /\ items[i].generation = g)

Writes(c, statuses) == risks[c] = "write" /\ action[c].status \in statuses
UnresolvedWrite == \E c \in 1 .. Calls : Writes(c, {"unknown"})
PendingWriteUnknown == \E c \in 1 .. Calls : Writes(c, {"unknown"})
(* pendingExternalWrite: what an input, a resume or a takeover waits for.   *)
PendingWrite == \E c \in 1 .. Calls : Writes(c, {"executing", "unknown"})

(* actionAuthorityFence and, with the lease, actionFence.                   *)
AuthorityFence(g, input) ==
    /\ ~Ended(work) /\ work.status # "stopping"
    /\ work.generation = g /\ work.input = input
    /\ work.status = "waiting_authorization" => work.stage = "pending_action"
    /\ ~UnresolvedWrite
    /\ work.member
ActionFence(g, input) == AuthorityFence(g, input) /\ HoldsLease(g)

(* actionApprovalCurrent: the approver still owns the tool, and an approval *)
(* that came from a grant lives no longer than the grant's scope.           *)
ApprovalCurrent(a) ==
    /\ ~a.late
    /\ owner = a.approver
    /\ a.granted => grant = "live" /\ work.controller = 0

(* currentActionScope                                                       *)
ScopeCurrent(a) ==
    /\ a.generation = work.generation /\ a.input = work.input
    /\ a.controller = work.controller /\ ~a.late

-----------------------------------------------------------------------------
(* What the code writes *)

(* Mutants of ParkUnknown: left to the next recovery; stage and status mixed up. *)
ParkUnknownLater(r) == r
ParkUnknownAsStatus(r) == [r EXCEPT !.status = "action_outcome_unknown"]
ParkUnknown(r) ==
    IF Ended(r) \/ r.status = "stopping" THEN r
    ELSE [r EXCEPT !.status = "waiting_authorization", !.stage = "action_outcome_unknown"]
ParkPending(r) ==
    [r EXCEPT !.status = "waiting_authorization", !.stage = "pending_action"]

WakeNoExecutor == items
(* QueueRunExecution *)
WakeExecutor == Append(items, NewWake)

StepTo(e, pc) == executor' = [executor EXCEPT ![e].pc = pc]
Leave(e, err) ==
    executor' = [executor EXCEPT ![e] = [AtRest EXCEPT !.pc = "post", !.err = err,
                        !.item = executor[e].item, !.generation = executor[e].generation]]
(* Why a fenced transaction refused.                                        *)
Refused(g) == IF HoldsLease(g) THEN "failed" ELSE "aborted"

-----------------------------------------------------------------------------
(* Recovery and reconciliation (recoverActions, reconcile)                  *)

(* An executing row is an orphan once its generation or its lease is gone.  *)
Orphan(c) ==
    /\ action[c].status = "executing"
    /\ action[c].generation # work.generation \/ ~HoldsLease(action[c].generation)

RecoveredAlways(c) == [action[c] EXCEPT !.status = "approved"]
(* Only a read may be made again, and only while the run goes on.           *)
Recovered(c) ==
    IF risks[c] = "read" /\ ~Ended(work) THEN [action[c] EXCEPT !.status = "approved"]
    ELSE [action[c] EXCEPT !.status = "unknown"]

ActionsAfterRecovery ==
    [c \in 1 .. Calls |-> IF Orphan(c) THEN Recovered(c) ELSE action[c]]
WorkAfterRecovery ==
    IF \E c \in 1 .. Calls :
          risks[c] = "write" /\ ActionsAfterRecovery[c].status = "unknown"
    THEN ParkUnknown(work) ELSE work
RecoveryDue == ActionsAfterRecovery # action \/ WorkAfterRecovery # work

RecoverActions ==
    /\ RecoveryDue
    /\ action' = ActionsAfterRecovery
    /\ work' = WorkAfterRecovery
    /\ UNCHANGED <<items, risks, paired, executor, owner, grant, effects, budget>>

LostDue ==
    /\ ~Ended(work) /\ work.status # "waiting_authorization"
    /\ work.holding = "accepted" /\ ~HoldsLease(work.generation)
MarkLost ==
    /\ ~RecoveryDue /\ LostDue
    /\ work' = [work EXCEPT !.holding = "lost"]
    /\ UNCHANGED <<items, risks, action, paired, executor, owner, grant, effects, budget>>

ControllerDue == ~Ended(work) /\ ~Halted(work) /\ ~work.member
SuspendForTakeover ==
    /\ ~RecoveryDue /\ ~LostDue /\ ControllerDue
    /\ work' = [work EXCEPT !.status = "waiting_authorization",
                            !.stage = "awaiting_takeover", !.generation = @ + 1]
    /\ UNCHANGED <<items, risks, action, paired, executor, owner, grant, effects, budget>>

(* The monitor, or any boundary or reader before it goes on.                *)
ReconcileActions == RecoverActions \/ MarkLost \/ SuspendForTakeover
Settled == ~RecoveryDue /\ ~LostDue /\ ~ControllerDue

-----------------------------------------------------------------------------
(* Claiming an execute item, and the frame of an execution                  *)

(* RunRepo.Claim: one live execute item at a time; the generation moves on  *)
(* unless the run is parked or over, which leaves a pending approval valid. *)
(* Goroutines are interchangeable: the first idle one claims.               *)
ClaimItem(e) ==
    /\ executor[e].pc = "idle" /\ \A f \in 1 .. e - 1 : executor[f].pc # "idle"
    /\ \A j \in DOMAIN items : ~LiveItem(j)
    /\ \E i \in DOMAIN items :
        /\ ~items[i].done
        /\ LET fresh == work.status \in {"running", "stopping"}
               g == IF fresh THEN work.generation + 1 ELSE items[i].generation
           IN /\ work' = IF ~fresh THEN work
                         ELSE [work EXCEPT !.generation = g,
                                  !.holding = IF @ # "lost" /\ work.status = "running"
                                              THEN "accepted" ELSE @]
              /\ items' = [items EXCEPT ![i].holder = e, ![i].live = TRUE,
                                        ![i].generation = g]
              /\ executor' = [executor EXCEPT ![e] =
                    [AtRest EXCEPT !.pc = "enter", !.item = i, !.generation = g]]
    /\ UNCHANGED <<risks, action, paired, owner, grant, effects, budget>>

(* execute up to advance; it recovers the actions first.                    *)
EnterWork(e) ==
    /\ executor[e].pc = "enter" /\ ~RecoveryDue
    /\ LET g == executor[e].generation
       IN IF Ended(work) \/ work.status = "waiting_authorization"
          THEN executor' = [executor EXCEPT ![e].pc = "finish"]
          ELSE IF work.status = "stopping"
          THEN executor' = [executor EXCEPT ![e].pc = "confirm", ![e].generation = 0]
          ELSE IF g = 0 \/ g # work.generation
          THEN executor' = [executor EXCEPT ![e].pc = "finish", ![e].err = "aborted"]
          ELSE IF ~work.member THEN Leave(e, "failed")
          ELSE StepTo(e, IF work.holding = "lost" THEN "restart" ELSE "agent")
    /\ UNCHANGED <<work, items, risks, action, paired, owner, grant, effects, budget>>

(* The fence of Change: lease, then status, then authority.                 *)
WorkOpen(g) == HoldsLease(g) /\ ~Ended(work) /\ ~Halted(work) /\ work.member

RestartWork(e) ==
    /\ executor[e].pc = "restart"
    /\ LET g == executor[e].generation
       IN IF WorkOpen(g)
          THEN work' = [work EXCEPT !.holding = "accepted"] /\ StepTo(e, "agent")
          ELSE Leave(e, Refused(g)) /\ UNCHANGED work
    /\ UNCHANGED <<items, risks, action, paired, owner, grant, effects, budget>>

(* The boundary before a tool call: a failed result ends the work, and the  *)
(* first call without a result is dispatched, again if need be.  Once all   *)
(* have one, the run goes on and in the end succeeds.                       *)
Unpaired == {c \in 1 .. Calls : paired[c] = "none"}
NextCall(e) ==
    /\ executor[e].pc = "agent" /\ Settled
    /\ LET g == executor[e].generation
       IN IF ~WorkOpen(g) THEN Leave(e, Refused(g)) /\ UNCHANGED work
          ELSE IF \E c \in 1 .. Calls : paired[c] = "failed"
          THEN Leave(e, "failed") /\ UNCHANGED work
          ELSE IF Unpaired = {}
          THEN work' = [work EXCEPT !.status = "succeeded"] /\ Leave(e, "none")
          ELSE /\ executor' = [executor EXCEPT ![e].pc = "prepare",
                                  ![e].call = CHOOSE c \in Unpaired : \A d \in Unpaired : c <= d,
                                  ![e].input = work.input, ![e].failed = FALSE]
               /\ UNCHANGED work
    /\ UNCHANGED <<items, risks, action, paired, owner, grant, effects, budget>>

(* execute after advance, and the outcome of the item.                      *)
LeaveWork(e) ==
    /\ executor[e].pc = "post" /\ Settled
    /\ executor' = [executor EXCEPT ![e].pc =
          IF executor[e].generation # work.generation THEN "finish"
          ELSE IF work.status = "stopping" THEN "confirm"
          ELSE IF Ended(work) \/ work.status = "waiting_authorization" THEN "finish"
          ELSE IF executor[e].err = "failed" THEN "fail" ELSE "finish",
        ![e].err = IF executor[e].generation # work.generation \/ Ended(work)
                      \/ work.status = "waiting_authorization"
                   THEN "none" ELSE @]
    /\ UNCHANGED <<work, items, risks, action, paired, owner, grant, effects, budget>>

ConfirmStopped(e) ==
    /\ executor[e].pc = "confirm"
    /\ work' = IF HoldsLease(executor[e].generation) /\ work.status = "stopping"
               THEN [work EXCEPT !.status = "stopped", !.stage = ""] ELSE work
    /\ executor' = [executor EXCEPT ![e].pc = "finish", ![e].err = "none"]
    /\ UNCHANGED <<items, risks, action, paired, owner, grant, effects, budget>>

FailWork(e) ==
    /\ executor[e].pc = "fail"
    /\ LET held == HoldsLease(executor[e].generation)
       IN /\ work' = IF held /\ ~Ended(work)
                     THEN [work EXCEPT !.status = "failed", !.stage = ""] ELSE work
          /\ executor' = [executor EXCEPT ![e].pc = "finish",
                             ![e].err = IF held THEN "none" ELSE "aborted"]
    /\ UNCHANGED <<items, risks, action, paired, owner, grant, effects, budget>>

(* Complete or Retry, for the holder of the lease token only.               *)
ReleaseItem(e) ==
    /\ executor[e].pc = "finish"
    /\ LET i == executor[e].item
       IN items' = IF items[i].holder # e THEN items
                   ELSE [items EXCEPT ![i] = [NewWake EXCEPT
                                                 !.generation = items[i].generation,
                                                 !.done = executor[e].err = "none"]]
    /\ executor' = [executor EXCEPT ![e] = AtRest]
    /\ UNCHANGED <<work, risks, action, paired, owner, grant, effects, budget>>

-----------------------------------------------------------------------------
(* One tool call (performTool): prepare, claim, check, call, receipt, pair  *)

(* rebindAction: what a row becomes when the current executor takes it over *)
(* again.  Only its generation moves; its decision can lapse.               *)
Rebindable(a) ==
    /\ a.status \notin {"executing", "unknown"}
    /\ a.controller = work.controller /\ a.input = work.input
Rebound(c) ==
    LET a == action[c]
    IN [a EXCEPT !.generation = work.generation,
                 !.status = IF @ \in {"pending", "approved"} /\ a.late THEN "expired"
                            ELSE IF @ = "approved" /\ risks[c] = "write"
                                    /\ ~ApprovalCurrent(a) THEN "revoked"
                            ELSE @]
WorkOnRebind(c) ==
    IF Rebound(c).status = "pending" /\ action[c].generation # work.generation
    THEN ParkPending(work) ELSE work

(* A read needs no decision; a write does, unless the requester, who owns   *)
(* the tool and controls the run, has permitted it in advance.              *)
NewAction(c) ==
    LET granted == risks[c] = "write" /\ grant = "live" /\ owner = 0 /\ work.controller = 0
    IN [Absent EXCEPT !.generation = work.generation, !.input = work.input,
                      !.controller = work.controller, !.granted = granted,
                      !.status = IF risks[c] = "read" \/ granted THEN "approved"
                                 ELSE "pending"]

(* prepareAction and actionInterrupt: a pending action parks the run.       *)
PrepareAction(e) ==
    /\ executor[e].pc = "prepare"
    /\ LET g == executor[e].generation
           c == executor[e].call
           fenced == HoldsLease(g) /\ ~Ended(work) /\ ActionFence(g, executor[e].input)
           prior == action[c].status # "absent"
       IN IF \/ ~fenced
             \/ prior /\ ~Rebindable(action[c])
             \/ ~prior /\ work.status = "waiting_authorization"
          THEN /\ Leave(e, IF ~HoldsLease(g) \/ work.status = "stopping"
                              \/ work.input # executor[e].input
                           THEN "aborted" ELSE "failed")
               /\ UNCHANGED <<work, action>>
          ELSE LET row == IF prior THEN Rebound(c) ELSE NewAction(c)
               IN /\ action' = [action EXCEPT ![c] = row]
                  /\ work' = IF prior THEN WorkOnRebind(c)
                             ELSE IF row.status = "pending" THEN ParkPending(work) ELSE work
                  /\ IF row.status = "pending" THEN Leave(e, "none") ELSE StepTo(e, "claim")
    /\ UNCHANGED <<items, risks, paired, owner, grant, effects, budget>>

(* The answer to a call that was not made is a result like any other.       *)
PairAs(e, failed) ==
    executor' = [executor EXCEPT ![e].pc = "pair", ![e].failed = failed]

AnsweredUnlessRevoked(a) == a.status \in {"succeeded", "failed", "denied"}
Answered(a) == a.status \in {"succeeded", "failed", "denied", "revoked"}

(* The claiming transaction of invokeAction.  What was decided or done      *)
(* before is answered from the row; a refused transaction becomes a failed  *)
(* result, unless the outcome of the row is open.                           *)
ClaimAction(e) ==
    /\ executor[e].pc = "claim"
    /\ LET g == executor[e].generation
           c == executor[e].call
           a == action[c]
           row == Rebound(c)
       IN IF ~WorkOpen(g) \/ ~ActionFence(g, executor[e].input)
          THEN PairAs(e, TRUE) /\ UNCHANGED <<work, action>>
          ELSE IF a.status \in {"executing", "unknown"}
          THEN Leave(e, "failed") /\ UNCHANGED <<work, action>>
          ELSE IF ~Rebindable(a) \/ row.status \in {"pending", "expired"}
          THEN PairAs(e, TRUE) /\ UNCHANGED <<work, action>>
          ELSE IF Answered(row)
          THEN /\ action' = [action EXCEPT ![c] = row]
               /\ PairAs(e, FALSE)
               /\ UNCHANGED work
          ELSE /\ action' = [action EXCEPT ![c] = [row EXCEPT !.status = "executing"]]
               /\ StepTo(e, "check")
               /\ UNCHANGED work
    /\ UNCHANGED <<items, risks, paired, owner, grant, effects, budget>>

Permitted(e) ==
    LET g == executor[e].generation
        c == executor[e].call
    IN /\ WorkOpen(g) /\ ActionFence(g, executor[e].input)
       /\ action[c].status = "executing" /\ ScopeCurrent(action[c])
       /\ risks[c] = "write" => ApprovalCurrent(action[c])

(* beforeCall, on the connection about to be used: everything once more.    *)
CheckBeforeCall(e) ==
    /\ executor[e].pc = "check" /\ Settled
    /\ executor' = [executor EXCEPT ![e].pc = IF Permitted(e) THEN "call" ELSE "receipt",
                                    ![e].failed = ~Permitted(e)]
    /\ UNCHANGED <<work, items, risks, action, paired, owner, grant, effects, budget>>

(* The call outside: an error or a timeout does not tell whether it took    *)
(* effect.                                                                  *)
CallTool(e) ==
    /\ executor[e].pc = "call"
    /\ \E effect, confirmed \in BOOLEAN :
        /\ confirmed => effect
        /\ effects' = IF effect THEN [effects EXCEPT ![executor[e].call] = @ + 1] ELSE effects
        /\ executor' = [executor EXCEPT ![e].pc = "receipt", ![e].failed = ~confirmed]
    /\ UNCHANGED <<work, items, risks, action, paired, owner, grant, budget>>

(* The receipt transaction.  Only the holder of the live claim records an   *)
(* outcome; it may do so on a run that has ended meanwhile.                 *)
RecordOutcome(e) ==
    /\ executor[e].pc = "receipt"
    /\ LET g == executor[e].generation
           c == executor[e].call
           outcome == IF ~executor[e].failed THEN "succeeded"
                      ELSE IF risks[c] = "read" THEN "failed" ELSE "unknown"
       IN IF HoldsLease(g) /\ action[c].status = "executing" /\ action[c].generation = g
          THEN /\ action' = [action EXCEPT ![c].status = outcome]
               /\ work' = IF outcome = "unknown" THEN ParkUnknown(work) ELSE work
               /\ IF outcome = "unknown" THEN Leave(e, "failed") ELSE StepTo(e, "pair")
          ELSE Leave(e, "failed") /\ UNCHANGED <<work, action>>
    /\ UNCHANGED <<items, risks, paired, owner, grant, effects, budget>>

(* The result becomes part of the trajectory, under the same lease.         *)
PairResult(e) ==
    /\ executor[e].pc = "pair" /\ Settled
    /\ LET g == executor[e].generation
       IN IF ~WorkOpen(g) THEN Leave(e, Refused(g)) /\ UNCHANGED paired
          ELSE /\ paired' = [paired EXCEPT ![executor[e].call] =
                                IF executor[e].failed \/ @ = "failed" THEN "failed" ELSE "ok"]
               /\ IF executor[e].failed THEN Leave(e, "failed") ELSE StepTo(e, "agent")
    /\ UNCHANGED <<work, items, risks, action, owner, grant, effects, budget>>

-----------------------------------------------------------------------------
(* Users (ActionAuthorization, actionGrantAuthorization, Control)           *)

Spend(kind) == budget[kind] > 0 /\ budget' = [budget EXCEPT ![kind] = @ - 1]

Decisions == [approve |-> "approved", deny |-> "denied", revoke |-> "revoked"]

(* actionDecision with its apply: the owner of the tool decides on the very *)
(* version of run and action that was shown.                                *)
DecideAction(c, op) ==
    /\ Spend("commands")
    /\ LET a == action[c]
           parked == work.status = "waiting_authorization"
       IN /\ AuthorityFence(a.generation, a.input) /\ ScopeCurrent(a)
          /\ a.status = "pending" \/ (op = "revoke" /\ a.status = "approved")
          /\ action' = [action EXCEPT ![c].status = Decisions[op], ![c].approver = owner,
                                      ![c].refused = op # "approve"]
          /\ work' = IF parked THEN [work EXCEPT !.status = "running", !.stage = ""]
                     ELSE work
          /\ items' = IF parked THEN WakeExecutor ELSE items
    /\ UNCHANGED <<risks, paired, executor, owner, grant, effects>>

(* Of the standing permissions only the requester's own can ever apply.     *)
GrantPermission ==
    /\ Spend("commands") /\ grant = "none" /\ owner = 0
    /\ grant' = "live"
    /\ UNCHANGED <<work, items, risks, action, paired, executor, owner, effects>>
RevokePermission ==
    /\ Spend("commands") /\ grant = "live" /\ owner = 0
    /\ grant' = "revoked"
    /\ UNCHANGED <<work, items, risks, action, paired, executor, owner, effects>>

(* A stop reaches the run in any state; others wait for an open write.      *)
StopWork ==
    /\ Spend("commands") /\ ~Ended(work) /\ work.status # "stopping"
    /\ work' = [work EXCEPT !.status = "stopping", !.stage = ""]
    /\ items' = WakeExecutor
    /\ UNCHANGED <<risks, action, paired, executor, owner, grant, effects>>

AddInput ==
    /\ Spend("commands") /\ ~PendingWrite
    /\ work.status = "running" /\ work.holding # "lost" /\ work.member
    /\ work' = [work EXCEPT !.input = @ + 1]
    /\ UNCHANGED <<items, risks, action, paired, executor, owner, grant, effects>>

ResumeWork ==
    /\ Spend("commands") /\ ~PendingWrite
    /\ work.status = "running" /\ work.holding = "lost" /\ work.member
    /\ work' = [work EXCEPT !.generation = @ + 1, !.holding = "pending"]
    /\ items' = WakeExecutor
    /\ UNCHANGED <<risks, action, paired, executor, owner, grant, effects>>

(* Report refuses a takeover that would leave the stage pending_action.     *)
TakeOverWork ==
    /\ Spend("commands") /\ ~PendingWrite
    /\ ~Ended(work) /\ work.status # "stopping" /\ work.stage # "pending_action"
    /\ work' = [work EXCEPT !.controller = @ + 1, !.member = TRUE,
                            !.status = "running", !.stage = ""]
    /\ items' = IF work.status = "waiting_authorization" THEN WakeExecutor ELSE items
    /\ UNCHANGED <<risks, action, paired, executor, owner, grant, effects>>

UserCommand ==
    \/ \E c \in 1 .. Calls, op \in DOMAIN Decisions : DecideAction(c, op)
    \/ GrantPermission \/ RevokePermission
    \/ StopWork \/ AddInput \/ ResumeWork \/ TakeOverWork

-----------------------------------------------------------------------------
(* The environment                                                          *)

OwnerChanges ==
    /\ Spend("troubles") /\ owner' = owner + 1
    /\ UNCHANGED <<work, items, risks, action, paired, executor, grant, effects>>
ControllerLeaves ==
    /\ Spend("troubles") /\ work.member
    /\ work' = [work EXCEPT !.member = FALSE]
    /\ UNCHANGED <<items, risks, action, paired, executor, owner, grant, effects>>
(* The deadline of an action passes, or the one of the permission.          *)
TimePasses ==
    /\ Spend("troubles")
    /\ \/ \E c \in 1 .. Calls : /\ action[c].status # "absent" /\ ~action[c].late
                                /\ action' = [action EXCEPT ![c].late = TRUE]
                                /\ UNCHANGED grant
       \/ grant = "live" /\ grant' = "revoked" /\ UNCHANGED action
    /\ UNCHANGED <<work, items, risks, paired, executor, owner, effects>>

(* The process dies, or one transaction of the receipt fails.               *)
ExecutorCrashes(e) ==
    /\ Spend("troubles") /\ executor[e].pc # "idle"
    /\ executor' = [executor EXCEPT ![e] = AtRest]
    /\ UNCHANGED <<work, items, risks, action, paired, owner, grant, effects>>
ReceiptFails(e) ==
    /\ Spend("troubles") /\ executor[e].pc = "receipt"
    /\ Leave(e, "failed")
    /\ UNCHANGED <<work, items, risks, action, paired, owner, grant, effects>>

Held(i) == \E e \in Executors : executor[e].pc # "idle" /\ executor[e].item = i
                                /\ items[i].holder = e
Expired(i) == items' = [items EXCEPT ![i].live = FALSE]
ItemExpires(i) ==
    /\ items[i].live /\ ~Held(i) /\ Expired(i)
    /\ UNCHANGED <<work, risks, action, paired, executor, owner, grant, effects, budget>>
(* The holder is stalled or cut off for longer than its lease.              *)
HolderStalls(i) ==
    /\ Spend("troubles") /\ items[i].live /\ Held(i) /\ Expired(i)
    /\ UNCHANGED <<work, risks, action, paired, executor, owner, grant, effects>>

-----------------------------------------------------------------------------
ActionsInit ==
    /\ work = [status |-> "running", stage |-> "", generation |-> 0, input |-> 1,
               controller |-> 0, member |-> TRUE, holding |-> "pending"]
    /\ items = <<NewWake>>
    /\ risks \in [1 .. Calls -> Risks]
    /\ action = [c \in 1 .. Calls |-> Absent]
    /\ paired = [c \in 1 .. Calls |-> "none"]
    /\ executor = [e \in Executors |-> AtRest]
    /\ owner = 0
    /\ grant \in {"none", "live"}
    /\ effects = [c \in 1 .. Calls |-> 0]
    /\ budget = [commands |-> MaxActionCommands, troubles |-> MaxTroubles]

ExecutorStep(e) ==
    \/ ClaimItem(e) \/ EnterWork(e) \/ RestartWork(e) \/ NextCall(e)
    \/ PrepareAction(e) \/ ClaimAction(e) \/ CheckBeforeCall(e) \/ CallTool(e)
    \/ RecordOutcome(e) \/ PairResult(e) \/ LeaveWork(e) \/ ConfirmStopped(e)
    \/ FailWork(e) \/ ReleaseItem(e)

ActionsNext ==
    \/ \E e \in Executors : ExecutorStep(e) \/ ExecutorCrashes(e) \/ ReceiptFails(e)
    \/ ReconcileActions
    \/ UserCommand
    \/ OwnerChanges \/ ControllerLeaves \/ TimePasses
    \/ \E i \in DOMAIN items : ItemExpires(i) \/ HolderStalls(i)

ActionsSpec == ActionsInit /\ [][ActionsNext]_actionVars

-----------------------------------------------------------------------------
(* Properties                                                               *)

ActionsTypeOK ==
    /\ work \in Works
    /\ items \in Seq(ActionItems)
    /\ risks \in [1 .. Calls -> Risks]
    /\ action \in [1 .. Calls -> Rows]
    /\ paired \in [1 .. Calls -> {"none", "ok", "failed"}]
    /\ executor \in [Executors -> Threads]
    /\ owner \in Nat /\ grant \in {"none", "live", "revoked"}
    /\ effects \in [1 .. Calls -> Nat]

(* A write takes effect at most once, however often its executor is lost,   *)
(* its run resumed or taken over, or its call replayed (invokeAction: an    *)
(* ambiguous call or a worker's death never silently replays a write).      *)
WrittenOnce == \A c \in 1 .. Calls : risks[c] = "write" => effects[c] <= 1

(* A denial or a revocation of a write that was accepted holds: the write   *)
(* never takes effect, not through a row read before nor after a rebinding. *)
RefusalHolds ==
    \A c \in 1 .. Calls : risks[c] = "write" /\ action[c].refused => effects[c] = 0

(* While a write is in the hands of the holder of the lease, the run keeps  *)
(* the controller and the inputs it was permitted for: an input or a        *)
(* takeover cannot slip in between the claim and its receipt.               *)
WriteKeepsItsScope ==
    \A e \in Executors :
        LET c == executor[e].call
        IN /\ executor[e].pc \in {"check", "call", "receipt"} /\ risks[c] = "write"
           /\ action[c].status = "executing" /\ HoldsLease(executor[e].generation)
           => work.input = action[c].input /\ work.controller = action[c].controller

(* Once the outcome of a write is unknown the run never works on: it is     *)
(* parked for a human, being stopped, or over (action_outcome_unknown).     *)
UnknownHalts == UnresolvedWrite => Halted(work) \/ Ended(work)

(* An approved action is not forgotten: while its run is running, an item   *)
(* that is not drained brings an executor to it.  The decision wakes one    *)
(* even while the one that asked for it is still leaving, and no superseded *)
(* one drains the item of its successor; a run that was found lost waits    *)
(* for its user to resume it.                                               *)
ApprovedIsPursued ==
    \A c \in 1 .. Calls :
        action[c].status = "approved" /\ work.status = "running" /\ work.holding # "lost"
            => \E i \in DOMAIN items : ~items[i].done
=============================================================================
