---------------------------- MODULE RunLifecycle ----------------------------
(***************************************************************************)
(* One Run of a built-in bot: the durable row bot.runs, its outbox, its    *)
(* trajectory, the worker goroutines that execute it and publish its       *)
(* result, the authority monitor, and the users who control it.            *)
(*                                                                         *)
(* Every transaction on a Run holds the conversation barrier and the row   *)
(* lock, so a transaction is one action.  Whatever a worker does between   *)
(* two transactions is a separate action, and everybody else may act in    *)
(* between: a worker is a program counter over its transactions.           *)
(*                                                                         *)
(* Left to other modules: tools that act on the outside world, third-party *)
(* executors, delegation, changes of the cited sources, the "updated"      *)
(* notifications.                                                          *)
(***************************************************************************)
EXTENDS Naturals, Sequences, FiniteSets, SequencesExt

CONSTANTS Workers,      \* goroutines of the "execute" pool
          Publishers,   \* goroutines of the "output" pool
          Visibility,   \* Run.Visibility: "conversation" or "personal"
          MaxSteps,     \* ExecutionConfig.MaxSteps: the budget of model calls
          MaxCommands,  \* bound: user commands in a behaviour
          MaxFaults,    \* bound: crashes, stalls and lost replies in a behaviour
          Grounds,      \* the authorities that can be withdrawn in a behaviour
          StallPoints   \* where a goroutine can stall for longer than its lease

AllGrounds == {"grant", "controller", "material"}

ASSUME VisibilityAssumption == Visibility \in {"conversation", "personal"}
ASSUME MaxStepsAssumption == MaxSteps \in Nat \ {0}
ASSUME BoundsAssumption == MaxCommands \in Nat /\ MaxFaults \in Nat
ASSUME GroundsAssumption == Grounds \subseteq AllGrounds
ASSUME StallAssumption == StallPoints \subseteq STRING
ASSUME ProcessAssumption ==
    Workers \cap Publishers = {} /\ "none" \notin Workers \cup Publishers

VARIABLES run,        \* the row of bot.runs
          outbox,     \* the rows of bot.run_outbox, in order of creation
          trajectory, \* the rows of bot.run_trajectory
          requests,   \* the rows of bot.run_model_calls still "requested"
          rounds,     \* how many rows bot.run_model_calls has
          worker,     \* the goroutines of both pools
          lost,       \* the authorities withdrawn so far
          mailbox,    \* the messages persisted for output key "<run>:final"
          commands, faults

vars == <<run, outbox, trajectory, requests, rounds, worker, lost, mailbox, commands, faults>>

-----------------------------------------------------------------------------
(* Values *)

Statuses == {"accepted", "running", "waiting_input", "waiting_authorization",
             "stopping", "succeeded", "failed", "stopped"}
ExecutorStatuses == {"pending", "accepted", "lost", "completed", "stopped"}
StopStatuses == {"none", "requested", "unknown", "confirmed"}
OutputStatuses == {"none", "generated", "pending", "committed", "failed"}
StopReasons == {"", "user_requested", "completed_before_stop", "grant"}

Runs == [status: Statuses, executor: ExecutorStatuses, stop: StopStatuses,
         output: OutputStatuses, generation: Nat, input: Nat, applied: Nat,
         waiting: BOOLEAN, revoked: BOOLEAN, reason: StopReasons,
         messageID: BOOLEAN]

Processes == Workers \cup Publishers

Items == [kind: {"execute", "output"}, generation: Nat,
          holder: Processes \cup {"none"}, live: BOOLEAN, done: BOOLEAN]

(* A block remembers the input version it carries or, for a model answer,   *)
(* the input version its request had seen.                                  *)
Blocks == [kind: {"system", "input", "ask", "result", "final"}, version: Nat]
(* A request has frozen its input bound and the trajectory it was made from.*)
Requests == [id: Nat, bound: Nat, length: Nat, tools: BOOLEAN]

ExecutePoints == {"idle", "enter", "start", "restart", "agent", "round",
                  "request", "requestFinal", "invoke", "inflight", "tool",
                  "final", "generate", "queueOutput", "post", "confirm", "fail",
                  "finish"}
OutputPoints == {"idle", "read", "send", "commit", "commitPersonal",
                 "failOutput", "finish"}
Errors == {"none", "aborted", "failed"}
Points == ExecutePoints \cup OutputPoints
(* A goroutine's item and generation come from its claim; view is the       *)
(* length of the trajectory it last read, request the model call it makes.  *)
Goroutines == [pc: Points, item: Nat, generation: Nat, view: Nat,
               request: Nat, err: Errors]
Idle == [pc |-> "idle", item |-> 0, generation |-> 0, view |-> 0,
         request |-> 0, err |-> "none"]

NewItem(kind) == [kind |-> kind, generation |-> 0, holder |-> "none",
                  live |-> FALSE, done |-> FALSE]

-----------------------------------------------------------------------------
(* What the code reads *)

TerminalRun(r) == r.status \in {"succeeded", "failed", "stopped"}
Parked(r) == r.status \in {"waiting_input", "waiting_authorization"}
Suspended(r) == r.status \in {"stopping", "waiting_authorization"}

LiveExecution(i) ==
    /\ outbox[i].kind = "execute"
    /\ ~outbox[i].done
    /\ outbox[i].live

OutputQueued == run.output \in {"generated", "pending"}

(* CheckExecutionLease: generation zero is the platform itself.             *)
LeaseHeld(g) ==
    g = 0 \/ (/\ g = run.generation
              /\ \E i \in DOMAIN outbox :
                    LiveExecution(i) /\ outbox[i].generation = g)

(* authorityState: the reason the work may not go on, or "".  A run already *)
(* marked revoked answers with its own stop reason.                         *)
AuthorityReason ==
    IF run.revoked THEN run.reason
    ELSE IF "grant" \in lost THEN "grant"
    ELSE IF "controller" \in lost THEN "controller"
    ELSE ""

(* authorize adds the cited materials to authorityState.                    *)
Authorized == AuthorityReason = "" /\ "material" \notin lost

(* lockRunAuthority, taken inside every execution transaction.              *)
AuthorityLocked == lost \cap {"grant", "controller"} = {}

-----------------------------------------------------------------------------
(* What the code writes *)

(* The fence of ChangeLifecycle: the lease, then the terminal check.        *)
LifecycleOpen(g) == LeaseHeld(g) /\ ~TerminalRun(run)

ExecutionOpenUnsuspended(g) == LifecycleOpen(g) /\ AuthorityLocked
(* The fence of Change.                                                     *)
ExecutionOpen(g) == LifecycleOpen(g) /\ ~Suspended(run) /\ AuthorityLocked
(* Why Change refused.                                                      *)
Refusal(g) == IF LeaseHeld(g) THEN "failed" ELSE "aborted"

(* requestRunStop on a run that is not terminal.  It answers a row and      *)
(* whether a wake-up for the executor has to be queued.                     *)
RequestStop(r, reason) ==
    IF r.executor = "completed" THEN
        [row |-> IF mailbox.receipt
                 THEN [r EXCEPT !.reason = "completed_before_stop",
                                !.status = "succeeded", !.output = "committed",
                                !.messageID = TRUE]
                 ELSE IF r.revoked
                 THEN [r EXCEPT !.reason = "completed_before_stop",
                                !.status = "failed", !.output = "failed"]
                 ELSE [r EXCEPT !.reason = "completed_before_stop"],
         wake |-> FALSE]
    ELSE IF r.stop \in {"requested", "unknown"} THEN
        [row |-> IF reason = "user_requested" THEN r
                 ELSE [r EXCEPT !.reason = reason, !.status = "stopping",
                                !.waiting = FALSE],
         wake |-> FALSE]
    ELSE
        [row |-> [r EXCEPT !.status = "stopping", !.waiting = FALSE,
                           !.stop = "requested", !.reason = reason],
         wake |-> TRUE]

WakeNobody(needed) == outbox
(* QueueRunExecution *)
Wake(needed) == IF needed THEN Append(outbox, NewItem("execute")) ELSE outbox

FailedRunStage(r, output) ==
    [r EXCEPT !.status = "failed", !.output = "output_revoked"]
(* fail                                                                     *)
FailedRun(r, output) ==
    [r EXCEPT !.status = "failed",
              !.output = IF output \/ @ \in {"generated", "pending"}
                         THEN "failed" ELSE @]

AppendInputsDuringCall(r) ==
    [i \in 1 .. r.input - r.applied |->
        [kind |-> "input", version |-> r.applied + i]]
(* appendInputs: the accepted inputs that become blocks now.  A pending     *)
(* model request owns its upper bound, so none does while there is one.     *)
PendingInputs(r) ==
    IF requests # {} THEN <<>>
    ELSE [i \in 1 .. r.input - r.applied |->
            [kind |-> "input", version |-> r.applied + i]]

ApplyInputsAgain(r) == [r EXCEPT !.waiting = FALSE]
ApplyInputs(r) ==
    IF PendingInputs(r) = <<>> THEN r
    ELSE [r EXCEPT !.applied = r.input, !.waiting = FALSE]

Goto(w, pc) == worker' = [worker EXCEPT ![w].pc = pc]
Return(w, pc, err) == worker' = [worker EXCEPT ![w].pc = pc, ![w].err = err]

-----------------------------------------------------------------------------
(* Claiming and releasing outbox items (RunRepo.Claim, Complete, Retry).    *)

(* The "execute" pool claims execute items, the "output" pool output items. *)
KindOf(w) == IF w \in Workers THEN "execute" ELSE "output"

EligibleNeverClaimed(i) ==
    /\ ~outbox[i].done /\ outbox[i].holder = "none"
    /\ outbox[i].kind = "execute" => \A j \in DOMAIN outbox : ~LiveExecution(j)
Eligible(i) ==
    /\ ~outbox[i].done /\ ~outbox[i].live
    /\ outbox[i].kind = "execute" => \A j \in DOMAIN outbox : ~LiveExecution(j)

ClaimRunSameGeneration(r) ==
    IF r.status \in {"accepted", "running"} /\ r.executor # "lost"
    THEN [r EXCEPT !.executor = "accepted"] ELSE r
(* A claim takes over the run unless it is parked or over: the generation   *)
(* moves on and fences whoever worked on it before.                         *)
ClaimRun(r) ==
    IF r.status \in {"accepted", "running", "stopping"}
    THEN [r EXCEPT !.generation = @ + 1,
                   !.executor = IF @ # "lost" /\ r.status # "stopping"
                                THEN "accepted" ELSE @]
    ELSE r

(* available_at and the order of creation only say which eligible item goes *)
(* first; a retry's back-off makes any order possible.                      *)
Claim(w) ==
    /\ worker[w].pc = "idle"
    /\ \E i \in DOMAIN outbox :
        /\ outbox[i].kind = KindOf(w)
        /\ Eligible(i)
        /\ LET claimed == IF KindOf(w) = "execute" THEN ClaimRun(run) ELSE run
               generation == IF claimed # run THEN claimed.generation
                             ELSE outbox[i].generation
           IN /\ run' = claimed
              /\ outbox' = [outbox EXCEPT ![i].holder = w, ![i].live = TRUE,
                                          ![i].generation = generation]
              /\ worker' = [worker EXCEPT ![w] =
                    [Idle EXCEPT !.pc = IF w \in Workers THEN "enter" ELSE "read",
                                 !.item = i, !.generation = generation]]
    /\ UNCHANGED <<trajectory, requests, rounds, lost, mailbox, commands, faults>>

(* Both updates name the lease token, so a holder that was superseded       *)
(* changes nothing.  An expired lease nobody took over still carries it.    *)
TokenIgnored(w) == TRUE
TokenMatches(w) == outbox[worker[w].item].holder = w

Finish(w) ==
    /\ worker[w].pc = "finish"
    /\ outbox' = IF TokenMatches(w)
                 THEN [outbox EXCEPT ![worker[w].item].holder = "none",
                                     ![worker[w].item].live = FALSE,
                                     ![worker[w].item].done =
                                        @ \/ worker[w].err = "none"]
                 ELSE outbox
    /\ worker' = [worker EXCEPT ![w] = Idle]
    /\ UNCHANGED <<run, trajectory, requests, rounds, lost, mailbox, commands, faults>>

-----------------------------------------------------------------------------
(* Reconciliation of the row with the leases and the authorities (reconcile) *)

(* The executor claims to run and holds no live lease.                      *)
LeaseLost ==
    /\ ~TerminalRun(run) /\ ~Parked(run)
    /\ run.executor = "accepted"
    /\ ~(\E i \in DOMAIN outbox :
            LiveExecution(i) /\ outbox[i].generation = run.generation
                            /\ run.generation > 0)

AuthorityDue ==
    /\ ~TerminalRun(run)
    /\ AuthorityReason # ""
    /\ ~(AuthorityReason = "controller" /\ Suspended(run))
    /\ AuthorityReason # run.reason

ReconcileLease ==
    /\ LeaseLost
    /\ run' = [run EXCEPT !.executor = "lost",
                          !.stop = IF run.status = "stopping" /\ @ = "requested"
                                   THEN "unknown" ELSE @]
    /\ UNCHANGED <<outbox, trajectory, requests, rounds, worker, lost, mailbox,
                   commands, faults>>

(* Losing the controller suspends the run until somebody takes it over; any *)
(* other loss ends it.                                                      *)
ReconcileController ==
    /\ ~LeaseLost /\ AuthorityDue /\ AuthorityReason = "controller"
    /\ run' = [run EXCEPT !.status = "waiting_authorization", !.waiting = TRUE,
                          !.generation = @ + 1]
    /\ requests' = {}
    /\ UNCHANGED <<outbox, trajectory, rounds, worker, lost, mailbox, commands, faults>>

ReconcileRevocation ==
    /\ ~LeaseLost /\ AuthorityDue /\ AuthorityReason # "controller"
    /\ LET stopped == RequestStop([run EXCEPT !.revoked = TRUE], AuthorityReason)
       IN run' = stopped.row /\ outbox' = Wake(stopped.wake)
    /\ UNCHANGED <<trajectory, requests, rounds, worker, lost, mailbox, commands, faults>>

Reconcile == ReconcileLease \/ ReconcileController \/ ReconcileRevocation

(* Every boundary of a worker reconciles first.  The boundary's step is     *)
(* enabled once nothing is left to reconcile.                               *)
Reconciled == ~LeaseLost /\ ~AuthorityDue

-----------------------------------------------------------------------------
(* Executing (Service.execute, advance, runAgent, modelRound)               *)

At(w, pc) == worker[w].pc = pc
Gen(w) == worker[w].generation

FirstStep ==
    IF trajectory = <<>> THEN "start"
    ELSE IF run.status = "accepted" \/ run.executor = "lost" THEN "restart"
    ELSE "agent"
(* advance: a result that exists is only queued, or left to its publisher.  *)
Advance ==
    IF run.output = "pending" THEN "post"
    ELSE IF run.output = "generated" THEN "queueOutput"
    ELSE FirstStep

(* execute reads the run and decides; advance goes on from the same read.   *)
Enter(w) ==
    /\ At(w, "enter")
    /\ IF TerminalRun(run) \/ Parked(run) THEN Return(w, "finish", "none")
       ELSE IF run.status = "stopping"
       THEN worker' = [worker EXCEPT ![w].pc = "confirm", ![w].generation = 0]
       ELSE IF Gen(w) = 0 \/ Gen(w) # run.generation
       THEN Return(w, "finish", "aborted")
       ELSE IF ~OutputQueued /\ ~Authorized THEN Return(w, "post", "failed")
       ELSE Goto(w, Advance)
    /\ UNCHANGED <<run, outbox, trajectory, requests, rounds, lost, mailbox, commands, faults>>

(* The first transaction writes the system prompt and the accepted inputs.  *)
Start(w) ==
    /\ At(w, "start")
    /\ IF ~ExecutionOpen(Gen(w))
       THEN Return(w, "post", Refusal(Gen(w))) /\ UNCHANGED <<run, trajectory>>
       ELSE IF trajectory # <<>>
       THEN Return(w, "post", "aborted") /\ UNCHANGED <<run, trajectory>>
       ELSE /\ run' = ApplyInputs([run EXCEPT !.status = "running",
                                              !.executor = "accepted"])
            /\ trajectory' = <<[kind |-> "system", version |-> 0]>> \o PendingInputs(run)
            /\ Goto(w, "agent")
    /\ UNCHANGED <<outbox, requests, rounds, lost, mailbox, commands, faults>>

Restart(w) ==
    /\ At(w, "restart")
    /\ IF ExecutionOpen(Gen(w))
       THEN /\ run' = [run EXCEPT !.status = "running", !.executor = "accepted"]
            /\ Goto(w, "agent")
       ELSE Return(w, "post", Refusal(Gen(w))) /\ UNCHANGED run
    /\ UNCHANGED <<outbox, trajectory, requests, rounds, lost, mailbox, commands, faults>>

(* executionBoundary: it reconciles, then checks lease, status, authority.  *)
AtBoundary(w, pc) == At(w, pc) /\ Reconciled
BoundaryPassed(w) ==
    LeaseHeld(Gen(w)) /\ ~TerminalRun(run) /\ ~Suspended(run) /\ Authorized

(* BeforeModelRewriteState.  An unpaired tool call is dispatched again;     *)
(* otherwise one transaction decides between pausing and appending the      *)
(* accepted inputs, and an input that arrived in the meantime wins.         *)
BeforeModel(w) ==
    /\ AtBoundary(w, "agent")
    /\ IF ~BoundaryPassed(w)
       THEN Return(w, "post", Refusal(Gen(w))) /\ UNCHANGED <<run, trajectory>>
       ELSE IF Last(trajectory).kind = "ask"
       THEN Goto(w, "tool") /\ UNCHANGED <<run, trajectory>>
       ELSE IF run.waiting /\ run.input = run.applied
       THEN /\ run' = [run EXCEPT !.status = "waiting_input"]
            /\ Return(w, "post", "none")
            /\ UNCHANGED trajectory
       ELSE /\ run' = ApplyInputs(run)
            /\ trajectory' = trajectory \o PendingInputs(run)
            /\ worker' = [worker EXCEPT
                  ![w].pc = IF Last(trajectory').kind = "final" THEN "final" ELSE "round",
                  ![w].view = Len(trajectory')]
    /\ UNCHANGED <<outbox, requests, rounds, lost, mailbox, commands, faults>>

(* modelRound up to its request, read outside any transaction.  A request   *)
(* left behind by an earlier generation is sent again as it was; it has to  *)
(* match the trajectory.  The last round of the budget offers no tools, nor *)
(* does one whose working view outgrew the context.                         *)
Newest(calls) == CHOOSE c \in calls : \A d \in calls : d.id <= c.id

BudgetSpentOffByOne == rounds > MaxSteps
(* Every call of every generation counts.                                   *)
BudgetSpent == rounds >= MaxSteps

PrepareRequest(w) ==
    /\ At(w, "round")
    /\ IF requests # {}
       THEN IF Newest(requests).length = worker[w].view
            THEN worker' = [worker EXCEPT ![w].pc = "invoke",
                                          ![w].request = Newest(requests).id]
            ELSE Return(w, "post", "failed")
       ELSE IF BudgetSpent THEN Return(w, "post", "failed")
       ELSE \/ rounds < MaxSteps - 1 /\ Goto(w, "request")
            \/ Goto(w, "requestFinal")
    /\ UNCHANGED <<run, outbox, trajectory, requests, rounds, lost, mailbox, commands, faults>>

(* The transaction that freezes it: nothing may have been appended since.   *)
CreateRequest(w) ==
    /\ At(w, "request") \/ At(w, "requestFinal")
    /\ IF ExecutionOpen(Gen(w)) /\ Len(trajectory) = worker[w].view
       THEN /\ requests' = requests \cup
                  {[id |-> rounds + 1, bound |-> run.applied,
                    length |-> Len(trajectory), tools |-> At(w, "request")]}
            /\ rounds' = rounds + 1
            /\ worker' = [worker EXCEPT ![w].pc = "invoke", ![w].request = rounds + 1]
       ELSE /\ Return(w, "post", IF ExecutionOpen(Gen(w)) THEN "aborted" ELSE Refusal(Gen(w)))
            /\ UNCHANGED <<requests, rounds>>
    /\ UNCHANGED <<run, outbox, trajectory, lost, mailbox, commands, faults>>

Invoke(w) ==
    /\ AtBoundary(w, "invoke")
    /\ IF BoundaryPassed(w) THEN Goto(w, "inflight")
       ELSE Return(w, "post", Refusal(Gen(w)))
    /\ UNCHANGED <<run, outbox, trajectory, requests, rounds, lost, mailbox, commands, faults>>

(* The model answers with a final text or a tool call.  The answer counts   *)
(* only while its request is still pending.                                 *)
Respond(w, kind) ==
    /\ At(w, "inflight")
    /\ LET mine == {c \in requests : c.id = worker[w].request}
       IN IF ~ExecutionOpen(Gen(w))
          THEN Return(w, "post", Refusal(Gen(w))) /\ UNCHANGED <<trajectory, requests>>
          ELSE IF mine = {}
          THEN Return(w, "post", "aborted") /\ UNCHANGED <<trajectory, requests>>
          ELSE IF kind = "ask" /\ ~Newest(mine).tools
          THEN Return(w, "post", "failed") /\ UNCHANGED <<trajectory, requests>>
          ELSE /\ trajectory' = Append(trajectory,
                                      [kind |-> kind, version |-> Newest(mine).bound])
               /\ requests' = requests \ mine
               /\ Goto(w, IF kind = "ask" THEN "tool" ELSE "final")
    /\ UNCHANGED <<run, outbox, rounds, lost, mailbox, commands, faults>>

(* The call fails, times out, or guardExecution cancels it.                 *)
RespondError(w) ==
    /\ At(w, "inflight")
    /\ Return(w, "post", "failed")
    /\ UNCHANGED <<run, outbox, trajectory, requests, rounds, lost, mailbox, commands, faults>>

(* performTool for ask_for_input (waitForInput).                            *)
AskForInput(w) ==
    /\ AtBoundary(w, "tool")
    /\ IF BoundaryPassed(w) /\ ExecutionOpen(Gen(w))
       THEN /\ run' = [run EXCEPT !.waiting = TRUE]
            /\ trajectory' = Append(trajectory, [kind |-> "result", version |-> run.applied])
            /\ Goto(w, "agent")
       ELSE Return(w, "post", Refusal(Gen(w))) /\ UNCHANGED <<run, trajectory>>
    /\ UNCHANGED <<outbox, requests, rounds, lost, mailbox, commands, faults>>

(* runAgent after the agent stopped: an input accepted since then starts    *)
(* another round.                                                           *)
FinalCheck(w) ==
    /\ AtBoundary(w, "final")
    /\ IF ~BoundaryPassed(w) THEN Return(w, "post", Refusal(Gen(w)))
       ELSE IF run.input > run.applied THEN Goto(w, "agent")
       ELSE IF Last(trajectory).kind # "final" THEN Return(w, "post", "failed")
       ELSE Goto(w, "generate")
    /\ UNCHANGED <<run, outbox, trajectory, requests, rounds, lost, mailbox, commands, faults>>

GenerateAnyInput(w) ==
    /\ At(w, "generate")
    /\ IF LeaseHeld(Gen(w)) /\ ~ExecutionOpen(Gen(w))
       THEN Return(w, "post", "failed") /\ UNCHANGED run
       ELSE IF ~LeaseHeld(Gen(w))
       THEN Goto(w, "agent") /\ UNCHANGED run
       ELSE /\ run' = [run EXCEPT !.executor = "completed", !.output = "generated"]
            /\ Goto(w, "queueOutput")
    /\ UNCHANGED <<outbox, trajectory, requests, rounds, lost, mailbox, commands, faults>>
(* The completing transaction: an input that precedes it, or a lost lease,  *)
(* is Aborted, and runAgent's loop goes round.                              *)
Generate(w) ==
    /\ At(w, "generate")
    /\ IF LeaseHeld(Gen(w)) /\ ~ExecutionOpen(Gen(w))
       THEN Return(w, "post", "failed") /\ UNCHANGED run
       ELSE IF ~LeaseHeld(Gen(w)) \/ run.input # run.applied
       THEN Goto(w, "agent") /\ UNCHANGED run
       ELSE /\ run' = [run EXCEPT !.executor = "completed", !.output = "generated"]
            /\ Goto(w, "queueOutput")
    /\ UNCHANGED <<outbox, trajectory, requests, rounds, lost, mailbox, commands, faults>>

QueueOutput(w) ==
    /\ At(w, "queueOutput")
    /\ IF Authorized /\ ExecutionOpen(Gen(w))
       THEN /\ run' = [run EXCEPT !.output = "pending"]
            /\ outbox' = Append(outbox, NewItem("output"))
            /\ Return(w, "post", "none")
       ELSE /\ Return(w, "post", IF Authorized THEN Refusal(Gen(w)) ELSE "failed")
            /\ UNCHANGED <<run, outbox>>
    /\ UNCHANGED <<trajectory, requests, rounds, lost, mailbox, commands, faults>>

(* execute after advance: reconcile, look again, confirm a stop, fail, or   *)
(* leave.                                                                   *)
Post(w) ==
    /\ AtBoundary(w, "post")
    /\ IF Gen(w) # run.generation THEN Return(w, "finish", "none")
       ELSE IF run.status = "stopping" THEN Goto(w, "confirm")
       ELSE IF TerminalRun(run) \/ run.status = "waiting_authorization"
       THEN Return(w, "finish", "none")
       ELSE IF worker[w].err = "failed" THEN Goto(w, "fail")
       ELSE Goto(w, "finish")
    /\ UNCHANGED <<run, outbox, trajectory, requests, rounds, lost, mailbox, commands, faults>>

(* confirmBuiltinStop                                                       *)
ConfirmStop(w) ==
    /\ At(w, "confirm")
    /\ IF LifecycleOpen(Gen(w)) /\ run.status = "stopping"
       THEN /\ run' = [run EXCEPT !.status = "stopped", !.stop = "confirmed",
                                  !.executor = "stopped",
                                  !.output = IF @ \in {"pending", "generated"}
                                             THEN "failed" ELSE @]
            /\ requests' = {}
       ELSE UNCHANGED <<run, requests>>
    /\ Return(w, "finish", "none")
    /\ UNCHANGED <<outbox, trajectory, rounds, lost, mailbox, commands, faults>>

(* fail, fenced by the generation: a terminal run is left alone.            *)
Fail(w) ==
    /\ At(w, "fail")
    /\ IF LifecycleOpen(Gen(w))
       THEN run' = FailedRun(run, FALSE) /\ requests' = {}
       ELSE UNCHANGED <<run, requests>>
    /\ Return(w, "finish", IF LeaseHeld(Gen(w)) THEN "none" ELSE "aborted")
    /\ UNCHANGED <<outbox, trajectory, rounds, lost, mailbox, commands, faults>>

-----------------------------------------------------------------------------
(* Publishing (Service.publishOutput, MessageService.SendBotReply)          *)

ReadOutputRetries(w) ==
    /\ AtBoundary(w, "read")
    /\ IF TerminalRun(run) THEN Return(w, "finish", "none")
       ELSE IF run.output # "pending" \/ ~Authorized THEN Return(w, "finish", "failed")
       ELSE Goto(w, IF Visibility = "personal" THEN "commitPersonal" ELSE "send")
    /\ UNCHANGED <<run, outbox, trajectory, requests, rounds, lost, mailbox, commands, faults>>
ReadOutput(w) ==
    /\ AtBoundary(w, "read")
    /\ IF TerminalRun(run) THEN Return(w, "finish", "none")
       ELSE IF run.output # "pending" THEN Return(w, "finish", "failed")
       ELSE IF ~Authorized THEN Goto(w, "failOutput")
       ELSE Goto(w, IF Visibility = "personal" THEN "commitPersonal" ELSE "send")
    /\ UNCHANGED <<run, outbox, trajectory, requests, rounds, lost, mailbox, commands, faults>>

SendRefusedByAuthority == run.revoked \/ lost # {}
(* The messaging service looks at the current row before it looks for a     *)
(* receipt.  It lets a failed or succeeded run through.                     *)
SendRefused ==
    \/ run.revoked \/ lost # {}
    \/ run.status \in {"stopping", "waiting_input", "waiting_authorization", "stopped"}

DeliverAlways == [messages |-> mailbox.messages + 1, receipt |-> TRUE]
(* One message per output key: the receipt is written with it.              *)
Deliver == IF mailbox.receipt THEN mailbox
           ELSE [messages |-> mailbox.messages + 1, receipt |-> TRUE]

SendBotReply(w) ==
    /\ At(w, "send")
    /\ IF SendRefused THEN Goto(w, "failOutput") /\ UNCHANGED mailbox
       ELSE mailbox' = Deliver /\ Goto(w, "commit")
    /\ UNCHANGED <<run, outbox, trajectory, requests, rounds, lost, commands, faults>>

SendUnavailableIgnored(w) ==
    /\ At(w, "send")
    /\ faults < MaxFaults
    /\ faults' = faults + 1
    /\ UNCHANGED mailbox
    /\ Goto(w, "commit")
    /\ UNCHANGED <<run, outbox, trajectory, requests, rounds, lost, commands>>
(* The reply is lost, or the call never arrived: Retry.                     *)
SendUnavailable(w) ==
    /\ At(w, "send")
    /\ faults < MaxFaults
    /\ faults' = faults + 1
    /\ \/ ~SendRefused /\ mailbox' = Deliver
       \/ UNCHANGED mailbox
    /\ Return(w, "finish", "failed")
    /\ UNCHANGED <<run, outbox, trajectory, requests, rounds, lost, commands>>

SucceededRun(r, id) ==
    [r EXCEPT !.status = "succeeded", !.output = "committed", !.messageID = id]

(* No generation fences this one: the platform itself commits.              *)
CommitOutput(w) ==
    /\ At(w, "commit")
    /\ run' = IF LifecycleOpen(0) THEN SucceededRun(run, TRUE) ELSE run
    /\ Return(w, "finish", "none")
    /\ UNCHANGED <<outbox, trajectory, requests, rounds, lost, mailbox, commands, faults>>

(* A personal result is only marked; the fence of external actions applies, *)
(* which does not look at the cited materials again.                        *)
CommitPersonal(w) ==
    /\ At(w, "commitPersonal")
    /\ IF LifecycleOpen(0) /\ ~Suspended(run) /\ ~run.revoked /\ AuthorityLocked
       THEN run' = SucceededRun(run, FALSE) /\ Return(w, "finish", "none")
       ELSE Return(w, "finish", "failed") /\ UNCHANGED run
    /\ UNCHANGED <<outbox, trajectory, requests, rounds, lost, mailbox, commands, faults>>

FailOutput(w) ==
    /\ At(w, "failOutput")
    /\ IF LifecycleOpen(0)
       THEN run' = FailedRun(run, TRUE) /\ requests' = {}
       ELSE UNCHANGED <<run, requests>>
    /\ Return(w, "finish", "none")
    /\ UNCHANGED <<outbox, trajectory, rounds, lost, mailbox, commands, faults>>

-----------------------------------------------------------------------------
(* Users (Service.Control through RunRepo.Report)                           *)

(* Report authorizes, then applies the command to the very version it       *)
(* authorized, so a command is one step.                                    *)
Command == commands < MaxCommands /\ commands' = commands + 1

ControlInput ==
    /\ Command
    /\ Authorized
    /\ run.executor # "lost"
    /\ run.status \in {"accepted", "running", "waiting_input"}
    /\ run.output = "none"
    /\ run' = [run EXCEPT !.input = @ + 1,
                          !.status = IF @ = "waiting_input" THEN "running" ELSE @,
                          !.waiting = run.status # "waiting_input" /\ @]
    /\ outbox' = Wake(run.status = "waiting_input")
    /\ UNCHANGED <<trajectory, requests, rounds, worker, lost, mailbox, faults>>

ControlResume ==
    /\ Command
    /\ Authorized
    /\ ~OutputQueued
    /\ \/ run.status = "waiting_input"
       \/ run.executor = "lost" /\ run.status \in {"accepted", "running"}
    /\ run' = [run EXCEPT !.generation = @ + 1, !.executor = "pending",
                          !.status = "accepted", !.waiting = FALSE]
    /\ outbox' = Wake(TRUE)
    /\ UNCHANGED <<trajectory, requests, rounds, worker, lost, mailbox, faults>>

(* The new controller's own membership is what counts from now on.  A run   *)
(* that was not waiting for one only changes its controller.                *)
ControlTakeover ==
    /\ Command
    /\ Visibility = "conversation"
    /\ ~TerminalRun(run) /\ run.status # "stopping" /\ ~OutputQueued
    /\ ~run.revoked /\ lost \subseteq {"controller"}
    /\ lost' = {}
    /\ IF run.status = "waiting_authorization"
       THEN /\ run' = [run EXCEPT !.stop = "none", !.reason = "",
                                  !.status = "accepted", !.waiting = FALSE]
            /\ outbox' = Wake(TRUE)
            /\ requests' = {}
       ELSE UNCHANGED <<run, outbox, requests>>
    /\ UNCHANGED <<trajectory, rounds, worker, mailbox, faults>>

(* A stop reaches a run in any state; after its end it only leaves a note.  *)
ControlStop ==
    /\ Command
    /\ AuthorityReason \in {"", "controller"}
    /\ IF TerminalRun(run)
       THEN run' = [run EXCEPT !.reason = "user_requested"] /\ UNCHANGED outbox
       ELSE LET stopped == RequestStop(run, "user_requested")
            IN run' = stopped.row /\ outbox' = Wake(stopped.wake)
    /\ UNCHANGED <<trajectory, requests, rounds, worker, lost, mailbox, faults>>

-----------------------------------------------------------------------------
(* The environment                                                          *)

(* A membership, a binding or a grant is withdrawn; a member who comes back *)
(* is a new incarnation, so none is restored.                               *)
Withdraw(ground) ==
    /\ ground \notin lost
    /\ lost' = lost \cup {ground}
    /\ UNCHANGED <<run, outbox, trajectory, requests, rounds, worker, mailbox, commands, faults>>

(* The process dies: its goroutine forgets everything, its lease stays.     *)
Crash(w) ==
    /\ worker[w].pc # "idle"
    /\ faults < MaxFaults
    /\ faults' = faults + 1
    /\ worker' = [worker EXCEPT ![w] = Idle]
    /\ UNCHANGED <<run, outbox, trajectory, requests, rounds, lost, mailbox, commands>>

HolderAlive(i) ==
    LET h == outbox[i].holder
    IN h # "none" /\ worker[h].pc # "idle" /\ worker[h].item = i

(* A holder that lives renews its lease three times before it runs out.     *)
LeaseExpires(i) ==
    /\ outbox[i].live /\ ~HolderAlive(i)
    /\ outbox' = [outbox EXCEPT ![i].live = FALSE]
    /\ UNCHANGED <<run, trajectory, requests, rounds, worker, lost, mailbox, commands, faults>>

(* A stalled holder, or one cut off from the database, loses its lease and  *)
(* finds out later.                                                         *)
Stall(i) ==
    /\ outbox[i].live /\ HolderAlive(i)
    /\ worker[outbox[i].holder].pc \in StallPoints
    /\ faults < MaxFaults
    /\ faults' = faults + 1
    /\ outbox' = [outbox EXCEPT ![i].live = FALSE]
    /\ UNCHANGED <<run, trajectory, requests, rounds, worker, lost, mailbox, commands>>

-----------------------------------------------------------------------------
(* Accept writes the run, its first input and its first execute item.       *)
Init ==
    /\ run = [status |-> "accepted", executor |-> "pending", stop |-> "none",
              output |-> "none", generation |-> 0, input |-> 1, applied |-> 0,
              waiting |-> FALSE, revoked |-> FALSE, reason |-> "",
              messageID |-> FALSE]
    /\ outbox = <<NewItem("execute")>>
    /\ trajectory = <<>>
    /\ requests = {}
    /\ rounds = 0
    /\ worker = [w \in Processes |-> Idle]
    /\ lost = {}
    /\ mailbox = [messages |-> 0, receipt |-> FALSE]
    /\ commands = 0
    /\ faults = 0

ExecuteStep(w) ==
    \/ Claim(w) \/ Enter(w) \/ Start(w) \/ Restart(w) \/ BeforeModel(w)
    \/ PrepareRequest(w) \/ CreateRequest(w) \/ Invoke(w)
    \/ Respond(w, "final") \/ Respond(w, "ask") \/ RespondError(w)
    \/ AskForInput(w) \/ FinalCheck(w) \/ Generate(w)
    \/ QueueOutput(w) \/ Post(w) \/ ConfirmStop(w) \/ Fail(w) \/ Finish(w)

PublishStep(w) ==
    \/ Claim(w) \/ ReadOutput(w) \/ SendBotReply(w) \/ SendUnavailable(w)
    \/ CommitOutput(w) \/ CommitPersonal(w) \/ FailOutput(w) \/ Finish(w)

Control == ControlInput \/ ControlResume \/ ControlTakeover \/ ControlStop

Next ==
    \/ \E w \in Workers : ExecuteStep(w)
    \/ \E w \in Publishers : PublishStep(w)
    \/ Reconcile
    \/ Control
    \/ \E ground \in Grounds : Withdraw(ground)
    \/ \E w \in Processes : Crash(w)
    \/ \E i \in DOMAIN outbox : LeaseExpires(i) \/ Stall(i)

Spec == Init /\ [][Next]_vars

(* The pools poll every 250 ms and every wait in them is bounded; so does   *)
(* the monitor; a lease runs out by the clock.                              *)
Fairness ==
    /\ \A w \in Workers : WF_vars(ExecuteStep(w))
    /\ \A w \in Publishers : WF_vars(PublishStep(w))
    /\ WF_vars(Reconcile)
    /\ WF_vars(\E i \in DOMAIN outbox : LeaseExpires(i))

FairSpec == Spec /\ Fairness

-----------------------------------------------------------------------------
(* Properties                                                               *)

(* Every row, item and goroutine stays in its domain (model.Run,            *)
(* model.RunOutbox): in particular no path invents a status, and a busy     *)
(* goroutine holds an item that exists.                                     *)
TypeOK ==
    /\ run \in Runs
    /\ outbox \in Seq(Items)
    /\ trajectory \in Seq(Blocks)
    /\ requests \subseteq Requests
    /\ rounds \in Nat
    /\ worker \in [Processes -> Goroutines]
    /\ \A w \in Processes : At(w, "idle") \/ worker[w].item \in DOMAIN outbox
    /\ lost \subseteq AllGrounds
    /\ mailbox \in [messages : Nat, receipt : BOOLEAN]
    /\ commands \in 0 .. MaxCommands
    /\ faults \in 0 .. MaxFaults

(* A bot answers a request with at most one message, however often its      *)
(* publication is retried and whoever else publishes it at the same time    *)
(* (SendBotReply's receipt under output key "<run>:final").                 *)
AtMostOneMessage ==
    mailbox.messages <= 1 /\ (mailbox.receipt <=> mailbox.messages = 1)

(* The result of a run is the answer to everything that was accepted into   *)
(* it: an input accepted while the model was answering is never swallowed   *)
(* by the completion (BeforeModelRewriteState, runAgent's final check).     *)
ResultCoversInputs ==
    run.output \in {"generated", "pending", "committed"} =>
        /\ Last(trajectory).kind = "final"
        /\ Last(trajectory).version = run.input

(* Every accepted input enters the trajectory once and in its order,        *)
(* through crashes, replays and resumes (appendInputs).                     *)
InputsOnceInOrder ==
    LET Inputs == {i \in DOMAIN trajectory : trajectory[i].kind = "input"}
    IN /\ \A v \in 1 .. run.applied : \E i \in Inputs : trajectory[i].version = v
       /\ \A i \in Inputs : trajectory[i].version \in 1 .. run.applied
       /\ \A i, j \in Inputs : i < j => trajectory[i].version < trajectory[j].version

(* While a model request is pending nothing is added to what it has seen,   *)
(* so a later generation can send it again (modelRound, appendInputs).      *)
SnapshotFrozen ==
    \A c \in requests : c.bound = run.applied /\ c.length = Len(trajectory)

(* The budget of model calls holds across generations: a new worker inherits *)
(* the calls of the old one (modelRound counts the rows).                   *)
CallBudget == rounds <= MaxSteps

(* Past its entry and before its completion a worker may still write facts. *)
WritePoints == {"start", "restart", "agent", "round", "request", "requestFinal",
                "invoke", "inflight", "tool", "final", "generate", "queueOutput"}
MayWrite(w) ==
    worker[w].pc \in WritePoints /\ worker[w].generation = run.generation

(* Two workers never drive a run under the same generation, whatever leases *)
(* expired and whoever stalled in between (Claim, CheckExecutionLease).     *)
SingleWriter ==
    \A v, w \in Workers : MayWrite(v) /\ MayWrite(w) => v = w

(* A run that somebody should be working on has an outbox item that will    *)
(* make somebody work on it: no crash, race or control command strands it   *)
(* (requestRunStop, Control, Complete, Retry).                              *)
NeverStranded ==
    run.status \in {"accepted", "running", "stopping"} =>
        \E i \in DOMAIN outbox :
            /\ ~outbox[i].done
            /\ outbox[i].kind = "execute" \/ run.output = "pending"

(* A run is reported as succeeded only when its message exists.             *)
SucceededIsPublished ==
    run.status = "succeeded" /\ Visibility = "conversation" =>
        run.messageID /\ mailbox.receipt

(* Late workers, publishers and commands leave an ended run as it ended     *)
(* (RunRepo.change and Report refuse terminal runs).                        *)
TerminalImmutable ==
    [][TerminalRun(run) =>
        /\ run'.status = run.status /\ run'.output = run.output
        /\ run'.messageID = run.messageID /\ trajectory' = trajectory]_vars

(* Once a stop was accepted the run neither thinks nor speaks any more: no  *)
(* fact is recorded, no message sent, and it can only end.                  *)
StopHolds ==
    [][run.status = "stopping" =>
        /\ trajectory' = trajectory /\ mailbox' = mailbox /\ requests' \subseteq requests
        /\ run'.status = "stopping" \/ TerminalRun(run')]_vars

(* A result, once generated, is never computed again: replays of the        *)
(* execute item only queue or leave it (advance).                           *)
ResultNotRecomputed ==
    [][OutputQueued =>
        /\ trajectory' = trajectory /\ rounds' = rounds
        /\ run'.output \notin {"none"}
        /\ run.output = "pending" => run'.output # "generated"]_vars

(* A stop that was accepted is eventually confirmed or overtaken by an end  *)
(* of the run, also when the worker it waits for has died.                  *)
StopConverges == run.status = "stopping" ~> TerminalRun(run)

(* An accepted run always comes to an end or to a human's decision.         *)
RunConverges ==
    run.status \in {"accepted", "running"} ~>
        TerminalRun(run) \/ Parked(run)

(* To its users the run is no more than a RunPromise: the rows, leases and   *)
(* processes behind it (RunRepo, Service, SendBotReply) show nowhere.       *)
PromisedState == IF TerminalRun(run) \/ run.status = "stopping" THEN run.status ELSE "open"
Promise == INSTANCE RunPromise WITH
    Announced <- Visibility = "conversation",
    state <- PromisedState,
    published <- mailbox.receipt
KeepsPromise == Promise!Spec

(* The end-to-end check "confirmed stop published a result or reopened      *)
(* output" demands that a stopped run has no message.                       *)
StoppedPublishesNothing == run.status = "stopped" => mailbox.messages = 0

=============================================================================
