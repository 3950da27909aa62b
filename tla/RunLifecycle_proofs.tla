------------------------ MODULE RunLifecycle_proofs ------------------------
(***************************************************************************)
(* What holds of RunLifecycle for any pools, budgets, grounds and stalls.  *)
(***************************************************************************)
EXTENDS RunLifecycle, SequenceTheorems, WellFoundedInduction, TLAPS

(* A non-empty set of naturals below a bound has a greatest element: the    *)
(* newest pending request of modelRound exists.                             *)
LEMMA Greatest ==
  ASSUME NEW n \in Nat, NEW S, S \subseteq 0 .. n, S # {}
  PROVE  \E x \in S : \A y \in S : y <= x
<1> DEFINE T == {t \in Nat : t <= n /\ n - t \in S}
<1>1. T \subseteq Nat /\ T # {}
  <2>1. PICK x \in S : TRUE
    OBVIOUS
  <2>2. n - x \in T
    BY <2>1
  <2> QED
    BY <2>2
<1>2. PICK t \in T : \A u \in T : ~(<<u, t>> \in OpToRel(<, Nat))
  BY <1>1, NatLessThanWellFounded, WFMin, Zenon
<1>3. \A u \in T : ~(u < t)
  BY <1>1, <1>2 DEF OpToRel
<1>4. \A y \in S : n - y \in T
  OBVIOUS
<1>5. \A y \in S : y <= n - t
  <2> TAKE y \in S
  <2>1. ~(n - y < t)
    BY <1>3, <1>4
  <2>2. t \in Nat /\ y \in Nat
    BY <1>1
  <2> QED
    BY <2>1, <2>2
<1>6. n - t \in S
  OBVIOUS
<1> QED
  BY <1>5, <1>6

-----------------------------------------------------------------------------
(* Types                                                                    *)

(* The part of TypeOK about goroutines. *)
WorkersTyped ==
    /\ worker \in [Processes -> Goroutines]
    /\ \A w \in Processes : At(w, "idle") \/ worker[w].item \in DOMAIN outbox

(* The part of TypeOK about the rows. *)
RowsTyped ==
    /\ run \in Runs
    /\ outbox \in Seq(Items)
    /\ trajectory \in Seq(Blocks)
    /\ requests \subseteq Requests
    /\ rounds \in Nat

(* The part of TypeOK about the surroundings. *)
RestTyped ==
    /\ lost \subseteq AllGrounds
    /\ mailbox \in [messages : Nat, receipt : BOOLEAN]
    /\ commands \in 0 .. MaxCommands
    /\ faults \in 0 .. MaxFaults

(* A request's id never exceeds the number of rounds, so the newest exists.  *)
TypeInv == WorkersTyped /\ RowsTyped /\ RestTyped /\ \A c \in requests : c.id <= rounds

(* The typing invariant contains the type invariant the runs check. *)
LEMMA TypeInvTyped == TypeInv => TypeOK
  BY DEF TypeInv, TypeOK, WorkersTyped, RowsTyped, RestTyped

(* queueRun writes a row of bot.run_outbox. *)
LEMMA NewItemTyped == ASSUME NEW kind \in {"execute", "output"} PROVE NewItem(kind) \in Items
  BY DEF NewItem, Items

(* Queueing never removes an item. *)
LEMMA WakeTyped ==
  ASSUME outbox \in Seq(Items), NEW needed
  PROVE  Wake(needed) \in Seq(Items) /\ DOMAIN outbox \subseteq DOMAIN Wake(needed)
  BY NewItemTyped DEF Wake

(* Generations and input versions stay natural numbers. *)
LEMMA CountersTyped ==
  ASSUME NEW r \in Runs
  PROVE  r.generation + 1 \in Nat /\ r.input + 1 \in Nat
  BY DEF Runs

(* A claim leaves a row of bot.runs. *)
LEMMA ClaimRunTyped == ASSUME NEW r \in Runs PROVE ClaimRun(r) \in Runs
<1> DEFINE executor == IF r.executor # "lost" /\ r.status # "stopping"
                       THEN "accepted" ELSE r.executor
<1>1. r.generation + 1 \in Nat /\ executor \in ExecutorStatuses
  BY DEF Runs, ExecutorStatuses
<1>2. ClaimRun(r) = IF r.status \in {"accepted", "running", "stopping"}
                    THEN [r EXCEPT !.generation = r.generation + 1, !.executor = executor]
                    ELSE r
  BY DEF ClaimRun
<1> HIDE DEF executor
<1> QED
  BY <1>1, <1>2 DEF Runs

(* A failure leaves a row of bot.runs. *)
LEMMA FailedRunTyped == ASSUME NEW r \in Runs, NEW output PROVE FailedRun(r, output) \in Runs
  BY DEF FailedRun, Runs, Statuses, OutputStatuses

(* Applying the accepted inputs leaves a row of bot.runs. *)
LEMMA ApplyInputsTyped == ASSUME NEW r \in Runs PROVE ApplyInputs(r) \in Runs
  BY DEF ApplyInputs, Runs

(* requestRunStop leaves a row of bot.runs, whatever branch it takes. *)
LEMMA RequestStopTyped ==
  ASSUME NEW r \in Runs, NEW reason \in StopReasons
  PROVE  RequestStop(r, reason).row \in Runs
<1> DEFINE completed == [r EXCEPT !.reason = "completed_before_stop",
                                  !.status = "succeeded", !.output = "committed",
                                  !.messageID = TRUE]
           revoked == [r EXCEPT !.reason = "completed_before_stop",
                                !.status = "failed", !.output = "failed"]
           noted == [r EXCEPT !.reason = "completed_before_stop"]
           again == [r EXCEPT !.reason = reason, !.status = "stopping", !.waiting = FALSE]
           first == [r EXCEPT !.status = "stopping", !.waiting = FALSE,
                              !.stop = "requested", !.reason = reason]
<1>1. completed \in Runs
  BY DEF Runs, Statuses, OutputStatuses, StopReasons
<1>2. revoked \in Runs /\ noted \in Runs
  BY DEF Runs, Statuses, OutputStatuses, StopReasons
<1>3. again \in Runs
  BY DEF Runs, Statuses
<1>4. first \in Runs
  BY DEF Runs, Statuses, StopStatuses
<1>5. RequestStop(r, reason).row \in {completed, revoked, noted, r, again, first}
  BY DEF RequestStop
<1> HIDE DEF completed, revoked, noted, again, first
<1> QED
  BY <1>1, <1>2, <1>3, <1>4, <1>5

(* appendInputs appends rows of bot.run_trajectory. *)
LEMMA PendingInputsTyped ==
  ASSUME NEW r \in Runs
  PROVE  PendingInputs(r) \in Seq(Blocks)
<1>1. CASE requests # {}
  BY <1>1 DEF PendingInputs
<1>2. CASE requests = {}
  <2> DEFINE n == r.input - r.applied
             f == [i \in 1 .. n |-> [kind |-> "input", version |-> r.applied + i]]
  <2>1. r.input \in Nat /\ r.applied \in Nat
    BY DEF Runs
  <2>2. \A i \in 1 .. n : [kind |-> "input", version |-> r.applied + i] \in Blocks
    BY <2>1 DEF Blocks
  <2>3. CASE n \in Nat
    BY <2>2, <2>3, <1>2, IsASeq DEF PendingInputs
  <2>4. CASE n \notin Nat
    <3>1. 1 .. n = {}
      BY <2>1, <2>4
    <3>2. f = << >>
      BY <3>1
    <3>3. PendingInputs(r) = f
      BY <1>2 DEF PendingInputs
    <3> HIDE DEF f
    <3> QED
      BY <3>2, <3>3
  <2> QED
    BY <2>3, <2>4
<1> QED
  BY <1>1, <1>2

(* A step of a busy goroutine that keeps its item. *)
LEMMA GotoTyped ==
  ASSUME WorkersTyped, NEW w \in Processes, ~At(w, "idle"),
         DOMAIN outbox \subseteq DOMAIN outbox',
         NEW pc \in Points, NEW err \in Errors,
         Goto(w, pc) \/ Return(w, pc, err)
  PROVE  WorkersTyped'
<1>1. worker[w] \in Goroutines /\ worker[w].item \in DOMAIN outbox
  BY DEF WorkersTyped, At
<1>2. worker' \in [Processes -> Goroutines]
  BY <1>1 DEF WorkersTyped, Goto, Return, Goroutines
<1>3. \A v \in Processes : worker'[v].item = worker[v].item
  BY <1>1 DEF WorkersTyped, Goto, Return, Goroutines
<1>4. \A v \in Processes : v = w \/ worker'[v] = worker[v]
  BY <1>1 DEF WorkersTyped, Goto, Return, Goroutines
<1> QED
  BY <1>1, <1>2, <1>3, <1>4 DEF WorkersTyped, At

-----------------------------------------------------------------------------
(* Every action keeps the types                                             *)

(* Steps that move a goroutine and touch no row. *)
LEMMA MoveTyped ==
  ASSUME TypeInv, NEW w \in Processes, ~At(w, "idle"),
         NEW pc \in Points, NEW err \in Errors,
         Goto(w, pc) \/ Return(w, pc, err),
         UNCHANGED <<run, outbox, trajectory, requests, rounds, lost, mailbox, commands, faults>>
  PROVE  TypeInv'
<1>1. WorkersTyped'
  BY GotoTyped DEF TypeInv
<1> QED
  BY <1>1 DEF TypeInv, RowsTyped, RestTyped

(* A busy goroutine that also changes what it remembers, but not its item.  *)
LEMMA StepTyped ==
  ASSUME WorkersTyped, NEW w \in Processes, ~At(w, "idle"),
         DOMAIN outbox \subseteq DOMAIN outbox',
         NEW g \in Goroutines, g.item = worker[w].item,
         worker' = [worker EXCEPT ![w] = g]
  PROVE  WorkersTyped'
<1>1. worker' \in [Processes -> Goroutines]
  BY DEF WorkersTyped
<1>2. \A v \in Processes : worker'[v].item = worker[v].item
                         /\ (v = w \/ worker'[v] = worker[v])
  BY DEF WorkersTyped
<1> QED
  BY <1>1, <1>2 DEF WorkersTyped, At

(* execute only moves its goroutine. *)
LEMMA EnterTyped ==
  ASSUME TypeInv, NEW w \in Processes, Enter(w)
  PROVE  TypeInv'
<1>1. ~At(w, "idle")
  BY DEF Enter, At
<1>2. CASE worker' = [worker EXCEPT ![w].pc = "confirm", ![w].generation = 0]
  <2> DEFINE g == [worker[w] EXCEPT !.pc = "confirm", !.generation = 0]
  <2>1. g \in Goroutines /\ g.item = worker[w].item
    BY DEF TypeInv, WorkersTyped, Goroutines, Points, ExecutePoints
  <2>2. worker' = [worker EXCEPT ![w] = g]
    BY <1>2
  <2>3. WorkersTyped'
    BY <1>1, <2>1, <2>2, StepTyped DEF TypeInv, Enter
  <2> QED
    BY <2>3 DEF TypeInv, RowsTyped, RestTyped, Enter
<1>3. CASE worker' # [worker EXCEPT ![w].pc = "confirm", ![w].generation = 0]
  <2>1. Advance \in Points
    BY DEF Advance, FirstStep, Points, ExecutePoints
  <2>2. \E pc \in Points, err \in Errors : Goto(w, pc) \/ Return(w, pc, err)
    BY <1>3, <2>1 DEF Enter, Points, ExecutePoints, Errors
  <2> QED
    BY <1>1, <2>2, MoveTyped DEF Enter
<1> QED
  BY <1>2, <1>3

(* Reconciliation keeps every type. *)
LEMMA ReconcileTyped ==
  ASSUME TypeInv, Reconcile
  PROVE  TypeInv'
<1>1. CASE ReconcileLease
  <2>1. run' \in Runs
    BY <1>1 DEF ReconcileLease, TypeInv, RowsTyped, Runs, ExecutorStatuses, StopStatuses
  <2> QED
    BY <1>1, <2>1 DEF ReconcileLease, TypeInv, WorkersTyped, RowsTyped, RestTyped, At
<1>2. CASE ReconcileController
  <2>1. run.generation + 1 \in Nat
    BY CountersTyped DEF TypeInv, RowsTyped
  <2>2. run' \in Runs
    BY <1>2, <2>1 DEF ReconcileController, TypeInv, RowsTyped, Runs, Statuses
  <2> QED
    BY <1>2, <2>2 DEF ReconcileController, TypeInv, WorkersTyped, RowsTyped, RestTyped, At
<1>3. CASE ReconcileRevocation
  <2> DEFINE marked == [run EXCEPT !.revoked = TRUE]
             stopped == RequestStop(marked, AuthorityReason)
  <2>1. marked \in Runs
    BY DEF TypeInv, RowsTyped, Runs
  <2>2. AuthorityReason \in StopReasons
    BY <1>3 DEF ReconcileRevocation, AuthorityReason, TypeInv, RowsTyped, Runs, StopReasons
  <2>3. run' \in Runs
    BY <1>3, <2>1, <2>2, RequestStopTyped DEF ReconcileRevocation
  <2>4. outbox' \in Seq(Items) /\ DOMAIN outbox \subseteq DOMAIN outbox'
    BY <1>3, WakeTyped DEF ReconcileRevocation, TypeInv, RowsTyped
  <2> QED
    BY <1>3, <2>3, <2>4 DEF ReconcileRevocation, TypeInv, WorkersTyped, RowsTyped, RestTyped, At
<1> QED
  BY <1>1, <1>2, <1>3 DEF Reconcile

(* The commands of the users keep every type. *)
LEMMA ControlTyped ==
  ASSUME TypeInv, Control
  PROVE  TypeInv'
<1> USE DEF TypeInv
<1>0. /\ commands' \in 0 .. MaxCommands /\ faults' = faults /\ mailbox' = mailbox
      /\ trajectory' = trajectory /\ rounds' = rounds /\ worker' = worker
      /\ requests' \subseteq requests /\ lost' \subseteq lost
  <2>1. Command => commands' \in 0 .. MaxCommands
    BY BoundsAssumption DEF Command, RestTyped
  <2>2. CASE ControlInput
    BY <2>1, <2>2 DEF ControlInput
  <2>3. CASE ControlResume
    BY <2>1, <2>3 DEF ControlResume
  <2>4. CASE ControlTakeover
    BY <2>1, <2>4 DEF ControlTakeover
  <2>5. CASE ControlStop
    BY <2>1, <2>5 DEF ControlStop
  <2> QED
    BY <2>2, <2>3, <2>4, <2>5 DEF Control
<1>1. run' \in Runs
  <2>0. run.generation + 1 \in Nat /\ run.input + 1 \in Nat
    BY CountersTyped DEF RowsTyped
  <2>1. CASE ControlInput
    <3> DEFINE waiting == run.status # "waiting_input" /\ run.waiting
    <3>1. waiting \in BOOLEAN
      OBVIOUS
    <3>2. run' = [run EXCEPT !.input = run.input + 1,
                   !.status = IF run.status = "waiting_input" THEN "running" ELSE run.status,
                   !.waiting = waiting]
      BY <2>1 DEF ControlInput
    <3> HIDE DEF waiting
    <3> QED
      BY <2>0, <3>1, <3>2 DEF RowsTyped, Runs, Statuses
  <2>2. CASE ControlResume
    BY <2>0, <2>2 DEF ControlResume, RowsTyped, Runs, Statuses, ExecutorStatuses
  <2>3. CASE ControlTakeover
    <3>1. \/ run' = [run EXCEPT !.stop = "none", !.reason = "",
                               !.status = "accepted", !.waiting = FALSE]
          \/ run' = run
      BY <2>3 DEF ControlTakeover
    <3>2. run \in Runs
      BY DEF RowsTyped
    <3> QED
      BY ZenonT(60), <3>1, <3>2 DEF Runs, Statuses, StopStatuses, StopReasons
  <2>4. CASE ControlStop
    <3>1. CASE TerminalRun(run)
      BY ZenonT(60), <2>4, <3>1 DEF ControlStop, RowsTyped, Runs, StopReasons
    <3>2. CASE ~TerminalRun(run)
      BY <2>4, <3>2, RequestStopTyped DEF ControlStop, RowsTyped, StopReasons
    <3> QED
      BY <3>1, <3>2
  <2> QED
    BY <2>1, <2>2, <2>3, <2>4 DEF Control
<1>2. outbox' \in Seq(Items) /\ DOMAIN outbox \subseteq DOMAIN outbox'
  <2>1. \A needed : Wake(needed) \in Seq(Items) /\ DOMAIN outbox \subseteq DOMAIN Wake(needed)
    BY WakeTyped DEF RowsTyped
  <2>2. CASE ControlInput
    BY <2>1, <2>2, Zenon DEF ControlInput
  <2>3. CASE ControlResume
    BY <2>1, <2>3, Zenon DEF ControlResume
  <2>4. CASE ControlTakeover
    BY <2>1, <2>4, Zenon DEF ControlTakeover, RowsTyped
  <2>5. CASE ControlStop
    BY <2>1, <2>5, Zenon DEF ControlStop, RowsTyped
  <2> QED
    BY <2>2, <2>3, <2>4, <2>5 DEF Control
<1> QED
  BY <1>0, <1>1, <1>2 DEF WorkersTyped, RowsTyped, RestTyped, At

(* Steps that move a goroutine and write rows; no request is added.          *)
LEMMA WriteTyped ==
  ASSUME TypeInv, NEW w \in Processes, ~At(w, "idle"),
         \E pc \in Points, err \in Errors : Goto(w, pc) \/ Return(w, pc, err),
         run' \in Runs, trajectory' \in Seq(Blocks), requests' \subseteq requests,
         outbox' = outbox, rounds' = rounds, RestTyped'
  PROVE  TypeInv'
<1>1. WorkersTyped'
  BY GotoTyped DEF TypeInv
<1> QED
  BY <1>1 DEF TypeInv, RowsTyped

(* A refused transaction answers an error execute knows. *)
LEMMA RefusalTyped == ASSUME NEW g PROVE Refusal(g) \in Errors
  BY DEF Refusal, Errors

(* A claim hands out an existing item. *)
LEMMA ClaimTyped ==
  ASSUME TypeInv, NEW w \in Processes, Claim(w)
  PROVE  TypeInv'
<1> USE DEF TypeInv
<1> DEFINE claimed == IF KindOf(w) = "execute" THEN ClaimRun(run) ELSE run
           generation(i) == IF claimed # run THEN claimed.generation
                            ELSE outbox[i].generation
           item(i) == [outbox[i] EXCEPT !.holder = w, !.live = TRUE,
                                        !.generation = generation(i)]
           busy(i) == [Idle EXCEPT !.pc = IF w \in Workers THEN "enter" ELSE "read",
                                   !.item = i, !.generation = generation(i)]
<1>1. PICK i \in DOMAIN outbox :
         /\ run' = claimed
         /\ outbox' = [outbox EXCEPT ![i].holder = w, ![i].live = TRUE,
                                     ![i].generation = generation(i)]
         /\ worker' = [worker EXCEPT ![w] = busy(i)]
  BY DEF Claim
<1>2. claimed \in Runs
  BY ClaimRunTyped DEF RowsTyped
<1>3. outbox[i] \in Items /\ i \in Nat
  BY DEF RowsTyped
<1>4. generation(i) \in Nat
  BY <1>2, <1>3 DEF Runs, Items
<1> HIDE DEF claimed, generation
<1>5. item(i) \in Items
  BY <1>3, <1>4 DEF Items, Processes
<1>6. busy(i) \in Goroutines
  BY <1>3, <1>4 DEF Idle, Goroutines, Points, ExecutePoints, OutputPoints, Errors
<1>7. outbox' \in Seq(Items) /\ DOMAIN outbox' = DOMAIN outbox
  <2>1. outbox' = [outbox EXCEPT ![i] = item(i)]
    BY <1>1
  <2> HIDE DEF item
  <2> QED
    BY <1>5, <2>1 DEF RowsTyped
<1>8. WorkersTyped'
  <2>1. busy(i).item = i
    BY DEF Idle
  <2> HIDE DEF busy
  <2> QED
    BY <1>1, <1>6, <1>7, <2>1 DEF WorkersTyped, At
<1> QED
  BY <1>1, <1>2, <1>7, <1>8 DEF Claim, RowsTyped, RestTyped

(* Complete and Retry keep every type. *)
LEMMA FinishTyped ==
  ASSUME TypeInv, NEW w \in Processes, Finish(w)
  PROVE  TypeInv'
<1> USE DEF TypeInv
<1> DEFINE i == worker[w].item
           done == outbox[i].done \/ worker[w].err = "none"
           released == [outbox[i] EXCEPT !.holder = "none", !.live = FALSE, !.done = done]
<1>1. i \in DOMAIN outbox
  BY DEF Finish, WorkersTyped, At
<1>2. released \in Items
  <2>1. done \in BOOLEAN
    OBVIOUS
  <2>2. outbox[i] \in Items
    BY <1>1 DEF RowsTyped
  <2> HIDE DEF done, i
  <2> QED
    BY <2>1, <2>2 DEF Items
<1>3. outbox' \in {outbox, [outbox EXCEPT ![i] = released]}
  BY <1>1 DEF Finish, RowsTyped
<1> HIDE DEF released
<1>4. outbox' \in Seq(Items) /\ DOMAIN outbox' = DOMAIN outbox
  BY <1>1, <1>2, <1>3 DEF RowsTyped
<1>5. Idle \in Goroutines /\ Idle.pc = "idle"
  BY DEF Idle, Goroutines, Points, ExecutePoints, Errors
<1>6. WorkersTyped'
  BY <1>4, <1>5 DEF Finish, WorkersTyped, At
<1> QED
  BY <1>4, <1>6 DEF Finish, RowsTyped, RestTyped

(* The first transaction of a run keeps every type. *)
LEMMA StartTyped ==
  ASSUME TypeInv, NEW w \in Processes, Start(w) \/ Restart(w)
  PROVE  TypeInv'
<1>1. ~At(w, "idle")
  BY DEF Start, Restart, At
<1>2. \E pc \in Points, err \in Errors : Goto(w, pc) \/ Return(w, pc, err)
  BY RefusalTyped DEF Start, Restart, Points, ExecutePoints, Errors
<1>3. run' \in Runs
  <2> DEFINE started == [run EXCEPT !.status = "running", !.executor = "accepted"]
  <2>1. started \in Runs
    BY DEF TypeInv, RowsTyped, Runs, Statuses, ExecutorStatuses
  <2>2. run' \in {run, started, ApplyInputs(started)}
    BY DEF Start, Restart
  <2> HIDE DEF started
  <2> QED
    BY <2>1, <2>2, ApplyInputsTyped DEF TypeInv, RowsTyped
<1>4. trajectory' \in Seq(Blocks)
  <2>1. PendingInputs(run) \in Seq(Blocks)
    BY PendingInputsTyped DEF TypeInv, RowsTyped
  <2>2. <<[kind |-> "system", version |-> 0]>> \in Seq(Blocks)
    BY DEF Blocks
  <2>3. <<[kind |-> "system", version |-> 0]>> \o PendingInputs(run) \in Seq(Blocks)
    BY <2>1, <2>2, ConcatProperties
  <2> QED
    BY <2>3 DEF Start, Restart, TypeInv, RowsTyped
<1> QED
  BY <1>1, <1>2, <1>3, <1>4, WriteTyped DEF Start, Restart, TypeInv, RestTyped

(* Pausing and appending inputs keep every type. *)
LEMMA BeforeModelTyped ==
  ASSUME TypeInv, NEW w \in Processes, BeforeModel(w)
  PROVE  TypeInv'
<1>1. ~At(w, "idle")
  BY DEF BeforeModel, AtBoundary, At
<1>2. run' \in Runs
  <2>1. run' \in {run, [run EXCEPT !.status = "waiting_input"], ApplyInputs(run)}
    BY DEF BeforeModel
  <2> QED
    BY <2>1, ApplyInputsTyped DEF TypeInv, RowsTyped, Runs, Statuses
<1>3. trajectory' \in Seq(Blocks)
  <2>1. PendingInputs(run) \in Seq(Blocks) /\ trajectory \in Seq(Blocks)
    BY PendingInputsTyped DEF TypeInv, RowsTyped
  <2>2. trajectory \o PendingInputs(run) \in Seq(Blocks)
    BY <2>1, ConcatProperties
  <2>3. trajectory' \in {trajectory, trajectory \o PendingInputs(run)}
    BY DEF BeforeModel
  <2> QED
    BY <2>1, <2>2, <2>3
<1>4. WorkersTyped'
  <2>1. CASE \E pc \in Points, err \in Errors : Goto(w, pc) \/ Return(w, pc, err)
    BY <1>1, <2>1, GotoTyped DEF BeforeModel, TypeInv
  <2>2. CASE \E pc \in Points : worker' = [worker EXCEPT ![w].pc = pc, ![w].view = Len(trajectory')]
    <3>1. PICK pc \in Points : worker' = [worker EXCEPT ![w].pc = pc, ![w].view = Len(trajectory')]
      BY <2>2
    <3> DEFINE g == [worker[w] EXCEPT !.pc = pc, !.view = Len(trajectory')]
    <3>0. Len(trajectory') \in Nat
      BY <1>3, LenProperties
    <3>2. g \in Goroutines /\ g.item = worker[w].item
      BY <3>0 DEF TypeInv, WorkersTyped, Goroutines
    <3>3. worker' = [worker EXCEPT ![w] = g]
      BY <3>1
    <3> HIDE DEF g
    <3> QED
      BY <1>1, <3>2, <3>3, StepTyped DEF BeforeModel, TypeInv
  <2> QED
    BY <2>1, <2>2, RefusalTyped DEF BeforeModel, Points, ExecutePoints, Errors
<1> QED
  BY <1>4, <1>2, <1>3 DEF BeforeModel, TypeInv, RowsTyped, RestTyped

(* The pending request a new generation takes over exists. *)
LEMMA NewestIn ==
  ASSUME TypeInv, requests # {}
  PROVE  Newest(requests) \in requests
<1> DEFINE S == {c.id : c \in requests}
<1>1. \A c \in requests : c.id \in 0 .. rounds
  BY DEF TypeInv, RowsTyped, Requests
<1>2. S \subseteq 0 .. rounds /\ S # {}
  BY <1>1
<1>3. rounds \in Nat
  BY DEF TypeInv, RowsTyped
<1>4. PICK x \in S : \A y \in S : y <= x
  BY <1>2, <1>3, Greatest
<1>5. PICK c \in requests : c.id = x
  OBVIOUS
<1>6. \A d \in requests : d.id <= c.id
  BY <1>4, <1>5
<1> QED
  BY <1>5, <1>6 DEF Newest

(* Choosing the request of a round keeps every type. *)
LEMMA PrepareRequestTyped ==
  ASSUME TypeInv, NEW w \in Processes, PrepareRequest(w)
  PROVE  TypeInv'
<1>1. ~At(w, "idle")
  BY DEF PrepareRequest, At
<1>2. CASE \E pc \in Points, err \in Errors : Goto(w, pc) \/ Return(w, pc, err)
  BY <1>1, <1>2, MoveTyped DEF PrepareRequest
<1>3. CASE /\ requests # {}
           /\ worker' = [worker EXCEPT ![w].pc = "invoke", ![w].request = Newest(requests).id]
  <2> DEFINE g == [worker[w] EXCEPT !.pc = "invoke", !.request = Newest(requests).id]
  <2>1. Newest(requests).id \in Nat
    BY <1>3, NewestIn DEF TypeInv, RowsTyped, Requests
  <2>2. g \in Goroutines /\ g.item = worker[w].item
    BY <2>1 DEF TypeInv, WorkersTyped, Goroutines, Points, ExecutePoints
  <2>3. worker' = [worker EXCEPT ![w] = g]
    BY <1>3
  <2> HIDE DEF g
  <2>4. WorkersTyped'
    BY <1>1, <2>2, <2>3, StepTyped DEF PrepareRequest, TypeInv
  <2> QED
    BY <2>4 DEF PrepareRequest, TypeInv, RowsTyped, RestTyped
<1> QED
  BY <1>2, <1>3 DEF PrepareRequest, Points, ExecutePoints, Errors

(* Freezing a request keeps every type, and its id is the newest round. *)
LEMMA CreateRequestTyped ==
  ASSUME TypeInv, NEW w \in Processes, CreateRequest(w)
  PROVE  TypeInv'
<1> DEFINE new == [id |-> rounds + 1, bound |-> run.applied,
                   length |-> Len(trajectory), tools |-> At(w, "request")]
<1>1. ~At(w, "idle")
  BY DEF CreateRequest, At
<1>2. CASE requests' = requests \cup {new} /\ rounds' = rounds + 1
           /\ worker' = [worker EXCEPT ![w].pc = "invoke", ![w].request = rounds + 1]
  <2> DEFINE g == [worker[w] EXCEPT !.pc = "invoke", !.request = rounds + 1]
  <2>1. rounds \in Nat /\ rounds + 1 \in Nat /\ run.applied \in Nat /\ Len(trajectory) \in Nat
    BY LenProperties DEF TypeInv, RowsTyped, Runs
  <2>2. new \in Requests
    <3>1. At(w, "request") \in BOOLEAN
      BY DEF At
    <3> QED
      BY <2>1, <3>1 DEF Requests
  <2>3. g \in Goroutines /\ g.item = worker[w].item
    BY <2>1 DEF TypeInv, WorkersTyped, Goroutines, Points, ExecutePoints
  <2>4. worker' = [worker EXCEPT ![w] = g]
    BY <1>2
  <2> HIDE DEF g
  <2>5. WorkersTyped'
    BY <1>1, <2>3, <2>4, StepTyped DEF CreateRequest, TypeInv
  <2>6. \A c \in requests' : c.id <= rounds'
    BY <1>2, <2>1 DEF TypeInv, RowsTyped, Requests
  <2> HIDE DEF new
  <2> QED
    BY <1>2, <2>1, <2>2, <2>5, <2>6 DEF CreateRequest, TypeInv, RowsTyped, RestTyped
<1>3. CASE (\E err \in Errors : Return(w, "post", err)) /\ UNCHANGED <<requests, rounds>>
  BY <1>1, <1>3, MoveTyped DEF CreateRequest, Points, ExecutePoints
<1> QED
  BY <1>2, <1>3, RefusalTyped DEF CreateRequest, Errors

(* Recording an answer keeps every type. *)
LEMMA RespondTyped ==
  ASSUME TypeInv, NEW w \in Processes, NEW kind \in {"final", "ask"}, Respond(w, kind)
  PROVE  TypeInv'
<1> DEFINE mine == {c \in requests : c.id = worker[w].request}
           answer == [kind |-> kind, version |-> Newest(mine).bound]
<1>1. ~At(w, "idle")
  BY DEF Respond, At
<1>2. \E pc \in Points, err \in Errors : Goto(w, pc) \/ Return(w, pc, err)
  BY RefusalTyped DEF Respond, Points, ExecutePoints, Errors
<1>3. mine # {} => answer \in Blocks
  <2> SUFFICES ASSUME mine # {} PROVE answer \in Blocks
    OBVIOUS
  <2>1. \A c, d \in mine : c.id \in Nat /\ d.id = c.id
    BY DEF TypeInv, RowsTyped, Requests
  <2>2. \A c, d \in mine : d.id <= c.id
    BY <2>1
  <2>3. Newest(mine) \in mine
    BY <2>2 DEF Newest
  <2> QED
    BY <2>3 DEF TypeInv, RowsTyped, Requests, Blocks
<1>4. \/ trajectory' = trajectory
      \/ mine # {} /\ trajectory' = Append(trajectory, answer)
  BY DEF Respond
<1>5. trajectory' \in Seq(Blocks)
  <2> HIDE DEF answer, mine
  <2> QED
    BY <1>3, <1>4, AppendProperties DEF TypeInv, RowsTyped
<1>6. requests' \subseteq requests
  BY DEF Respond
<1>7. RestTyped' /\ UNCHANGED <<run, outbox, rounds>>
  BY DEF Respond, TypeInv, RestTyped
<1> QED
  BY <1>1, <1>2, <1>5, <1>6, <1>7, WriteTyped DEF TypeInv, RowsTyped

(* Recording a question to the user keeps every type. *)
LEMMA AskForInputTyped ==
  ASSUME TypeInv, NEW w \in Processes, AskForInput(w)
  PROVE  TypeInv'
<1>1. ~At(w, "idle")
  BY DEF AskForInput, AtBoundary, At
<1>2. \E pc \in Points, err \in Errors : Goto(w, pc) \/ Return(w, pc, err)
  BY RefusalTyped DEF AskForInput, Points, ExecutePoints, Errors
<1>3. run' \in Runs /\ run.applied \in Nat
  BY DEF AskForInput, TypeInv, RowsTyped, Runs
<1>4. [kind |-> "result", version |-> run.applied] \in Blocks
  BY <1>3 DEF Blocks
<1>5. trajectory' \in Seq(Blocks)
  <2> DEFINE answer == [kind |-> "result", version |-> run.applied]
  <2>1. trajectory' = trajectory \/ trajectory' = Append(trajectory, answer)
    BY DEF AskForInput
  <2>2. answer \in Blocks /\ trajectory \in Seq(Blocks)
    BY <1>4 DEF TypeInv, RowsTyped
  <2> HIDE DEF answer
  <2> QED
    BY <2>1, <2>2, AppendProperties
<1>6. RestTyped' /\ UNCHANGED <<outbox, requests, rounds>>
  BY DEF AskForInput, TypeInv, RestTyped
<1> QED
  BY <1>1, <1>2, <1>3, <1>5, <1>6, WriteTyped

(* Steps of a worker that touch no row, or move no goroutine anew. *)
LEMMA WorkerMovesTyped ==
  ASSUME TypeInv, NEW w \in Processes,
         Invoke(w) \/ RespondError(w) \/ FinalCheck(w) \/ Post(w) \/ ReadOutput(w)
  PROVE  TypeInv'
<1>1. ~At(w, "idle")
  BY DEF Invoke, RespondError, FinalCheck, Post, ReadOutput, AtBoundary, At
<1>2. \E pc \in Points, err \in Errors : Goto(w, pc) \/ Return(w, pc, err)
  BY RefusalTyped DEF Invoke, RespondError, FinalCheck, Post, ReadOutput,
     Points, ExecutePoints, OutputPoints, Errors
<1>3. UNCHANGED <<run, outbox, trajectory, requests, rounds, lost, mailbox, commands, faults>>
  BY DEF Invoke, RespondError, FinalCheck, Post, ReadOutput
<1> QED
  BY <1>1, <1>2, <1>3, MoveTyped

(* The transactions that stop or fail a run keep every type. *)
LEMMA EndingsTyped ==
  ASSUME TypeInv, NEW w \in Processes,
         ConfirmStop(w) \/ Fail(w) \/ FailOutput(w)
  PROVE  TypeInv'
<1>1. ~At(w, "idle")
  BY DEF ConfirmStop, Fail, FailOutput, At
<1>2. \E pc \in Points, err \in Errors : Goto(w, pc) \/ Return(w, pc, err)
  BY DEF ConfirmStop, Fail, FailOutput, Points, ExecutePoints, OutputPoints, Errors
<1>3. run' \in Runs
  <2>1. CASE ConfirmStop(w)
    BY ZenonT(60), <2>1 DEF ConfirmStop, TypeInv, RowsTyped, Runs, Statuses, StopStatuses,
       ExecutorStatuses, OutputStatuses
  <2>2. CASE Fail(w) \/ FailOutput(w)
    BY <2>2, FailedRunTyped DEF Fail, FailOutput, TypeInv, RowsTyped
  <2> QED
    BY <2>1, <2>2
<1>4. /\ requests' \subseteq requests
      /\ UNCHANGED <<outbox, trajectory, rounds, lost, mailbox, commands, faults>>
  BY DEF ConfirmStop, Fail, FailOutput
<1> QED
  BY <1>1, <1>2, <1>3, <1>4, WriteTyped DEF TypeInv, RowsTyped, RestTyped

(* The transactions that complete or commit a run keep every type. *)
LEMMA OutcomesTyped ==
  ASSUME TypeInv, NEW w \in Processes,
         Generate(w) \/ CommitOutput(w) \/ CommitPersonal(w)
  PROVE  TypeInv'
<1>1. ~At(w, "idle")
  BY DEF Generate, CommitOutput, CommitPersonal, At
<1>2. \E pc \in Points, err \in Errors : Goto(w, pc) \/ Return(w, pc, err)
  BY DEF Generate, CommitOutput, CommitPersonal, Points, ExecutePoints, OutputPoints, Errors
<1>3. run' \in Runs
  <2>1. CASE Generate(w)
    BY ZenonT(60), <2>1 DEF Generate, TypeInv, RowsTyped, Runs, ExecutorStatuses, OutputStatuses
  <2>2. \A id \in BOOLEAN : SucceededRun(run, id) \in Runs
    BY DEF SucceededRun, TypeInv, RowsTyped, Runs, Statuses, OutputStatuses
  <2>3. CASE CommitOutput(w) \/ CommitPersonal(w)
    BY <2>2, <2>3 DEF CommitOutput, CommitPersonal, TypeInv, RowsTyped
  <2> QED
    BY <2>1, <2>3
<1>4. UNCHANGED <<outbox, trajectory, requests, rounds, lost, mailbox, commands, faults>>
  BY DEF Generate, CommitOutput, CommitPersonal
<1> QED
  BY <1>1, <1>2, <1>3, <1>4, WriteTyped DEF TypeInv, RowsTyped, RestTyped

(* Queueing the output keeps every type. *)
LEMMA QueueOutputTyped ==
  ASSUME TypeInv, NEW w \in Processes, QueueOutput(w)
  PROVE  TypeInv'
<1>1. ~At(w, "idle")
  BY DEF QueueOutput, At
<1>2. outbox' \in Seq(Items) /\ DOMAIN outbox \subseteq DOMAIN outbox'
  <2>1. outbox \in Seq(Items) /\ NewItem("output") \in Items
    BY NewItemTyped DEF TypeInv, RowsTyped
  <2>2. outbox' = outbox \/ outbox' = Append(outbox, NewItem("output"))
    BY DEF QueueOutput
  <2>3. CASE outbox' = outbox
    BY <2>1, <2>3
  <2>4. CASE outbox' = Append(outbox, NewItem("output"))
    BY <2>1, <2>4
  <2> QED
    BY <2>2, <2>3, <2>4
<1>3. \E pc \in Points, err \in Errors : Goto(w, pc) \/ Return(w, pc, err)
  BY RefusalTyped DEF QueueOutput, Points, ExecutePoints, Errors
<1>4. WorkersTyped'
  BY <1>1, <1>2, <1>3, GotoTyped DEF TypeInv
<1>5. run' \in Runs
  BY DEF QueueOutput, TypeInv, RowsTyped, Runs, OutputStatuses
<1> QED
  BY <1>2, <1>4, <1>5 DEF QueueOutput, TypeInv, RowsTyped, RestTyped

(* Sending the message keeps every type, whether its reply arrives or not. *)
LEMMA SendTyped ==
  ASSUME TypeInv, NEW w \in Processes, SendBotReply(w) \/ SendUnavailable(w)
  PROVE  TypeInv'
<1>1. ~At(w, "idle")
  BY DEF SendBotReply, SendUnavailable, At
<1>2. \E pc \in Points, err \in Errors : Goto(w, pc) \/ Return(w, pc, err)
  BY DEF SendBotReply, SendUnavailable, Points, OutputPoints, ExecutePoints, Errors
<1>3. mailbox' \in [messages : Nat, receipt : BOOLEAN]
  <2>1. mailbox.messages + 1 \in Nat
    BY DEF TypeInv, RestTyped
  <2>2. Deliver \in [messages : Nat, receipt : BOOLEAN]
    BY <2>1 DEF Deliver, TypeInv, RestTyped
  <2> QED
    BY <2>2 DEF SendBotReply, SendUnavailable, TypeInv, RestTyped
<1>4. faults' \in 0 .. MaxFaults
  BY BoundsAssumption DEF SendBotReply, SendUnavailable, TypeInv, RestTyped
<1>5. UNCHANGED <<run, outbox, trajectory, requests, rounds, lost, commands>>
  BY DEF SendBotReply, SendUnavailable
<1> QED
  BY <1>1, <1>2, <1>3, <1>4, <1>5, WriteTyped DEF TypeInv, RowsTyped, RestTyped

(* Withdrawals, crashes and leases that end keep every type. *)
LEMMA EnvironmentTyped ==
  ASSUME TypeInv,
         \/ \E ground \in Grounds : Withdraw(ground)
         \/ \E w \in Processes : Crash(w)
         \/ \E i \in DOMAIN outbox : LeaseExpires(i) \/ Stall(i)
  PROVE  TypeInv'
<1> USE DEF TypeInv, RowsTyped, RestTyped
<1>1. CASE \E ground \in Grounds : Withdraw(ground)
  BY <1>1, GroundsAssumption DEF Withdraw, WorkersTyped, At
<1>2. CASE \E w \in Processes : Crash(w)
  <2>0. PICK w \in Processes : Crash(w)
    BY <1>2
  <2>1. Idle \in Goroutines /\ Idle.pc = "idle"
    BY DEF Idle, Goroutines, Points, ExecutePoints, Errors
  <2>2. faults' \in 0 .. MaxFaults
    BY <2>0, BoundsAssumption DEF Crash
  <2> QED
    BY <2>0, <2>1, <2>2 DEF Crash, WorkersTyped, At
<1>3. CASE \E i \in DOMAIN outbox : LeaseExpires(i) \/ Stall(i)
  <2>1. PICK i \in DOMAIN outbox : outbox' = [outbox EXCEPT ![i].live = FALSE]
    BY <1>3 DEF LeaseExpires, Stall
  <2>2. [outbox[i] EXCEPT !.live = FALSE] \in Items
    <3>1. outbox[i] \in Items
      OBVIOUS
    <3> QED
      BY <3>1 DEF Items
  <2>3. outbox' = [outbox EXCEPT ![i] = [outbox[i] EXCEPT !.live = FALSE]]
    BY <2>1
  <2>4. outbox' \in Seq(Items) /\ DOMAIN outbox' = DOMAIN outbox
    BY <2>2, <2>3
  <2>5. faults' \in 0 .. MaxFaults
    BY <1>3, BoundsAssumption DEF LeaseExpires, Stall
  <2> QED
    BY <1>3, <2>4, <2>5 DEF LeaseExpires, Stall, WorkersTyped, At
<1> QED
  BY <1>1, <1>2, <1>3

(* Every step of the "execute" pool keeps every type. *)
LEMMA ExecuteStepTyped ==
  ASSUME TypeInv, NEW w \in Workers, ExecuteStep(w)
  PROVE  TypeInv'
<1>1. w \in Processes
  BY DEF Processes
<1>2. CASE Claim(w) \/ Enter(w) \/ Finish(w)
  BY <1>1, <1>2, ClaimTyped, EnterTyped, FinishTyped
<1>3. CASE Start(w) \/ Restart(w) \/ BeforeModel(w)
  BY <1>1, <1>3, StartTyped, BeforeModelTyped
<1>4. CASE PrepareRequest(w) \/ CreateRequest(w)
  BY <1>1, <1>4, PrepareRequestTyped, CreateRequestTyped
<1>5. CASE Respond(w, "final") \/ Respond(w, "ask") \/ AskForInput(w)
  BY <1>1, <1>5, RespondTyped, AskForInputTyped
<1>6. CASE Invoke(w) \/ RespondError(w) \/ FinalCheck(w) \/ Post(w)
  BY <1>1, <1>6, WorkerMovesTyped
<1>7. CASE Generate(w) \/ QueueOutput(w) \/ ConfirmStop(w) \/ Fail(w)
  BY <1>1, <1>7, OutcomesTyped, QueueOutputTyped, EndingsTyped
<1> QED
  BY <1>2, <1>3, <1>4, <1>5, <1>6, <1>7 DEF ExecuteStep

(* Every step of the "output" pool keeps every type. *)
LEMMA PublishStepTyped ==
  ASSUME TypeInv, NEW w \in Publishers, PublishStep(w)
  PROVE  TypeInv'
<1>1. w \in Processes
  BY DEF Processes
<1>2. CASE Claim(w) \/ ReadOutput(w) \/ Finish(w)
  BY <1>1, <1>2, ClaimTyped, WorkerMovesTyped, FinishTyped
<1>3. CASE SendBotReply(w) \/ SendUnavailable(w)
  BY <1>1, <1>3, SendTyped
<1>4. CASE CommitOutput(w) \/ CommitPersonal(w) \/ FailOutput(w)
  BY <1>1, <1>4, OutcomesTyped, EndingsTyped
<1> QED
  BY <1>2, <1>3, <1>4 DEF PublishStep

(* The typing invariant holds when the run was accepted. *)
LEMMA TypeInit == Init => TypeInv
<1> SUFFICES ASSUME Init PROVE TypeInv
  OBVIOUS
<1>1. run \in Runs
  BY DEF Init, Runs, Statuses, ExecutorStatuses, StopStatuses, OutputStatuses, StopReasons
<1>2. outbox \in Seq(Items)
  <2>1. NewItem("execute") \in Items
    BY NewItemTyped
  <2>2. outbox = <<NewItem("execute")>>
    BY DEF Init
  <2> QED
    BY <2>1, <2>2
<1>3. Idle \in Goroutines /\ Idle.pc = "idle"
  BY DEF Idle, Goroutines, Points, ExecutePoints, Errors
<1>4. WorkersTyped
  BY <1>3 DEF Init, WorkersTyped, At
<1>5. trajectory = <<>> /\ requests = {} /\ rounds = 0
  BY DEF Init
<1>6. RestTyped
  <2>1. /\ lost = {} /\ commands = 0 /\ faults = 0
        /\ mailbox = [messages |-> 0, receipt |-> FALSE]
    BY DEF Init
  <2> QED
    BY <2>1, BoundsAssumption DEF RestTyped
<1> QED
  BY <1>1, <1>2, <1>4, <1>5, <1>6 DEF TypeInv, RowsTyped

(* The typing invariant is inductive. *)
LEMMA TypeNext == TypeInv /\ [Next]_vars => TypeInv'
<1> SUFFICES ASSUME TypeInv, [Next]_vars PROVE TypeInv'
  OBVIOUS
<1>1. CASE \E w \in Workers : ExecuteStep(w)
  BY <1>1, ExecuteStepTyped
<1>2. CASE \E w \in Publishers : PublishStep(w)
  BY <1>2, PublishStepTyped
<1>3. CASE Reconcile
  BY <1>3, ReconcileTyped
<1>4. CASE Control
  BY <1>4, ControlTyped
<1>5. CASE \/ \E ground \in Grounds : Withdraw(ground)
           \/ \E w \in Processes : Crash(w)
           \/ \E i \in DOMAIN outbox : LeaseExpires(i) \/ Stall(i)
  BY <1>5, EnvironmentTyped
<1>6. CASE UNCHANGED vars
  BY <1>6 DEF vars, TypeInv, WorkersTyped, RowsTyped, RestTyped, At
<1> QED
  BY <1>1, <1>2, <1>3, <1>4, <1>5, <1>6 DEF Next

(* No handler invents a status, loses an item a goroutine holds, or leaves   *)
(* the domain of a row, whatever the pools, the budget and the faults        *)
(* (model.Run, model.RunOutbox).                                             *)
THEOREM TypeCorrect == Spec => []TypeOK
<1>1. Spec => []TypeInv
  BY TypeInit, TypeNext, PTL DEF Spec
<1> QED
  BY <1>1, TypeInvTyped, PTL

-----------------------------------------------------------------------------
(* One message                                                              *)

(* Nothing but the messaging service writes the mailbox. *)
LEMMA MailboxStep == [Next]_vars => mailbox' \in {mailbox, Deliver}
<1> SUFFICES ASSUME [Next]_vars PROVE mailbox' \in {mailbox, Deliver}
  OBVIOUS
<1>1. CASE \E w \in Workers : ExecuteStep(w)
  BY ZenonT(60), <1>1 DEF ExecuteStep, Claim, Enter, Start, Restart, BeforeModel, PrepareRequest,
     CreateRequest, Invoke, Respond, RespondError, AskForInput, FinalCheck, Generate,
     QueueOutput, Post, ConfirmStop, Fail, Finish
<1>2. CASE \E w \in Publishers : PublishStep(w)
  BY <1>2 DEF PublishStep, Claim, ReadOutput, SendBotReply, SendUnavailable,
     CommitOutput, CommitPersonal, FailOutput, Finish
<1>3. CASE Reconcile
  BY <1>3 DEF Reconcile, ReconcileLease, ReconcileController, ReconcileRevocation
<1>4. CASE Control
  BY <1>4 DEF Control, ControlInput, ControlResume, ControlTakeover, ControlStop
<1>5. CASE \/ \E ground \in Grounds : Withdraw(ground)
           \/ \E w \in Processes : Crash(w)
           \/ \E i \in DOMAIN outbox : LeaseExpires(i) \/ Stall(i)
  BY <1>5 DEF Withdraw, Crash, LeaseExpires, Stall
<1>6. CASE UNCHANGED vars
  BY <1>6 DEF vars
<1> QED
  BY <1>1, <1>2, <1>3, <1>4, <1>5, <1>6 DEF Next

(* However many publishers send the result, at whatever time and however     *)
(* often its acknowledgement is lost, one message exists: the receipt of the *)
(* output key is written with the message (SendBotReply).                    *)
THEOREM OneMessage == Spec => []AtMostOneMessage
<1>1. Init => AtMostOneMessage
  <2> SUFFICES ASSUME Init PROVE AtMostOneMessage
    OBVIOUS
  <2>1. mailbox = [messages |-> 0, receipt |-> FALSE]
    BY DEF Init
  <2> QED
    BY <2>1 DEF AtMostOneMessage
<1>2. TypeInv /\ AtMostOneMessage /\ [Next]_vars => AtMostOneMessage'
  <2> SUFFICES ASSUME TypeInv, AtMostOneMessage, [Next]_vars PROVE AtMostOneMessage'
    OBVIOUS
  <2>1. mailbox.messages \in Nat /\ mailbox.receipt \in BOOLEAN
    BY DEF TypeInv, RestTyped
  <2>2. CASE mailbox' = mailbox
    BY <2>2 DEF AtMostOneMessage
  <2>3. CASE ~mailbox.receipt /\ mailbox' = [messages |-> mailbox.messages + 1, receipt |-> TRUE]
    BY <2>1, <2>3 DEF AtMostOneMessage
  <2> QED
    BY <2>2, <2>3, MailboxStep DEF Deliver
<1>3. Spec => []TypeInv
  BY TypeInit, TypeNext, PTL DEF Spec
<1> QED
  BY <1>1, <1>2, <1>3, PTL DEF Spec

-----------------------------------------------------------------------------
(* A success has a message                                                  *)

(* A publisher reaches its commit with the receipt in the database, and      *)
(* only a personal run skips the messaging service.                          *)
CommitKnowsReceipt ==
    \A w \in Processes :
        /\ At(w, "commit") => mailbox.receipt
        /\ At(w, "commitPersonal") => Visibility = "personal"

PublishedInv == SucceededIsPublished /\ CommitKnowsReceipt

(* Only w moves, and not to a publisher's commit. *)
MovesAlone(w) == \A v \in Processes \ {w} : worker'[v] = worker[v]
NotToCommit(w) == MovesAlone(w) /\ worker'[w].pc \notin {"commit", "commitPersonal"}

(* A goroutine that moves leaves the others where they are. *)
LEMMA MoveFrame ==
  ASSUME TypeInv, NEW w \in Processes, NEW pc, NEW err, Goto(w, pc) \/ Return(w, pc, err)
  PROVE  MovesAlone(w) /\ worker'[w].pc = pc
<1>1. worker \in [Processes -> Goroutines] /\ worker[w] \in Goroutines
  BY DEF TypeInv, WorkersTyped
<1> QED
  BY <1>1 DEF Goto, Return, MovesAlone, Goroutines

Elsewhere == Points \ {"commit", "commitPersonal"}

(* A goroutine that goes anywhere but to a commit takes nobody there. *)
LEMMA ElsewhereFrame ==
  ASSUME TypeInv, NEW w \in Processes,
         \E pc \in Elsewhere, err \in Errors : Goto(w, pc) \/ Return(w, pc, err)
  PROVE  NotToCommit(w)
<1>1. PICK pc \in Elsewhere, err \in Errors : Goto(w, pc) \/ Return(w, pc, err)
  OBVIOUS
<1>2. MovesAlone(w) /\ worker'[w].pc = pc
  BY <1>1, MoveFrame
<1> QED
  BY <1>2 DEF NotToCommit, Elsewhere

(* A claim puts the goroutine at the start of its work on some item. *)
LEMMA ClaimMoves ==
  ASSUME NEW w, Claim(w)
  PROVE  \E i, n : worker' = [worker EXCEPT ![w] =
              [Idle EXCEPT !.pc = IF w \in Workers THEN "enter" ELSE "read",
                           !.item = i, !.generation = n]]
<1>1. PICK i \in DOMAIN outbox :
         LET claimed == IF KindOf(w) = "execute" THEN ClaimRun(run) ELSE run
             generation == IF claimed # run THEN claimed.generation
                           ELSE outbox[i].generation
         IN worker' = [worker EXCEPT ![w] =
                    [Idle EXCEPT !.pc = IF w \in Workers THEN "enter" ELSE "read",
                                 !.item = i, !.generation = generation]]
  BY Zenon DEF Claim
<1> DEFINE claimed == IF KindOf(w) = "execute" THEN ClaimRun(run) ELSE run
           generation == IF claimed # run THEN claimed.generation
                         ELSE outbox[i].generation
<1>2. worker' = [worker EXCEPT ![w] =
                    [Idle EXCEPT !.pc = IF w \in Workers THEN "enter" ELSE "read",
                                 !.item = i, !.generation = generation]]
  BY <1>1
<1> HIDE DEF generation
<1> QED
  BY Zenon, <1>2

(* Nobody arrives at a commit by claiming or releasing an item. *)
LEMMA FreshFrame ==
  ASSUME TypeInv, NEW w \in Processes, Claim(w) \/ Finish(w)
  PROVE  NotToCommit(w)
<1>1. worker \in [Processes -> Goroutines]
  BY DEF TypeInv, WorkersTyped
<1>2. CASE Finish(w)
  BY <1>1, <1>2 DEF Finish, Idle, NotToCommit, MovesAlone
<1>3. CASE Claim(w)
  <2>1. PICK i, n :
           worker' = [worker EXCEPT ![w] =
              [Idle EXCEPT !.pc = IF w \in Workers THEN "enter" ELSE "read",
                           !.item = i, !.generation = n]]
    BY <1>3, ClaimMoves
  <2> QED
    BY <1>1, <2>1 DEF Idle, NotToCommit, MovesAlone
<1> QED
  BY <1>2, <1>3

(* No step of the "execute" pool leads to a publisher's commit. *)
LEMMA WorkersNeverCommit ==
  ASSUME TypeInv, NEW w \in Workers, ExecuteStep(w)
  PROVE  NotToCommit(w)
<1> USE DEF Elsewhere, Points, ExecutePoints, OutputPoints, Errors
<1> DEFINE Moves == \E pc \in Elsewhere, err \in Errors : Goto(w, pc) \/ Return(w, pc, err)
<1>1. worker \in [Processes -> Goroutines] /\ w \in Processes /\ worker[w] \in Goroutines
  BY DEF TypeInv, WorkersTyped, Processes
<1>2. Moves => NotToCommit(w)
  BY <1>1, ElsewhereFrame
<1>3. CASE Claim(w) \/ Finish(w)
  BY <1>1, <1>3, FreshFrame
<1>4. CASE Enter(w)
  <2>1. Advance \in Elsewhere
    BY DEF Advance, FirstStep
  <2>2. Moves \/ worker' = [worker EXCEPT ![w].pc = "confirm", ![w].generation = 0]
    BY <1>4, <2>1 DEF Enter
  <2>3. worker' = [worker EXCEPT ![w].pc = "confirm", ![w].generation = 0] => NotToCommit(w)
    BY <1>1 DEF NotToCommit, MovesAlone, Goroutines
  <2> QED
    BY <1>2, <2>2, <2>3
<1>5. CASE BeforeModel(w)
  <2>1. Moves \/ \E pc \in {"final", "round"} :
                    worker' = [worker EXCEPT ![w].pc = pc, ![w].view = Len(trajectory')]
    BY <1>5, RefusalTyped DEF BeforeModel
  <2>2. (\E pc \in {"final", "round"} :
            worker' = [worker EXCEPT ![w].pc = pc, ![w].view = Len(trajectory')])
        => NotToCommit(w)
    BY <1>1 DEF NotToCommit, MovesAlone, Goroutines
  <2> QED
    BY <1>2, <2>1, <2>2
<1>6. CASE PrepareRequest(w) \/ CreateRequest(w)
  <2>1. Moves \/ \E id : worker' = [worker EXCEPT ![w].pc = "invoke", ![w].request = id]
    BY <1>6, RefusalTyped DEF PrepareRequest, CreateRequest
  <2>2. (\E id : worker' = [worker EXCEPT ![w].pc = "invoke", ![w].request = id])
        => NotToCommit(w)
    BY <1>1 DEF NotToCommit, MovesAlone, Goroutines
  <2> QED
    BY <1>2, <2>1, <2>2
<1>7. CASE Start(w) \/ Restart(w) \/ Invoke(w) \/ RespondError(w) \/ AskForInput(w)
  BY <1>2, <1>7, RefusalTyped DEF Start, Restart, Invoke, RespondError, AskForInput
<1>8. CASE Respond(w, "final") \/ Respond(w, "ask")
  BY <1>2, <1>8, RefusalTyped DEF Respond
<1>9. CASE FinalCheck(w) \/ Generate(w) \/ QueueOutput(w)
  BY <1>2, <1>9, RefusalTyped DEF FinalCheck, Generate, QueueOutput
<1>10. CASE Post(w) \/ ConfirmStop(w) \/ Fail(w)
  BY <1>2, <1>10 DEF Post, ConfirmStop, Fail
<1> QED
  BY <1>3, <1>4, <1>5, <1>6, <1>7, <1>8, <1>9, <1>10 DEF ExecuteStep

(* A step of the other pool leads to a commit only for a reason. *)
LEMMA PublishersCommit ==
  ASSUME TypeInv, NEW w \in Publishers, PublishStep(w)
  PROVE  /\ MovesAlone(w)
         /\ worker'[w].pc = "commit" => mailbox' = Deliver
         /\ worker'[w].pc = "commitPersonal" => Visibility = "personal"
<1> DEFINE Reason(pc) == /\ pc = "commit" => mailbox' = Deliver
                         /\ pc = "commitPersonal" => Visibility = "personal"
<1>1. w \in Processes
  BY DEF Processes
<1>2. ASSUME NEW pc, NEW err, Goto(w, pc) \/ Return(w, pc, err), Reason(pc)
      PROVE  MovesAlone(w) /\ Reason(worker'[w].pc)
  BY <1>1, <1>2, MoveFrame
<1>3. CASE Claim(w) \/ Finish(w)
  BY <1>1, <1>3, FreshFrame DEF NotToCommit
<1>4. CASE ReadOutput(w)
  <2>1. CASE Return(w, "finish", "none") \/ Return(w, "finish", "failed")
    BY <1>2, <2>1
  <2>2. CASE Goto(w, "failOutput") \/ Goto(w, "send")
    BY <1>2, <2>2
  <2>3. CASE Visibility = "personal" /\ Goto(w, "commitPersonal")
    BY <1>2, <2>3
  <2> QED
    BY <1>4, <2>1, <2>2, <2>3 DEF ReadOutput
<1>5. CASE SendBotReply(w) \/ SendUnavailable(w)
  <2>1. CASE Goto(w, "failOutput") \/ Return(w, "finish", "failed")
    BY <1>2, <2>1
  <2>2. CASE mailbox' = Deliver /\ Goto(w, "commit")
    BY <1>2, <2>2
  <2> QED
    BY <1>5, <2>1, <2>2 DEF SendBotReply, SendUnavailable
<1>6. CASE CommitOutput(w) \/ CommitPersonal(w) \/ FailOutput(w)
  <2>1. Return(w, "finish", "none") \/ Return(w, "finish", "failed")
    BY <1>6 DEF CommitOutput, CommitPersonal, FailOutput
  <2> QED
    BY <1>2, <2>1
<1> QED
  BY <1>3, <1>4, <1>5, <1>6 DEF PublishStep

(* A publisher reaches its commit only with the receipt, and no receipt is lost. *)
LEMMA CommitKnowsReceiptKept ==
  TypeInv /\ CommitKnowsReceipt /\ [Next]_vars => CommitKnowsReceipt'
<1> SUFFICES ASSUME TypeInv, CommitKnowsReceipt, [Next]_vars PROVE CommitKnowsReceipt'
  OBVIOUS
<1>1. mailbox.receipt => mailbox'.receipt
  BY MailboxStep DEF Deliver
<1>2. Deliver.receipt
  BY DEF Deliver
<1>3. CASE \E w \in Workers : ExecuteStep(w)
  BY <1>1, <1>3, WorkersNeverCommit DEF NotToCommit, MovesAlone, CommitKnowsReceipt, At
<1>4. CASE \E w \in Publishers : PublishStep(w)
  BY <1>1, <1>2, <1>4, PublishersCommit DEF MovesAlone, CommitKnowsReceipt, At
<1>5. CASE worker' = worker
  BY <1>1, <1>5 DEF CommitKnowsReceipt, At
<1>6. CASE \E w \in Processes : Crash(w)
  BY <1>1, <1>6 DEF Crash, Idle, CommitKnowsReceipt, At, TypeInv, WorkersTyped
<1>7. worker' = worker \/ (\E w \in Workers : ExecuteStep(w))
        \/ (\E w \in Publishers : PublishStep(w)) \/ (\E w \in Processes : Crash(w))
  BY DEF Next, vars, Reconcile, ReconcileLease, ReconcileController, ReconcileRevocation,
     Control, ControlInput, ControlResume, ControlTakeover, ControlStop, Withdraw,
     LeaseExpires, Stall
<1> QED
  BY <1>3, <1>4, <1>5, <1>6, <1>7

(* requestRunStop reports a success only with the receipt in its hands. *)
LEMMA StopSuccess ==
  ASSUME NEW r \in Runs, r.status # "succeeded", NEW reason,
         RequestStop(r, reason).row.status = "succeeded"
  PROVE  RequestStop(r, reason).row.messageID /\ mailbox.receipt
  BY DEF RequestStop, Runs

(* The status "succeeded" has two writers. *)
LEMMA SuccessStep ==
  ASSUME TypeInv, [Next]_vars, run'.status = "succeeded"
  PROVE  \/ run.status = "succeeded" /\ run'.messageID = run.messageID
         \/ run'.messageID /\ mailbox.receipt
         \/ \E w \in Publishers : CommitOutput(w) \/ CommitPersonal(w)
<1> DEFINE Same == run.status = "succeeded" /\ run'.messageID = run.messageID
<1>0. run \in Runs
  BY DEF TypeInv, RowsTyped
<1>1. CASE run' = run
  BY <1>1
<1>2. CASE \E w \in Workers : ExecuteStep(w)
  <2>1. PICK w \in Workers : ExecuteStep(w)
    BY <1>2
  <2>2. CASE Claim(w)
    BY <1>0, <2>2 DEF Claim, ClaimRun, KindOf, Runs
  <2>3. CASE Start(w) \/ Restart(w)
    BY <1>0, <2>3 DEF Start, Restart, ApplyInputs, Runs
  <2>4. CASE BeforeModel(w) \/ AskForInput(w)
    BY <1>0, <2>4 DEF BeforeModel, AskForInput, ApplyInputs, Runs
  <2>5. CASE Generate(w) \/ QueueOutput(w)
    BY <1>0, <2>5 DEF Generate, QueueOutput, Runs
  <2>6. CASE ConfirmStop(w) \/ Fail(w)
    BY <1>0, <2>6 DEF ConfirmStop, Fail, FailedRun, Runs
  <2>7. run' = run \/ Claim(w) \/ Start(w) \/ Restart(w) \/ BeforeModel(w) \/ AskForInput(w)
           \/ Generate(w) \/ QueueOutput(w) \/ ConfirmStop(w) \/ Fail(w)
    BY <2>1 DEF ExecuteStep, Enter, PrepareRequest, CreateRequest, Invoke, Respond,
       RespondError, FinalCheck, Post, Finish
  <2> QED
    BY <1>1, <2>2, <2>3, <2>4, <2>5, <2>6, <2>7
<1>3. CASE \E w \in Publishers : PublishStep(w)
  <2>1. PICK w \in Publishers : PublishStep(w)
    BY <1>3
  <2>2. KindOf(w) = "output"
    BY ProcessAssumption DEF KindOf
  <2>3. CASE FailOutput(w)
    BY <1>0, <2>3 DEF FailOutput, FailedRun, Runs
  <2>4. run' = run \/ CommitOutput(w) \/ CommitPersonal(w) \/ FailOutput(w)
    BY <2>1, <2>2 DEF PublishStep, Claim, ReadOutput, SendBotReply, SendUnavailable, Finish
  <2> QED
    BY <1>1, <2>3, <2>4
<1>4. CASE Reconcile
  <2>1. CASE ReconcileLease \/ ReconcileController
    BY <1>0, <2>1 DEF ReconcileLease, ReconcileController, LeaseLost, Runs
  <2>2. CASE ReconcileRevocation
    <3> DEFINE marked == [run EXCEPT !.revoked = TRUE]
    <3>1. marked \in Runs /\ marked.status # "succeeded"
      BY <1>0, <2>2 DEF Runs, ReconcileRevocation, AuthorityDue, TerminalRun
    <3>2. run' = RequestStop(marked, AuthorityReason).row
      BY <2>2 DEF ReconcileRevocation
    <3> HIDE DEF marked
    <3> QED
      BY <3>1, <3>2, StopSuccess
  <2> QED
    BY <1>4, <2>1, <2>2 DEF Reconcile
<1>5. CASE Control
  <2>1. CASE ControlInput \/ ControlResume \/ ControlTakeover
    BY <1>0, <2>1 DEF ControlInput, ControlResume, ControlTakeover, Runs
  <2>2. CASE ControlStop
    <3>1. CASE TerminalRun(run)
      BY <1>0, <2>2, <3>1 DEF ControlStop, Runs
    <3>2. CASE ~TerminalRun(run)
      BY <1>0, <2>2, <3>2, StopSuccess DEF ControlStop, TerminalRun
    <3> QED
      BY <3>1, <3>2
  <2> QED
    BY <1>5, <2>1, <2>2 DEF Control
<1>6. run' = run \/ (\E w \in Workers : ExecuteStep(w))
        \/ (\E w \in Publishers : PublishStep(w)) \/ Reconcile \/ Control
  BY DEF Next, vars, Withdraw, Crash, LeaseExpires, Stall
<1> QED
  BY <1>1, <1>2, <1>3, <1>4, <1>5, <1>6

(* An accepted run is not reported as succeeded. *)
LEMMA PublishedInit == Init => PublishedInv
<1> SUFFICES ASSUME Init PROVE PublishedInv
  OBVIOUS
<1>1. run.status = "accepted" /\ \A w \in Processes : worker[w].pc = "idle"
  BY DEF Init, Idle
<1> QED
  BY <1>1 DEF PublishedInv, SucceededIsPublished, CommitKnowsReceipt, At

(* A success and its message stay together. *)
LEMMA PublishedKept == TypeInv /\ PublishedInv /\ [Next]_vars => PublishedInv'
<1> SUFFICES ASSUME TypeInv, PublishedInv, [Next]_vars PROVE PublishedInv'
  OBVIOUS
<1>1. CommitKnowsReceipt'
  BY CommitKnowsReceiptKept DEF PublishedInv
<1>2. mailbox.receipt => mailbox'.receipt
  BY MailboxStep DEF Deliver
<1>3. ASSUME run'.status = "succeeded", Visibility = "conversation"
      PROVE  run'.messageID /\ mailbox'.receipt
  <2>1. CASE \E w \in Publishers : CommitOutput(w) \/ CommitPersonal(w)
    <3>1. PICK w \in Publishers : CommitOutput(w) \/ CommitPersonal(w)
      BY <2>1
    <3>2. CommitOutput(w) /\ mailbox.receipt
      BY <3>1, <1>3
         DEF CommitPersonal, CommitOutput, PublishedInv, CommitKnowsReceipt, At, Processes
    <3>3. run \in Runs
      BY DEF TypeInv, RowsTyped
    <3>4. CASE run' = run
      BY <1>2, <1>3, <3>2, <3>4 DEF PublishedInv, SucceededIsPublished
    <3>5. CASE run' = SucceededRun(run, TRUE)
      BY <1>2, <3>2, <3>3, <3>5 DEF SucceededRun, Runs
    <3> QED
      BY <3>2, <3>4, <3>5 DEF CommitOutput
  <2>2. CASE run'.messageID /\ mailbox.receipt
    BY <1>2, <2>2
  <2>3. CASE run.status = "succeeded" /\ run'.messageID = run.messageID
    BY <1>2, <1>3, <2>3 DEF PublishedInv, SucceededIsPublished
  <2> QED
    BY <1>3, <2>1, <2>2, <2>3, SuccessStep
<1> QED
  BY <1>1, <1>3 DEF PublishedInv, SucceededIsPublished

(* A run is reported as succeeded only when its message exists: neither the  *)
(* stop that meets a completed executor (requestRunStop) nor a publisher     *)
(* that retries, crashes or comes late (publishOutput) says so without it.   *)
THEOREM SuccessHasMessage == Spec => []SucceededIsPublished
<1>1. Spec => []TypeInv
  BY TypeInit, TypeNext, PTL DEF Spec
<1>2. Spec => []PublishedInv
  BY <1>1, PublishedInit, PublishedKept, PTL DEF Spec
<1>3. PublishedInv => SucceededIsPublished
  BY DEF PublishedInv
<1> QED
  BY <1>2, <1>3, PTL

-----------------------------------------------------------------------------
(* An ended run stays as it ended                                           *)

Ended ==
    /\ run'.status = run.status /\ run'.output = run.output
    /\ run'.messageID = run.messageID /\ trajectory' = trajectory

(* A late worker leaves an ended run as it ended. *)
LEMMA EndedExecute ==
  ASSUME TypeInv, TerminalRun(run), NEW w \in Workers, ExecuteStep(w)
  PROVE  Ended
<1> USE DEF Ended, ExecutionOpen, LifecycleOpen, BoundaryPassed
<1>1. run' = run /\ trajectory' = trajectory
  <2>1. CASE Claim(w) \/ Enter(w) \/ Finish(w) \/ Post(w)
    BY <2>1 DEF Claim, ClaimRun, Enter, Finish, Post, TerminalRun
  <2>2. CASE Start(w) \/ Restart(w) \/ BeforeModel(w)
    BY <2>2 DEF Start, Restart, BeforeModel
  <2>3. CASE PrepareRequest(w) \/ CreateRequest(w) \/ Invoke(w) \/ RespondError(w)
    BY <2>3 DEF PrepareRequest, CreateRequest, Invoke, RespondError
  <2>4. CASE Respond(w, "final") \/ Respond(w, "ask")
    BY <2>4 DEF Respond
  <2>5. CASE AskForInput(w) \/ FinalCheck(w) \/ Generate(w) \/ QueueOutput(w)
    BY <2>5 DEF AskForInput, FinalCheck, Generate, QueueOutput
  <2>6. CASE ConfirmStop(w) \/ Fail(w)
    BY <2>6 DEF ConfirmStop, Fail
  <2> QED
    BY <2>1, <2>2, <2>3, <2>4, <2>5, <2>6 DEF ExecuteStep
<1> QED
  BY <1>1

(* A late publisher leaves an ended run as it ended. *)
LEMMA EndedPublish ==
  ASSUME TypeInv, TerminalRun(run), NEW w \in Publishers, PublishStep(w)
  PROVE  Ended
<1>1. run' = run /\ trajectory' = trajectory
  BY DEF PublishStep, Claim, ClaimRun, TerminalRun, Finish, ReadOutput, SendBotReply,
     SendUnavailable, CommitOutput, CommitPersonal, FailOutput, LifecycleOpen
<1> QED
  BY <1>1 DEF Ended

(* Every step leaves an ended run as it ended. *)
LEMMA EndedStep == TypeInv /\ [Next]_vars => (TerminalRun(run) => Ended)
<1> SUFFICES ASSUME TypeInv, [Next]_vars, TerminalRun(run) PROVE Ended
  OBVIOUS
<1>1. CASE \E w \in Workers : ExecuteStep(w)
  BY <1>1, EndedExecute
<1>2. CASE \E w \in Publishers : PublishStep(w)
  BY <1>2, EndedPublish
<1>3. CASE Reconcile
  BY <1>3 DEF Reconcile, ReconcileLease, ReconcileController, ReconcileRevocation,
     LeaseLost, AuthorityDue
<1>4. CASE Control
  <2>1. run \in Runs
    BY DEF TypeInv, RowsTyped
  <2>2. ControlStop
    BY <1>4 DEF Control, ControlInput, ControlResume, ControlTakeover, TerminalRun
  <2> QED
    BY <2>1, <2>2 DEF ControlStop, Ended, Runs
<1>5. CASE UNCHANGED <<run, trajectory>>
  BY <1>5 DEF Ended
<1> QED
  BY <1>1, <1>2, <1>3, <1>4, <1>5 DEF Next, vars, Withdraw, Crash, LeaseExpires, Stall

(* Late workers, publishers, commands and the monitor leave an ended run as  *)
(* it ended (RunRepo.change, Report, reconcile, Claim).                      *)
THEOREM EndIsFinal == Spec => TerminalImmutable
<1>1. Spec => []TypeInv
  BY TypeInit, TypeNext, PTL DEF Spec
<1>2. Spec => [][TerminalRun(run) => Ended]_vars
  BY <1>1, EndedStep, PTL DEF Spec
<1> QED
  BY <1>2 DEF TerminalImmutable, Ended

-----------------------------------------------------------------------------
(* A stop that was accepted holds                                           *)

Held ==
    /\ trajectory' = trajectory /\ mailbox' = mailbox /\ requests' \subseteq requests
    /\ run'.status = "stopping" \/ TerminalRun(run')

(* A worker that comes late to a stop records nothing. *)
LEMMA HeldExecute ==
  ASSUME TypeInv, run.status = "stopping", NEW w \in Workers, ExecuteStep(w)
  PROVE  Held
<1> USE DEF Held, ExecutionOpen, BoundaryPassed, Suspended
<1>0. run \in Runs
  BY DEF TypeInv, RowsTyped
<1>1. CASE Claim(w)
  BY <1>0, <1>1 DEF Claim, ClaimRun, Runs
<1>2. CASE Enter(w) \/ Finish(w) \/ Post(w)
  BY <1>2 DEF Enter, Finish, Post
<1>3. CASE Start(w) \/ Restart(w) \/ BeforeModel(w)
  BY <1>3 DEF Start, Restart, BeforeModel
<1>4. CASE PrepareRequest(w) \/ CreateRequest(w) \/ Invoke(w) \/ RespondError(w)
  BY <1>4 DEF PrepareRequest, CreateRequest, Invoke, RespondError
<1>5. CASE Respond(w, "final") \/ Respond(w, "ask")
  BY <1>5 DEF Respond
<1>6. CASE AskForInput(w) \/ FinalCheck(w) \/ Generate(w) \/ QueueOutput(w)
  BY <1>6 DEF AskForInput, FinalCheck, Generate, QueueOutput
<1>7. CASE ConfirmStop(w) \/ Fail(w)
  BY <1>0, <1>7 DEF ConfirmStop, Fail, FailedRun, TerminalRun, Runs
<1> QED
  BY <1>1, <1>2, <1>3, <1>4, <1>5, <1>6, <1>7 DEF ExecuteStep

(* A publisher that comes late to a stop sends nothing. *)
LEMMA HeldPublish ==
  ASSUME TypeInv, run.status = "stopping", NEW w \in Publishers, PublishStep(w)
  PROVE  Held
<1> USE DEF Held
<1>0. run \in Runs
  BY DEF TypeInv, RowsTyped
<1>1. CASE Claim(w)
  BY <1>0, <1>1 DEF Claim, ClaimRun, Runs
<1>2. CASE Finish(w) \/ ReadOutput(w)
  BY <1>2 DEF Finish, ReadOutput
<1>3. CASE SendBotReply(w) \/ SendUnavailable(w)
  BY <1>3 DEF SendBotReply, SendUnavailable, SendRefused
<1>4. CASE CommitOutput(w) \/ CommitPersonal(w)
  BY <1>0, <1>4 DEF CommitOutput, CommitPersonal, SucceededRun, TerminalRun, Runs
<1>5. CASE FailOutput(w)
  BY <1>0, <1>5 DEF FailOutput, FailedRun, TerminalRun, Runs
<1> QED
  BY <1>1, <1>2, <1>3, <1>4, <1>5 DEF PublishStep

(* Another stop leaves a stopping run stopping or ends it. *)
LEMMA HeldStop ==
  ASSUME NEW r \in Runs, r.status = "stopping", NEW reason
  PROVE  LET row == RequestStop(r, reason).row
         IN row.status = "stopping" \/ TerminalRun(row)
  BY DEF RequestStop, TerminalRun, Runs

(* Every step leaves a stopping run silent. *)
LEMMA HeldStep == TypeInv /\ [Next]_vars => (run.status = "stopping" => Held)
<1> SUFFICES ASSUME TypeInv, [Next]_vars, run.status = "stopping" PROVE Held
  OBVIOUS
<1>0. run \in Runs
  BY DEF TypeInv, RowsTyped
<1>1. CASE \E w \in Workers : ExecuteStep(w)
  BY <1>1, HeldExecute
<1>2. CASE \E w \in Publishers : PublishStep(w)
  BY <1>2, HeldPublish
<1>3. CASE ReconcileLease \/ ReconcileController
  BY <1>0, <1>3 DEF ReconcileLease, ReconcileController, AuthorityDue, Suspended, Held, Runs
<1>4. CASE ReconcileRevocation
  <2> DEFINE marked == [run EXCEPT !.revoked = TRUE]
  <2>1. marked \in Runs /\ marked.status = "stopping"
    BY <1>0 DEF Runs
  <2>2. run' = RequestStop(marked, AuthorityReason).row
        /\ UNCHANGED <<trajectory, requests, mailbox>>
    BY <1>4 DEF ReconcileRevocation
  <2> HIDE DEF marked
  <2> QED
    BY <2>1, <2>2, HeldStop DEF Held
<1>5. CASE Control
  <2>1. ControlStop
    BY <1>5 DEF Control, ControlInput, ControlResume, ControlTakeover
  <2>2. run' = RequestStop(run, "user_requested").row
        /\ UNCHANGED <<trajectory, requests, mailbox>>
    BY <2>1 DEF ControlStop, TerminalRun
  <2> QED
    BY <1>0, <2>2, HeldStop DEF Held
<1>6. CASE UNCHANGED <<run, trajectory, requests, mailbox>>
  BY <1>6 DEF Held
<1> QED
  BY <1>1, <1>2, <1>3, <1>4, <1>5, <1>6 DEF Next, vars, Reconcile, Withdraw, Crash,
     LeaseExpires, Stall

(* Once a stop was accepted no fact is recorded and no message sent any      *)
(* more, and the run can only end: every transaction of a worker and the     *)
(* messaging service look at the status again (Change, SendBotReply).        *)
THEOREM StopIsHeld == Spec => StopHolds
<1>1. Spec => []TypeInv
  BY TypeInit, TypeNext, PTL DEF Spec
<1>2. Spec => [][run.status = "stopping" => Held]_vars
  BY <1>1, HeldStep, PTL DEF Spec
<1> QED
  BY <1>2 DEF StopHolds, Held

-----------------------------------------------------------------------------
(* The run keeps its promise                                                *)

(* The step that writes the mailbox touches nothing else of the promise. *)
LEMMA SendStep ==
  ASSUME [Next]_vars, mailbox' # mailbox
  PROVE  run' = run /\ run.status \notin {"stopping", "stopped"}
         /\ mailbox' = Deliver /\ ~mailbox.receipt
<1>1. CASE \E w \in Publishers : SendBotReply(w) \/ SendUnavailable(w)
  BY <1>1 DEF SendBotReply, SendUnavailable, SendRefused, Deliver
<1>2. mailbox' = mailbox \/ \E w \in Publishers : SendBotReply(w) \/ SendUnavailable(w)
  <2>1. CASE \E w \in Workers : ExecuteStep(w)
    BY ZenonT(60), <2>1 DEF ExecuteStep, Claim, Enter, Start, Restart, BeforeModel, PrepareRequest,
       CreateRequest, Invoke, Respond, RespondError, AskForInput, FinalCheck, Generate,
       QueueOutput, Post, ConfirmStop, Fail, Finish
  <2>2. CASE \E w \in Publishers : PublishStep(w)
    BY <2>2 DEF PublishStep, Claim, ReadOutput, CommitOutput, CommitPersonal, FailOutput, Finish
  <2>3. CASE Reconcile \/ Control
    BY <2>3 DEF Reconcile, ReconcileLease, ReconcileController, ReconcileRevocation,
       Control, ControlInput, ControlResume, ControlTakeover, ControlStop
  <2> QED
    BY <2>1, <2>2, <2>3 DEF Next, vars, Withdraw, Crash, LeaseExpires, Stall
<1> QED
  BY <1>1, <1>2

(* requestRunStop alone never confirms a stop. *)
LEMMA StopNotConfirmed ==
  ASSUME NEW r \in Runs, r.status # "stopped", NEW reason
  PROVE  RequestStop(r, reason).row.status # "stopped"
  BY DEF RequestStop, Runs

(* Only a stop that was accepted is ever confirmed. *)
LEMMA StoppedStep ==
  ASSUME TypeInv, [Next]_vars, run'.status = "stopped"
  PROVE  run.status \in {"stopping", "stopped"}
<1>0. run \in Runs
  BY DEF TypeInv, RowsTyped
<1>1. CASE run' = run
  BY <1>1
<1>2. CASE \E w \in Workers : ExecuteStep(w)
  <2>1. PICK w \in Workers : ExecuteStep(w)
    BY <1>2
  <2>2. CASE Claim(w)
    BY <1>0, <2>2 DEF Claim, ClaimRun, KindOf, Runs
  <2>3. CASE Start(w) \/ Restart(w) \/ BeforeModel(w) \/ AskForInput(w)
    BY <1>0, <2>3 DEF Start, Restart, BeforeModel, AskForInput, ApplyInputs, Runs
  <2>4. CASE Generate(w) \/ QueueOutput(w) \/ ConfirmStop(w) \/ Fail(w)
    BY <1>0, <2>4 DEF Generate, QueueOutput, ConfirmStop, Fail, FailedRun, Runs
  <2>5. run' = run \/ Claim(w) \/ Start(w) \/ Restart(w) \/ BeforeModel(w) \/ AskForInput(w)
           \/ Generate(w) \/ QueueOutput(w) \/ ConfirmStop(w) \/ Fail(w)
    BY <2>1 DEF ExecuteStep, Enter, PrepareRequest, CreateRequest, Invoke, Respond,
       RespondError, FinalCheck, Post, Finish
  <2> QED
    BY <1>1, <2>2, <2>3, <2>4, <2>5
<1>3. CASE \E w \in Publishers : PublishStep(w)
  <2>1. PICK w \in Publishers : PublishStep(w)
    BY <1>3
  <2>2. CASE Claim(w)
    BY <1>0, <2>2 DEF Claim, ClaimRun, Runs
  <2>3. CASE CommitOutput(w) \/ CommitPersonal(w) \/ FailOutput(w)
    BY <1>0, <2>3 DEF CommitOutput, CommitPersonal, FailOutput, SucceededRun, FailedRun, Runs
  <2>4. run' = run \/ Claim(w) \/ CommitOutput(w) \/ CommitPersonal(w) \/ FailOutput(w)
    BY <2>1 DEF PublishStep, ReadOutput, SendBotReply, SendUnavailable, Finish
  <2> QED
    BY <1>1, <2>2, <2>3, <2>4
<1>4. CASE ReconcileLease \/ ReconcileController
  BY <1>0, <1>4 DEF ReconcileLease, ReconcileController, Runs
<1>5. CASE ReconcileRevocation
  <2> DEFINE marked == [run EXCEPT !.revoked = TRUE]
  <2>1. marked \in Runs /\ marked.status = run.status
    BY <1>0 DEF Runs
  <2>2. run' = RequestStop(marked, AuthorityReason).row
    BY <1>5 DEF ReconcileRevocation
  <2> HIDE DEF marked
  <2> QED
    BY <2>1, <2>2, StopNotConfirmed
<1>6. CASE ControlInput \/ ControlResume \/ ControlTakeover
  BY <1>0, <1>6 DEF ControlInput, ControlResume, ControlTakeover, Runs
<1>7. CASE ControlStop
  BY <1>0, <1>7, StopNotConfirmed DEF ControlStop, Runs
<1>8. run' = run \/ (\E w \in Workers : ExecuteStep(w))
        \/ (\E w \in Publishers : PublishStep(w)) \/ ReconcileLease \/ ReconcileController
        \/ ReconcileRevocation \/ ControlInput \/ ControlResume \/ ControlTakeover \/ ControlStop
  BY DEF Next, vars, Reconcile, Control, Withdraw, Crash, LeaseExpires, Stall
<1> QED
  BY <1>1, <1>2, <1>3, <1>4, <1>5, <1>6, <1>7, <1>8

(* Every step of the lifecycle is a step of the promise or none. *)
LEMMA PromiseStep ==
  TypeInv /\ PublishedInv /\ [Next]_vars => [Promise!Next]_(Promise!vars)
<1> SUFFICES ASSUME TypeInv, PublishedInv, [Next]_vars
             PROVE  [Promise!Next]_(Promise!vars)
  OBVIOUS
<1> USE DEF Promise!Next, Promise!vars, Promise!Publish, Promise!AcceptStop, Promise!Succeed,
            Promise!Fail, Promise!ConfirmStop
<1>0. run \in Runs /\ run' \in Runs
  BY TypeNext DEF TypeInv, RowsTyped
<1>1. CASE mailbox' # mailbox
  <2>1. run' = run /\ run.status \notin {"stopping", "stopped"}
        /\ mailbox' = Deliver /\ ~mailbox.receipt
    BY <1>1, SendStep
  <2>2. PromisedState' = PromisedState /\ PromisedState \notin {"stopping", "stopped"}
    BY <2>1 DEF PromisedState, TerminalRun
  <2>3. mailbox'.receipt = TRUE
    BY <2>1 DEF Deliver
  <2> QED
    BY <2>1, <2>2, <2>3
<1>2. CASE mailbox' = mailbox
  <2>1. CASE TerminalRun(run)
    <3>1. PromisedState' = PromisedState
      BY <2>1, EndedStep DEF Ended, PromisedState, TerminalRun
    <3> QED
      BY <1>2, <3>1
  <2>2. CASE ~TerminalRun(run)
    <3>1. PromisedState \in {"open", "stopping"}
      BY <2>2 DEF PromisedState
    <3>2. PromisedState' \in {"open", "stopping", "succeeded", "failed", "stopped"}
      BY <1>0 DEF PromisedState, TerminalRun, Runs, Statuses
    <3>3. PromisedState = "stopping" => PromisedState' # "open"
      BY <2>2, HeldStep DEF Held, PromisedState, TerminalRun
    <3>4. PromisedState' = "stopped" => PromisedState = "stopping"
      BY <2>2, StoppedStep DEF PromisedState, TerminalRun
    <3>5. PromisedState' = "succeeded" => (Visibility = "conversation" => mailbox.receipt)
      BY <1>2, PublishedKept DEF PublishedInv, SucceededIsPublished, PromisedState, TerminalRun
    <3> QED
      BY <1>2, <3>1, <3>2, <3>3, <3>4, <3>5
  <2> QED
    BY <2>1, <2>2
<1> QED
  BY <1>1, <1>2

(* To its users a run is a RunPromise, whatever rows, leases, processes and  *)
(* faults are behind it (Service, RunRepo, SendBotReply).                    *)
THEOREM RunKeepsPromise == Spec => KeepsPromise
<1>1. Init => Promise!Init
  <2> SUFFICES ASSUME Init PROVE Promise!Init
    OBVIOUS
  <2>1. run.status = "accepted" /\ mailbox.receipt = FALSE
    BY DEF Init
  <2> QED
    BY <2>1 DEF Promise!Init, PromisedState, TerminalRun
<1>2. Spec => []TypeInv
  BY TypeInit, TypeNext, PTL DEF Spec
<1>3. Spec => []PublishedInv
  BY <1>2, PublishedInit, PublishedKept, PTL DEF Spec
<1>4. Spec => Promise!Spec
  BY <1>1, <1>2, <1>3, PromiseStep, PTL DEF Spec, Promise!Spec
<1> QED
  BY <1>4 DEF KeepsPromise

-----------------------------------------------------------------------------
(* One writer                                                               *)
(*                                                                          *)
(* What several generations of workers do to one run: they behave like one  *)
(* writer.  The generation fences whoever came before, an item that a       *)
(* worker has just claimed stays leased until it has looked at the run, and *)
(* what the writer learned in one transaction still holds in its next.      *)
(*                                                                          *)
(* All of this assumes StallsAfterEntry: a worker that outsleeps its lease  *)
(* does so after its first look at the run.  Without it SingleWriter does   *)
(* not hold of the code (the violation that run "stalled" shows).           *)

StallsAfterEntry == "enter" \notin StallPoints

-----------------------------------------------------------------------------
(* The fence                                                                *)

(* Nobody is ahead of the run. *)
GenerationsOld ==
    /\ \A p \in Processes : worker[p].generation <= run.generation
    /\ \A i \in DOMAIN outbox : outbox[i].generation <= run.generation

(* Each pool keeps to its kind of items. *)
ItemsKeepKind ==
    \A p \in Processes : ~At(p, "idle") => outbox[worker[p].item].kind = KindOf(p)

(* Execute items exclude each other. *)
OneLease ==
    \A i, j \in DOMAIN outbox : LiveExecution(i) /\ LiveExecution(j) => i = j

(* Whoever has claimed and not yet looked still has the lease. *)
EntryLeased ==
    \A w \in Workers : At(w, "enter") =>
        LiveExecution(worker[w].item) /\ outbox[worker[w].item].holder = w

(* Generation zero, which no lease fences, writes no fact. *)
WritersNumbered ==
    \A w \in Workers :
        worker[w].pc \in WritePoints \cup {"post"} => worker[w].generation # 0

(* No writer shares its generation with somebody who is about to enter. *)
EntryAlone ==
    ~TerminalRun(run) =>
        \A v, w \in Workers :
            MayWrite(v) /\ At(w, "enter") => worker[w].generation # run.generation

(* A parked run has no writer. *)
ParkedRests == Parked(run) => \A w \in Workers : ~MayWrite(w)

FenceInv ==
    /\ GenerationsOld /\ ItemsKeepKind /\ OneLease /\ EntryLeased /\ WritersNumbered
    /\ EntryAlone /\ ParkedRests /\ SingleWriter

(* No item changes, and at most one is queued. *)
Grown ==
    outbox' = outbox \/ \E kind \in {"execute", "output"} : outbox' = Append(outbox, NewItem(kind))

(* Queueing leaves the items there are, and nobody holds a new one. *)
LEMMA GrownItems ==
  ASSUME TypeInv, Grown
  PROVE  /\ DOMAIN outbox \subseteq DOMAIN outbox'
         /\ \A i \in DOMAIN outbox : outbox'[i] = outbox[i]
         /\ \A i \in DOMAIN outbox' \ DOMAIN outbox :
               /\ outbox'[i].generation = 0 /\ outbox'[i].holder = "none"
               /\ ~outbox'[i].live /\ ~outbox'[i].done
<1>1. outbox \in Seq(Items)
  BY DEF TypeInv, RowsTyped
<1>2. CASE outbox' = outbox
  BY <1>2
<1>3. CASE \E kind \in {"execute", "output"} : outbox' = Append(outbox, NewItem(kind))
  BY <1>1, <1>3, NewItemTyped DEF NewItem
<1> QED
  BY <1>2, <1>3 DEF Grown

(* A goroutine that moves keeps its item and its generation. *)
Keeps(p) ==
    worker'[p].item = worker[p].item /\ worker'[p].generation = worker[p].generation

(* A goroutine stands still, dies, or goes on where it may. *)
GoesOn(p) ==
    \/ worker'[p] = worker[p]
    \/ worker'[p] = Idle
    \/ /\ Keeps(p)
       /\ ~At(p, "idle") /\ worker'[p].pc \notin {"idle", "enter"}
       /\ worker'[p].pc \in WritePoints \cup {"post"} => worker[p].pc \in WritePoints

(* What all but the steps that claim, enter, release or lose a lease do. *)
Quiet ==
    /\ Grown
    /\ \A p \in Processes : GoesOn(p)
    /\ run'.generation >= run.generation
    /\ run'.generation = run.generation /\ Parked(run') =>
          Parked(run) \/ \A w \in Workers : ~MayWrite(w)'
    /\ TerminalRun(run) => TerminalRun(run')

(* Nobody becomes a writer in a quiet step. *)
LEMMA QuietWriters ==
  ASSUME TypeInv, FenceInv, Quiet, NEW w \in Workers, MayWrite(w)'
  PROVE  MayWrite(w) /\ run'.generation = run.generation
<1>1. w \in Processes /\ GoesOn(w)
  BY DEF Quiet, Processes
<1>2. run.generation \in Nat /\ run'.generation >= run.generation
      /\ worker[w].generation <= run.generation /\ worker[w].generation \in Nat
  BY <1>1 DEF TypeInv, RowsTyped, WorkersTyped, Runs, Goroutines, FenceInv, GenerationsOld, Quiet
<1>3. worker'[w].pc \in WritePoints /\ worker'[w].generation = run'.generation
  BY DEF MayWrite
<1>4. worker'[w] # Idle
  BY <1>3 DEF Idle, WritePoints
<1>5. worker[w].pc \in WritePoints /\ worker'[w].generation = worker[w].generation
  BY <1>1, <1>3, <1>4 DEF GoesOn, Keeps
<1> QED
  BY <1>2, <1>3, <1>5 DEF MayWrite

(* A quiet step keeps the fence. *)
LEMMA QuietFence ==
  ASSUME TypeInv, TypeInv', FenceInv, Quiet
  PROVE  FenceInv'
<1> USE DEF FenceInv
<1>1. /\ DOMAIN outbox \subseteq DOMAIN outbox'
      /\ \A i \in DOMAIN outbox : outbox'[i] = outbox[i]
      /\ \A i \in DOMAIN outbox' \ DOMAIN outbox :
            /\ outbox'[i].generation = 0 /\ outbox'[i].holder = "none"
            /\ ~outbox'[i].live /\ ~outbox'[i].done
  BY GrownItems DEF Quiet
<1>2. \A p \in Processes : GoesOn(p)
  BY DEF Quiet
<1>3. Workers \subseteq Processes
  BY DEF Processes
<1>4. \A p \in Processes : ~At(p, "idle") => worker[p].item \in DOMAIN outbox
  BY DEF TypeInv, WorkersTyped
<1>5. GenerationsOld'
  <2>1. run.generation \in Nat /\ run'.generation \in Nat /\ run'.generation >= run.generation
    BY DEF TypeInv, RowsTyped, Runs, Quiet
  <2>2. \A p \in Processes : worker'[p].generation \in {worker[p].generation, 0}
    BY <1>2 DEF GoesOn, Keeps, Idle
  <2>3. \A p \in Processes : worker[p].generation \in Nat
    BY DEF TypeInv, WorkersTyped, Goroutines
  <2>4. \A i \in DOMAIN outbox : outbox[i].generation \in Nat
    <3>1. \A i \in DOMAIN outbox : outbox[i] \in Items
      BY DEF TypeInv, RowsTyped
    <3> QED
      BY <3>1 DEF Items
  <2> QED
    BY <1>1, <2>1, <2>2, <2>3, <2>4 DEF GenerationsOld
<1>6. ItemsKeepKind'
  BY <1>1, <1>2, <1>4 DEF ItemsKeepKind, GoesOn, Keeps, At, Idle, KindOf
<1>7. OneLease'
  BY <1>1 DEF OneLease, LiveExecution
<1>8. EntryLeased'
  BY <1>1, <1>2, <1>3, <1>4 DEF EntryLeased, LiveExecution, GoesOn, At, Idle
<1>9. WritersNumbered'
  BY <1>2, <1>3 DEF WritersNumbered, GoesOn, Keeps, Idle, WritePoints
<1>10. \A w \in Workers : MayWrite(w)' => MayWrite(w) /\ run'.generation = run.generation
  BY QuietWriters
<1>11. \A w \in Workers : At(w, "enter")' => worker'[w] = worker[w]
  BY <1>2, <1>3 DEF GoesOn, At, Idle
<1>12. EntryAlone'
  BY <1>10, <1>11 DEF EntryAlone, At, Quiet
<1>13. ParkedRests'
  BY <1>10 DEF ParkedRests, Quiet
<1>14. SingleWriter'
  BY <1>10 DEF SingleWriter
<1> QED
  BY <1>5, <1>6, <1>7, <1>8, <1>9, <1>12, <1>13, <1>14

(* The steps of a worker between its entry and the release of its item. *)
Work(w) ==
    \/ Start(w) \/ Restart(w) \/ BeforeModel(w) \/ PrepareRequest(w) \/ CreateRequest(w)
    \/ Invoke(w) \/ Respond(w, "final") \/ Respond(w, "ask") \/ RespondError(w)
    \/ AskForInput(w) \/ FinalCheck(w) \/ Generate(w) \/ QueueOutput(w)
    \/ Post(w) \/ ConfirmStop(w) \/ Fail(w)

(* The steps of a publisher between its claim and the release of its item. *)
Publish(p) ==
    \/ ReadOutput(p) \/ SendBotReply(p) \/ SendUnavailable(p)
    \/ CommitOutput(p) \/ CommitPersonal(p) \/ FailOutput(p)

(* Only p moves, and it goes on. *)
GoesOnAlone(p) ==
    /\ MovesAlone(p) /\ Keeps(p) /\ ~At(p, "idle") /\ worker'[p].pc \notin {"idle", "enter"}
    /\ worker'[p].pc \in WritePoints \cup {"post"} => worker[p].pc \in WritePoints

(* A goroutine that changes its place, its error or what it read goes on. *)
LEMMA GoesOnFrame ==
  ASSUME TypeInv, NEW p \in Processes, ~At(p, "idle"), NEW pc \in Points \ {"idle", "enter"},
         pc \in WritePoints \cup {"post"} => worker[p].pc \in WritePoints,
         \/ Goto(p, pc) \/ \E err : Return(p, pc, err)
         \/ \E n : worker' = [worker EXCEPT ![p].pc = pc, ![p].view = n]
         \/ \E n : worker' = [worker EXCEPT ![p].pc = pc, ![p].request = n]
  PROVE  GoesOnAlone(p)
<1>1. worker \in [Processes -> Goroutines] /\ worker[p] \in Goroutines
  BY DEF TypeInv, WorkersTyped
<1> QED
  BY <1>1 DEF Goto, Return, GoesOnAlone, MovesAlone, Keeps, Goroutines

(* No step of a worker leads back to its entry or out of its item. *)
LEMMA WorkMoves ==
  ASSUME TypeInv, NEW w \in Workers, Work(w)
  PROVE  GoesOnAlone(w)
<1> DEFINE Further == WritePoints \cup {"post", "confirm", "fail", "finish"}
           Moved(pc) == \/ Goto(w, pc) \/ \E err : Return(w, pc, err)
                        \/ \E n : worker' = [worker EXCEPT ![w].pc = pc, ![w].view = n]
                        \/ \E n : worker' = [worker EXCEPT ![w].pc = pc, ![w].request = n]
<1>1. w \in Processes /\ Further \subseteq Points \ {"idle", "enter"}
  BY DEF Processes, WritePoints, Points, ExecutePoints
<1>2. ASSUME NEW pc \in Further, Moved(pc), worker[w].pc \in WritePoints
      PROVE  GoesOnAlone(w)
  <2>1. ~At(w, "idle")
    BY <1>2 DEF At, WritePoints
  <2> QED
    BY <1>1, <1>2, <2>1, GoesOnFrame
<1>3. ASSUME NEW pc \in {"confirm", "fail", "finish"}, Moved(pc), ~At(w, "idle")
      PROVE  GoesOnAlone(w)
  <2>1. pc \notin WritePoints \cup {"post"} /\ pc \in Points \ {"idle", "enter"}
    BY DEF WritePoints, Points, ExecutePoints
  <2> QED
    BY <1>1, <1>3, <2>1, GoesOnFrame
<1>4. CASE Start(w) \/ Restart(w) \/ BeforeModel(w)
  <2>1. worker[w].pc \in WritePoints
    BY <1>4 DEF Start, Restart, BeforeModel, AtBoundary, At, WritePoints
  <2>2. \E pc \in {"post", "agent", "tool", "final", "round"} : Moved(pc)
    BY <1>4 DEF Start, Restart, BeforeModel
  <2> QED
    BY <1>2, <2>1, <2>2 DEF WritePoints
<1>5. CASE PrepareRequest(w) \/ CreateRequest(w) \/ Invoke(w)
  <2>1. worker[w].pc \in WritePoints
    BY <1>5 DEF PrepareRequest, CreateRequest, Invoke, AtBoundary, At, WritePoints
  <2>2. \E pc \in {"post", "invoke", "request", "requestFinal", "inflight"} : Moved(pc)
    BY <1>5 DEF PrepareRequest, CreateRequest, Invoke
  <2> QED
    BY <1>2, <2>1, <2>2 DEF WritePoints
<1>6. CASE Respond(w, "final") \/ Respond(w, "ask") \/ RespondError(w)
  <2>1. worker[w].pc \in WritePoints
    BY <1>6 DEF Respond, RespondError, At, WritePoints
  <2>2. \E pc \in {"post", "tool", "final"} : Moved(pc)
    BY <1>6 DEF Respond, RespondError
  <2> QED
    BY <1>2, <2>1, <2>2 DEF WritePoints
<1>7. CASE AskForInput(w) \/ FinalCheck(w) \/ Generate(w) \/ QueueOutput(w)
  <2>1. worker[w].pc \in WritePoints
    BY <1>7 DEF AskForInput, FinalCheck, Generate, QueueOutput, AtBoundary, At, WritePoints
  <2>2. \E pc \in {"post", "agent", "generate", "queueOutput"} : Moved(pc)
    BY <1>7 DEF AskForInput, FinalCheck, Generate, QueueOutput
  <2> QED
    BY <1>2, <2>1, <2>2 DEF WritePoints
<1>8. CASE Post(w) \/ ConfirmStop(w) \/ Fail(w)
  <2>1. ~At(w, "idle")
    BY <1>8 DEF Post, ConfirmStop, Fail, AtBoundary, At
  <2>2. \E pc \in {"confirm", "fail", "finish"} : Moved(pc)
    BY <1>8 DEF Post, ConfirmStop, Fail
  <2> QED
    BY <1>3, <2>1, <2>2
<1> QED
  BY <1>4, <1>5, <1>6, <1>7, <1>8 DEF Work

(* Nor does a step of a publisher; it never comes to a worker's points. *)
LEMMA PublishMoves ==
  ASSUME TypeInv, NEW p \in Publishers, Publish(p)
  PROVE  GoesOnAlone(p)
<1>1. p \in Processes /\ ~At(p, "idle")
  BY DEF Processes, Publish, ReadOutput, SendBotReply, SendUnavailable, CommitOutput,
     CommitPersonal, FailOutput, AtBoundary, At
<1>2. ASSUME NEW pc \in {"finish", "failOutput", "send", "commit", "commitPersonal"},
             Goto(p, pc) \/ \E err : Return(p, pc, err)
      PROVE  GoesOnAlone(p)
  <2>1. pc \notin WritePoints \cup {"post"} /\ pc \in Points \ {"idle", "enter"}
    BY DEF WritePoints, Points, OutputPoints
  <2> QED
    BY <1>1, <1>2, <2>1, GoesOnFrame
<1> QED
  BY <1>2 DEF Publish, ReadOutput, SendBotReply, SendUnavailable, CommitOutput,
     CommitPersonal, FailOutput

(* One goroutine that goes on is all that moves. *)
LEMMA AloneGoesOn ==
  ASSUME NEW p \in Processes, GoesOnAlone(p)
  PROVE  \A q \in Processes : GoesOn(q)
  BY DEF GoesOnAlone, MovesAlone, GoesOn

(* A worker that passes a boundary or a fence is the writer. *)
LEMMA LeaseWrites ==
  ASSUME TypeInv, FenceInv, NEW w \in Workers, worker[w].pc \in WritePoints,
         LeaseHeld(Gen(w))
  PROVE  MayWrite(w) /\ \A v \in Workers : MayWrite(v) => v = w
<1>1. worker[w].generation # 0
  BY DEF FenceInv, WritersNumbered
<1> QED
  BY <1>1 DEF LeaseHeld, Gen, MayWrite, FenceInv, SingleWriter

(* A worker's step leaves the generation alone and queues at most a result. *)
LEMMA WorkRows ==
  ASSUME TypeInv, NEW w \in Workers, Work(w)
  PROVE  run'.generation = run.generation /\ Grown
<1>1. run \in Runs
  BY DEF TypeInv, RowsTyped
<1>2. run'.generation = run.generation
  <2>1. CASE Start(w) \/ Restart(w) \/ BeforeModel(w)
    BY <1>1, <2>1 DEF Start, Restart, BeforeModel, ApplyInputs, Runs
  <2>2. CASE AskForInput(w) \/ Generate(w) \/ QueueOutput(w)
    BY <1>1, <2>2 DEF AskForInput, Generate, QueueOutput, Runs
  <2>3. CASE ConfirmStop(w) \/ Fail(w)
    BY <1>1, <2>3 DEF ConfirmStop, Fail, FailedRun, Runs
  <2>4. CASE run' = run
    BY <2>4
  <2> QED
    BY <2>1, <2>2, <2>3, <2>4 DEF Work, PrepareRequest, CreateRequest, Invoke, Respond,
       RespondError, FinalCheck, Post
<1>3. Grown
  BY DEF Grown, Work, Start, Restart, BeforeModel, PrepareRequest, CreateRequest, Invoke,
     Respond, RespondError, AskForInput, FinalCheck, Generate, QueueOutput, Post,
     ConfirmStop, Fail
<1> QED
  BY <1>2, <1>3

(* Between its entry and its release a worker keeps the fence: the one step  *)
(* that parks the run is its only writer's, who leaves.                      *)
LEMMA WorkQuiet ==
  ASSUME TypeInv, FenceInv, NEW w \in Workers, Work(w)
  PROVE  Quiet
<1>1. w \in Processes /\ run \in Runs
  BY DEF Processes, TypeInv, RowsTyped
<1>2. GoesOnAlone(w) /\ \A q \in Processes : GoesOn(q)
  BY <1>1, WorkMoves, AloneGoesOn
<1>3. run'.generation = run.generation /\ Grown
  BY WorkRows
<1>4. TerminalRun(run) => TerminalRun(run')
  <2>1. [Next]_vars
    BY DEF Next, ExecuteStep, Work
  <2> QED
    BY <2>1, EndedStep DEF TerminalRun, Ended
<1>5. Parked(run') => Parked(run) \/ \A v \in Workers : ~MayWrite(v)'
  <2>1. CASE BeforeModel(w) /\ Parked(run') /\ ~Parked(run)
    <3>1. worker[w].pc \in WritePoints /\ BoundaryPassed(w) /\ \E err : Return(w, "post", err)
      BY <1>1, <2>1 DEF BeforeModel, AtBoundary, At, WritePoints, Parked, ApplyInputs, Runs
    <3>2. \A v \in Workers : MayWrite(v) => v = w
      BY <3>1, LeaseWrites DEF BoundaryPassed
    <3>3. worker'[w].pc = "post"
      BY <1>1, <3>1, MoveFrame
    <3>4. ASSUME NEW v \in Workers, MayWrite(v)' PROVE FALSE
      <4>1. v # w
        BY <3>3, <3>4 DEF MayWrite, WritePoints
      <4>2. worker'[v] = worker[v]
        BY <1>2, <4>1 DEF GoesOnAlone, MovesAlone, Processes
      <4> QED
        BY <1>3, <3>2, <3>4, <4>1, <4>2 DEF MayWrite
    <3> QED
      BY <3>4
  <2>2. CASE Start(w) \/ Restart(w)
    BY <1>1, <2>2 DEF Start, Restart, Parked, ApplyInputs, Runs
  <2>3. CASE AskForInput(w) \/ Generate(w) \/ QueueOutput(w)
    BY <1>1, <2>3 DEF AskForInput, Generate, QueueOutput, Parked, Runs
  <2>4. CASE ConfirmStop(w) \/ Fail(w)
    BY <1>1, <2>4 DEF ConfirmStop, Fail, FailedRun, Parked, Runs
  <2>5. CASE run' = run
    BY <2>5
  <2> QED
    BY <2>1, <2>2, <2>3, <2>4, <2>5 DEF Work, PrepareRequest, CreateRequest, Invoke,
       Respond, RespondError, FinalCheck, Post
<1> QED
  BY <1>1, <1>2, <1>3, <1>4, <1>5 DEF Quiet, Runs

(* So does a publisher. *)
LEMMA PublishQuiet ==
  ASSUME TypeInv, NEW p \in Publishers, Publish(p)
  PROVE  Quiet
<1>1. p \in Processes /\ run \in Runs
  BY DEF Processes, TypeInv, RowsTyped
<1>2. \A q \in Processes : GoesOn(q)
  BY <1>1, PublishMoves, AloneGoesOn
<1>3. outbox' = outbox /\ run'.generation = run.generation /\ (Parked(run') => Parked(run))
  BY <1>1 DEF Publish, ReadOutput, SendBotReply, SendUnavailable, CommitOutput, CommitPersonal,
     FailOutput, SucceededRun, FailedRun, Parked, Runs
<1>4. TerminalRun(run) => TerminalRun(run')
  <2>1. [Next]_vars
    BY DEF Next, PublishStep, Publish
  <2> QED
    BY <2>1, EndedStep DEF TerminalRun, Ended
<1> QED
  BY <1>1, <1>2, <1>3, <1>4 DEF Quiet, Grown, Runs

(* requestRunStop leaves the counters and the executor alone; it moves the   *)
(* run to "stopping" or ends it, and only an end changes the output.         *)
LEMMA RequestStopRow ==
  ASSUME NEW r \in Runs, NEW reason
  PROVE  LET row == RequestStop(r, reason).row
         IN /\ row.generation = r.generation /\ row.executor = r.executor
            /\ row.input = r.input /\ row.applied = r.applied
            /\ row.status \in {r.status, "stopping", "succeeded", "failed"}
            /\ row.output = r.output \/ (TerminalRun(row) /\ row.output \in {"committed", "failed"})
            /\ r.executor = "completed" => row.status # "stopping" \/ r.status = "stopping"
<1> DEFINE completed == [r EXCEPT !.reason = "completed_before_stop",
                                  !.status = "succeeded", !.output = "committed",
                                  !.messageID = TRUE]
           revoked == [r EXCEPT !.reason = "completed_before_stop",
                                !.status = "failed", !.output = "failed"]
           noted == [r EXCEPT !.reason = "completed_before_stop"]
           again == [r EXCEPT !.reason = reason, !.status = "stopping", !.waiting = FALSE]
           first == [r EXCEPT !.status = "stopping", !.waiting = FALSE,
                              !.stop = "requested", !.reason = reason]
           Kept(row) == /\ row.generation = r.generation /\ row.executor = r.executor
                        /\ row.input = r.input /\ row.applied = r.applied
<1>1. RequestStop(r, reason).row \in IF r.executor = "completed" THEN {completed, revoked, noted}
                                     ELSE {r, again, first}
  BY DEF RequestStop
<1>2. Kept(completed) /\ completed.status = "succeeded" /\ completed.output = "committed"
  BY DEF Runs
<1>3. Kept(revoked) /\ revoked.status = "failed" /\ revoked.output = "failed"
  BY DEF Runs
<1>4. Kept(noted) /\ noted.status = r.status /\ noted.output = r.output
  BY DEF Runs
<1>5. Kept(again) /\ again.status = "stopping" /\ again.output = r.output
  BY DEF Runs
<1>6. Kept(first) /\ first.status = "stopping" /\ first.output = r.output
  BY DEF Runs
<1> HIDE DEF completed, revoked, noted, again, first
<1> QED
  BY <1>1, <1>2, <1>3, <1>4, <1>5, <1>6 DEF TerminalRun

(* Nobody moves. *)
LEMMA StillGoesOn == ASSUME worker' = worker PROVE \A p \in Processes : GoesOn(p)
  BY DEF GoesOn

(* A wake-up is one more execute item. *)
LEMMA WakeGrows == ASSUME NEW needed, outbox' = Wake(needed) PROVE Grown
  BY DEF Wake, Grown

(* The monitor writes while nobody moves; it parks a run only together with  *)
(* a new generation.                                                         *)
LEMMA ReconcileQuiet ==
  ASSUME TypeInv, Reconcile
  PROVE  Quiet
<1>1. run \in Runs
  BY DEF TypeInv, RowsTyped
<1>2. \A p \in Processes : GoesOn(p)
  BY StillGoesOn DEF Reconcile, ReconcileLease, ReconcileController, ReconcileRevocation
<1>3. ~TerminalRun(run)
  BY DEF Reconcile, ReconcileLease, ReconcileController, ReconcileRevocation, LeaseLost, AuthorityDue
<1>4. CASE ReconcileLease
  BY <1>1, <1>2, <1>3, <1>4 DEF ReconcileLease, Quiet, Grown, Runs, Parked
<1>5. CASE ReconcileController
  BY <1>1, <1>2, <1>3, <1>5 DEF ReconcileController, Quiet, Grown, Runs, Parked
<1>6. CASE ReconcileRevocation
  <2> DEFINE marked == [run EXCEPT !.revoked = TRUE]
             stopped == RequestStop(marked, AuthorityReason)
  <2>1. marked \in Runs /\ marked.generation = run.generation /\ marked.status = run.status
    BY <1>1 DEF Runs
  <2>2. run' = stopped.row /\ outbox' = Wake(stopped.wake)
    BY <1>6 DEF ReconcileRevocation
  <2> HIDE DEF marked
  <2>3. run'.generation = run.generation
        /\ run'.status \in {run.status, "stopping", "succeeded", "failed"}
    BY <2>1, <2>2, RequestStopRow
  <2>4. Grown
    BY <2>2, WakeGrows
  <2> QED
    BY <1>1, <1>2, <1>3, <2>3, <2>4 DEF Quiet, Parked, Runs
<1> QED
  BY <1>4, <1>5, <1>6 DEF Reconcile

(* The commands of the users never park a run. *)
LEMMA ControlQuiet ==
  ASSUME TypeInv, Control
  PROVE  Quiet
<1>1. run \in Runs
  BY DEF TypeInv, RowsTyped
<1>2. \A p \in Processes : GoesOn(p)
  BY StillGoesOn DEF Control, ControlInput, ControlResume, ControlTakeover, ControlStop
<1>3. TerminalRun(run) => TerminalRun(run')
  <2>1. [Next]_vars
    BY DEF Next
  <2> QED
    BY <2>1, EndedStep DEF TerminalRun, Ended
<1>4. Grown
  <2>1. outbox' = outbox \/ \E needed : outbox' = Wake(needed)
    BY Zenon DEF Control, ControlInput, ControlResume, ControlTakeover, ControlStop
  <2> QED
    BY <2>1, WakeGrows DEF Grown
<1>5. run'.generation >= run.generation /\ (Parked(run') => Parked(run))
  <2>1. CASE ControlInput
    <3> DEFINE waiting == run.status # "waiting_input" /\ run.waiting
    <3>0. run' = [run EXCEPT !.input = run.input + 1,
                   !.status = IF run.status = "waiting_input" THEN "running" ELSE run.status,
                   !.waiting = waiting]
      BY <2>1 DEF ControlInput
    <3> HIDE DEF waiting
    <3>1. run'.generation = run.generation /\ (run'.status = run.status \/ run'.status = "running")
      BY <1>1, <3>0 DEF Runs
    <3> QED
      BY <1>1, <3>1 DEF Parked, Runs
  <2>2. CASE ControlResume
    BY <1>1, <2>2 DEF ControlResume, Parked, Runs
  <2>4. CASE ControlTakeover
    <3>1. \/ run' = run
          \/ run' = [run EXCEPT !.stop = "none", !.reason = "", !.status = "accepted",
                                !.waiting = FALSE]
      BY <2>4 DEF ControlTakeover
    <3>2. run'.generation = run.generation /\ run'.status \in {run.status, "accepted"}
      BY <1>1, <3>1 DEF Runs
    <3> QED
      BY <1>1, <3>2 DEF Parked, Runs
  <2>3. CASE ControlStop
    <3>1. CASE TerminalRun(run)
      <4>1. run' = [run EXCEPT !.reason = "user_requested"]
        BY <2>3, <3>1 DEF ControlStop
      <4> QED
        BY <1>1, <4>1 DEF Parked, Runs
    <3>2. CASE ~TerminalRun(run)
      <4>1. run' = RequestStop(run, "user_requested").row
        BY <2>3, <3>2 DEF ControlStop
      <4>2. run'.generation = run.generation
            /\ run'.status \in {run.status, "stopping", "succeeded", "failed"}
        BY <1>1, <4>1, RequestStopRow
      <4> QED
        BY <1>1, <4>2 DEF Parked, Runs
    <3> QED
      BY <3>1, <3>2
  <2> QED
    BY <2>1, <2>2, <2>3, <2>4 DEF Control
<1> QED
  BY <1>2, <1>3, <1>4, <1>5 DEF Quiet

(* Withdrawals touch no row, and a crash only forgets. *)
LEMMA EnvironmentQuiet ==
  ASSUME TypeInv, (\E ground \in Grounds : Withdraw(ground)) \/ (\E p \in Processes : Crash(p))
  PROVE  Quiet
<1>1. run \in Runs /\ run' = run /\ outbox' = outbox
  BY DEF TypeInv, RowsTyped, Withdraw, Crash
<1>2. \A p \in Processes : GoesOn(p)
  <2>1. worker \in [Processes -> Goroutines]
    BY DEF TypeInv, WorkersTyped
  <2> QED
    BY <2>1 DEF Withdraw, Crash, GoesOn
<1> QED
  BY <1>1, <1>2 DEF Quiet, Grown, Runs


(* A claim makes the one new writer's successor: nobody else is about to     *)
(* enter, and who wrote under the old generation no longer does.             *)
LEMMA ClaimFence ==
  ASSUME TypeInv, TypeInv', FenceInv, NEW p \in Processes,
         (p \in Workers) # (p \in Publishers), Claim(p)
  PROVE  FenceInv'
<1> USE DEF FenceInv
<1> DEFINE claimed == IF KindOf(p) = "execute" THEN ClaimRun(run) ELSE run
           generation(i) == IF claimed # run THEN claimed.generation
                            ELSE outbox[i].generation
<1>1. PICK i \in DOMAIN outbox :
         /\ outbox[i].kind = KindOf(p) /\ Eligible(i)
         /\ run' = claimed
         /\ outbox' = [outbox EXCEPT ![i].holder = p, ![i].live = TRUE,
                                     ![i].generation = generation(i)]
         /\ worker' = [worker EXCEPT ![p] =
               [Idle EXCEPT !.pc = IF p \in Workers THEN "enter" ELSE "read",
                            !.item = i, !.generation = generation(i)]]
  BY DEF Claim
<1>2. run \in Runs /\ run.generation \in Nat /\ worker \in [Processes -> Goroutines]
  BY DEF TypeInv, RowsTyped, WorkersTyped, Runs
<1>3. \A j \in DOMAIN outbox : outbox[j] \in Items
  BY DEF TypeInv, RowsTyped
<1>4. \/ run' = run /\ (p \in Workers => TerminalRun(run) \/ Parked(run))
      \/ /\ p \in Workers /\ run'.generation = run.generation + 1 /\ claimed # run
         /\ run'.status = run.status
  <2>1. CASE p \in Workers /\ run.status \in {"accepted", "running", "stopping"}
    <3>1. run'.generation = run.generation + 1 /\ run'.status = run.status
      BY <1>1, <1>2, <2>1 DEF KindOf, ClaimRun, Runs
    <3>2. run' # run
      BY <1>2, <3>1
    <3> QED
      BY <1>1, <2>1, <3>1, <3>2
  <2>2. CASE p \in Workers /\ run.status \notin {"accepted", "running", "stopping"}
    <3>1. run' = run
      BY <1>1, <2>2 DEF KindOf, ClaimRun
    <3>2. TerminalRun(run) \/ Parked(run)
      BY <1>2, <2>2 DEF Runs, Statuses, TerminalRun, Parked
    <3> QED
      BY <3>1, <3>2
  <2>3. CASE p \notin Workers
    BY <1>1, <2>3 DEF KindOf
  <2> QED
    BY <2>1, <2>2, <2>3
<1> DEFINE g == generation(i)
<1>5. /\ g \in Nat /\ g <= run'.generation
      /\ run'.generation \in Nat /\ run.generation <= run'.generation
  BY <1>1, <1>2, <1>3, <1>4 DEF GenerationsOld, Items
<1>6. /\ worker'[p].item = i /\ worker'[p].generation = g
      /\ worker'[p].pc = (IF p \in Workers THEN "enter" ELSE "read")
      /\ \A q \in Processes \ {p} : worker'[q] = worker[q]
  BY <1>1, <1>2 DEF Idle
<1>7. /\ DOMAIN outbox' = DOMAIN outbox
      /\ \A j \in DOMAIN outbox \ {i} : outbox'[j] = outbox[j]
      /\ outbox'[i].kind = outbox[i].kind /\ outbox'[i].done = outbox[i].done
      /\ outbox'[i].holder = p /\ outbox'[i].live = TRUE /\ outbox'[i].generation = g
  BY <1>1, <1>3 DEF Items, TypeInv, RowsTyped
<1> HIDE DEF claimed, generation, g
<1>8. \A q \in Processes : ~At(q, "idle") => worker[q].item \in DOMAIN outbox
  BY DEF TypeInv, WorkersTyped
<1>9. Workers \subseteq Processes
  BY DEF Processes
<1>10. p \in Workers => ~outbox[i].done /\ \A j \in DOMAIN outbox : ~LiveExecution(j)
  BY <1>1 DEF Eligible, KindOf
<1>11. p \notin Workers => outbox[i].kind = "output"
  BY <1>1 DEF KindOf
<1>12. \A v \in Workers \ {p} : MayWrite(v)' => MayWrite(v) /\ run'.generation = run.generation
  BY <1>2, <1>4, <1>6, <1>9 DEF MayWrite, GenerationsOld, TypeInv, WorkersTyped, Goroutines
<1>13. ~MayWrite(p)'
  BY <1>6 DEF MayWrite, WritePoints
<1>14. GenerationsOld'
  <2>1. \A q \in Processes \ {p} : worker'[q].generation <= run'.generation
    <3>1. \A q \in Processes : worker[q].generation \in Nat
      BY <1>2 DEF Goroutines
    <3> QED
      BY <1>2, <1>5, <1>6, <3>1 DEF GenerationsOld
  <2>2. \A j \in DOMAIN outbox \ {i} : outbox'[j].generation <= run'.generation
    <3>1. \A j \in DOMAIN outbox : outbox[j].generation \in Nat
      BY <1>3 DEF Items
    <3> QED
      BY <1>2, <1>5, <1>7, <3>1 DEF GenerationsOld
  <2> QED
    BY <1>5, <1>6, <1>7, <2>1, <2>2 DEF GenerationsOld
<1>15. ItemsKeepKind'
  BY <1>1, <1>6, <1>7, <1>8 DEF ItemsKeepKind, At, KindOf
<1>16. OneLease'
  BY <1>7, <1>10, <1>11 DEF OneLease, LiveExecution
<1>17. EntryLeased'
  <2>1. CASE p \in Workers
    BY <1>1, <1>6, <1>7, <1>8, <1>9, <1>10, <2>1 DEF EntryLeased, LiveExecution, At, KindOf
  <2>2. CASE p \notin Workers
    BY <1>6, <1>7, <1>8, <1>9, <1>11, <2>2 DEF EntryLeased, LiveExecution, At
  <2> QED
    BY <2>1, <2>2
<1>18. WritersNumbered'
  BY <1>6, <1>9 DEF WritersNumbered, WritePoints
<1>19. \A w \in Workers : At(w, "enter")' =>
          w = p \/ (At(w, "enter") /\ worker'[w] = worker[w] /\ p \notin Workers)
  BY <1>6, <1>8, <1>9, <1>10 DEF At, EntryLeased
<1>20. EntryAlone'
  <2> SUFFICES ASSUME ~TerminalRun(run'), NEW v \in Workers, NEW w \in Workers,
                      MayWrite(v)', At(w, "enter")'
               PROVE  worker'[w].generation # run'.generation
    BY DEF EntryAlone
  <2>1. v # p /\ MayWrite(v) /\ run'.generation = run.generation
    BY <1>12, <1>13
  <2>2. run' = run /\ p \notin Workers
    BY <1>2, <1>4, <2>1 DEF ParkedRests
  <2> QED
    BY <1>19, <2>1, <2>2 DEF EntryAlone
<1>21. ParkedRests'
  <2>1. run'.status = run.status
    BY <1>4
  <2> QED
    BY <1>12, <1>13, <2>1 DEF ParkedRests, Parked
<1>22. SingleWriter'
  BY <1>12, <1>13 DEF SingleWriter
<1> QED
  BY <1>14, <1>15, <1>16, <1>17, <1>18, <1>20, <1>21, <1>22


(* A worker that enters becomes the writer, and there was none. *)
LEMMA EnterFence ==
  ASSUME TypeInv, FenceInv, NEW w \in Workers, Enter(w)
  PROVE  FenceInv'
<1> USE DEF FenceInv
<1>1. /\ w \in Processes /\ Workers \subseteq Processes /\ At(w, "enter")
      /\ worker \in [Processes -> Goroutines] /\ worker[w] \in Goroutines
      /\ run' = run /\ outbox' = outbox /\ run.generation \in Nat
  BY DEF Processes, TypeInv, WorkersTyped, RowsTyped, Runs, Enter
<1>2. /\ \A q \in Processes \ {w} : worker'[q] = worker[q]
      /\ worker'[w].item = worker[w].item
      /\ worker'[w].generation \in {0, worker[w].generation}
      /\ worker'[w].pc \notin {"idle", "enter"}
  <2>1. Advance \notin {"idle", "enter"}
    BY DEF Advance, FirstStep
  <2> QED
    BY <1>1, <2>1 DEF Enter, Return, Goto, Goroutines
<1>3. worker'[w].pc \in WritePoints \cup {"post"} =>
        /\ ~TerminalRun(run) /\ ~Parked(run)
        /\ worker'[w].generation = run.generation /\ run.generation # 0
  <2>1. CASE Gen(w) # 0 /\ Gen(w) = run.generation /\ ~TerminalRun(run) /\ ~Parked(run)
             /\ run.status # "stopping"
    <3>1. worker'[w].generation = worker[w].generation
      BY <1>1, <2>1 DEF Enter, Return, Goto, Goroutines
    <3> QED
      BY <2>1, <3>1 DEF Gen
  <2>2. CASE ~(Gen(w) # 0 /\ Gen(w) = run.generation /\ ~TerminalRun(run) /\ ~Parked(run)
               /\ run.status # "stopping")
    <3>1. worker'[w].pc \in {"finish", "confirm"}
      BY <1>1, <2>2 DEF Enter, Return, Goroutines
    <3> QED
      BY <3>1 DEF WritePoints
  <2> QED
    BY <2>1, <2>2
<1>4. \A v \in Workers \ {w} : MayWrite(v)' <=> MayWrite(v)
  BY <1>1, <1>2 DEF MayWrite
<1>5. ~MayWrite(w)
  BY <1>1 DEF MayWrite, WritePoints, At
<1>6. MayWrite(w)' => \A v \in Workers : ~MayWrite(v)
  BY <1>1, <1>2, <1>3 DEF MayWrite, EntryAlone
<1>7. \A v \in Workers : At(v, "enter")' => v # w /\ At(v, "enter") /\ worker'[v] = worker[v]
  BY <1>1, <1>2 DEF At
<1>8. GenerationsOld'
  <2>1. \A q \in Processes : worker'[q].generation \in {0, worker[q].generation}
    BY <1>1, <1>2
  <2> QED
    BY <1>1, <2>1 DEF GenerationsOld
<1>9. ItemsKeepKind' /\ OneLease' /\ EntryLeased'
  <2>1. ItemsKeepKind'
    BY <1>1, <1>2 DEF ItemsKeepKind, At
  <2>2. OneLease'
    BY <1>1 DEF OneLease, LiveExecution
  <2>3. EntryLeased'
    BY <1>1, <1>7 DEF EntryLeased, LiveExecution
  <2> QED
    BY <2>1, <2>2, <2>3
<1>10. WritersNumbered'
  BY <1>1, <1>2, <1>3 DEF WritersNumbered
<1>11. EntryAlone'
  <2> SUFFICES ASSUME ~TerminalRun(run), NEW v \in Workers, NEW x \in Workers,
                      MayWrite(v)', At(x, "enter")'
               PROVE  worker'[x].generation # run'.generation
    BY <1>1 DEF EntryAlone
  <2>1. x # w /\ At(x, "enter")
    BY <1>7
  <2>2. FALSE
    <3>1. worker[x].item \in DOMAIN outbox /\ worker[w].item \in DOMAIN outbox
      BY <1>1, <2>1 DEF TypeInv, WorkersTyped, At
    <3> QED
      BY <1>1, <2>1, <3>1 DEF EntryLeased, OneLease
  <2> QED
    BY <2>2
<1>12. ParkedRests'
  BY <1>1, <1>3, <1>4 DEF ParkedRests, Parked, MayWrite
<1>13. SingleWriter'
  BY <1>4, <1>6 DEF SingleWriter
<1> QED
  BY <1>8, <1>9, <1>10, <1>11, <1>12, <1>13

(* A lease that ends, by a release or by the clock, is not that of a worker  *)
(* about to enter.                                                           *)
LEMMA LeaseEndsFence ==
  ASSUME TypeInv, FenceInv, NEW i \in DOMAIN outbox, run' = run,
         \A q \in Processes : worker'[q] = worker[q] \/ worker'[q] = Idle,
         \A w \in Workers : At(w, "enter")' => worker[w].item # i \/ outbox[i].holder # w,
         DOMAIN outbox' = DOMAIN outbox,
         \A j \in DOMAIN outbox \ {i} : outbox'[j] = outbox[j],
         outbox'[i] = outbox[i]
         \/ /\ outbox'[i].kind = outbox[i].kind /\ outbox'[i].live = FALSE
            /\ outbox'[i].generation = outbox[i].generation
  PROVE  FenceInv'
<1> USE DEF FenceInv
<1>1. Workers \subseteq Processes /\ run.generation \in Nat
  BY DEF Processes, TypeInv, RowsTyped, Runs
<1>2. \A q \in Processes : ~At(q, "idle")' => ~At(q, "idle") /\ worker'[q] = worker[q]
  BY DEF At, Idle
<1>3. \A w \in Workers : MayWrite(w)' => MayWrite(w)
  BY <1>1, <1>2 DEF MayWrite, At, WritePoints
<1>4. GenerationsOld'
  <2>1. \A q \in Processes : worker'[q].generation \in {0, worker[q].generation}
    BY DEF Idle
  <2>2. \A j \in DOMAIN outbox : outbox'[j].generation = outbox[j].generation
    OBVIOUS
  <2> QED
    BY <1>1, <2>1, <2>2 DEF GenerationsOld
<1>5. ItemsKeepKind'
  <2>1. \A j \in DOMAIN outbox : outbox'[j].kind = outbox[j].kind
    OBVIOUS
  <2> QED
    BY <1>2, <2>1 DEF ItemsKeepKind, KindOf, TypeInv, WorkersTyped
<1>6. OneLease'
  BY DEF OneLease, LiveExecution
<1>7. EntryLeased'
  BY <1>1, <1>2 DEF EntryLeased, LiveExecution, At, TypeInv, WorkersTyped
<1>8. WritersNumbered'
  BY <1>1, <1>2 DEF WritersNumbered, At, WritePoints
<1>9. EntryAlone'
  BY <1>1, <1>2, <1>3 DEF EntryAlone, At
<1>10. ParkedRests' /\ SingleWriter'
  BY <1>3 DEF ParkedRests, SingleWriter
<1> QED
  BY <1>4, <1>5, <1>6, <1>7, <1>8, <1>9, <1>10

(* Complete and Retry release the item only of the goroutine that leaves. *)
LEMMA FinishFence ==
  ASSUME TypeInv, FenceInv, NEW p \in Processes, Finish(p)
  PROVE  FenceInv'
<1>0. TypeInv'
  BY FinishTyped
<1> DEFINE i == worker[p].item
<1>1. worker \in [Processes -> Goroutines] /\ outbox \in Seq(Items)
  BY DEF TypeInv, WorkersTyped, RowsTyped
<1>2. i \in DOMAIN outbox
  BY DEF Finish, TypeInv, WorkersTyped, At
<1>3. worker'[p] = Idle /\ \A q \in Processes : worker'[q] = worker[q] \/ worker'[q] = Idle
  BY <1>1 DEF Finish
<1>4. outbox' = outbox \/ outbox[i].holder = p
  BY DEF Finish, TokenMatches
<1>5. run' = run
  BY DEF Finish
<1>6. CASE outbox' = outbox
  <2>1. run \in Runs
    BY DEF TypeInv, RowsTyped
  <2>2. Quiet
    BY <1>3, <1>5, <1>6, <2>1 DEF Quiet, Grown, GoesOn, Runs
  <2> QED
    BY <1>0, <2>2, QuietFence
<1>7. CASE outbox[i].holder = p /\ outbox' # outbox
  <2>1. \A w \in Workers : At(w, "enter")' => worker[w].item # i \/ outbox[i].holder # w
    BY <1>3, <1>7 DEF At, Idle
  <2>2. outbox' = [outbox EXCEPT ![i].holder = "none", ![i].live = FALSE,
                                 ![i].done = @ \/ worker[p].err = "none"]
    BY <1>7 DEF Finish
  <2> DEFINE done == outbox[i].done \/ worker[p].err = "none"
             released == [outbox[i] EXCEPT !.holder = "none", !.live = FALSE, !.done = done]
  <2>3. outbox' = [outbox EXCEPT ![i] = released]
    BY <1>1, <1>2, <2>2
  <2>4. released.kind = outbox[i].kind /\ released.live = FALSE
        /\ released.generation = outbox[i].generation
    <3>1. outbox[i] \in Items
      BY <1>1, <1>2
    <3> QED
      BY <3>1 DEF Items
  <2> HIDE DEF released, done
  <2>5. DOMAIN outbox' = DOMAIN outbox /\ outbox'[i] = released
        /\ \A j \in DOMAIN outbox \ {i} : outbox'[j] = outbox[j]
    BY <1>1, <1>2, <2>3
  <2> QED
    BY <1>2, <1>3, <1>5, <2>1, <2>4, <2>5, LeaseEndsFence
<1> QED
  BY <1>4, <1>6, <1>7

(* A lease runs out only when nobody renews it, or after the entry. *)
LEMMA ExpiryFence ==
  ASSUME TypeInv, FenceInv, StallsAfterEntry, NEW i \in DOMAIN outbox, LeaseExpires(i) \/ Stall(i)
  PROVE  FenceInv'
<1>1. outbox \in Seq(Items) /\ outbox[i] \in Items
  BY DEF TypeInv, RowsTyped
<1>2. run' = run /\ worker' = worker /\ outbox' = [outbox EXCEPT ![i].live = FALSE]
  BY DEF LeaseExpires, Stall
<1>3. /\ DOMAIN outbox' = DOMAIN outbox /\ outbox'[i] = [outbox[i] EXCEPT !.live = FALSE]
      /\ \A j \in DOMAIN outbox \ {i} : outbox'[j] = outbox[j]
  BY <1>1, <1>2
<1>4. outbox'[i].kind = outbox[i].kind /\ outbox'[i].live = FALSE
      /\ outbox'[i].generation = outbox[i].generation
  BY <1>1, <1>3 DEF Items
<1>5. ASSUME NEW w \in Workers, At(w, "enter"), worker[w].item = i, outbox[i].holder = w
      PROVE  FALSE
  <2>1. HolderAlive(i)
    BY <1>5, ProcessAssumption DEF HolderAlive, At
  <2>2. worker[outbox[i].holder].pc \notin StallPoints
    BY <1>5 DEF At, StallsAfterEntry
  <2> QED
    BY <2>1, <2>2 DEF LeaseExpires, Stall
<1> QED
  BY <1>2, <1>3, <1>4, <1>5, LeaseEndsFence DEF At

(* Accept starts a run without workers and with one item. *)
LEMMA FenceInit == Init => FenceInv
<1> SUFFICES ASSUME Init PROVE FenceInv
  OBVIOUS
<1>1. \A p \in Processes : worker[p] = Idle
  BY DEF Init
<1>2. Workers \subseteq Processes
  BY DEF Processes
<1>3. \A w \in Workers : ~MayWrite(w) /\ ~At(w, "enter") /\ worker[w].pc # "post"
                        /\ worker[w].pc \notin WritePoints
  BY <1>1, <1>2 DEF MayWrite, At, Idle, WritePoints
<1>4. GenerationsOld /\ ItemsKeepKind /\ OneLease
  <2>1. DOMAIN outbox = {1} /\ outbox[1].generation = 0 /\ run.generation = 0
    <3>1. outbox = <<NewItem("execute")>> /\ run.generation = 0
      BY DEF Init
    <3>2. DOMAIN outbox = {1} /\ outbox[1] = NewItem("execute")
      BY <3>1
    <3> QED
      BY <3>1, <3>2 DEF NewItem
  <2> QED
    BY <1>1, <2>1 DEF GenerationsOld, ItemsKeepKind, OneLease, Idle, At
<1> QED
  BY <1>3, <1>4 DEF FenceInv, EntryLeased, WritersNumbered, EntryAlone, ParkedRests, SingleWriter

(* No step breaks the fence. *)
LEMMA FenceNext == StallsAfterEntry /\ TypeInv /\ FenceInv /\ [Next]_vars => FenceInv'
<1> SUFFICES ASSUME StallsAfterEntry, TypeInv, FenceInv, [Next]_vars PROVE FenceInv'
  OBVIOUS
<1>1. TypeInv'
  BY TypeNext
<1>2. Workers \subseteq Processes /\ Publishers \subseteq Processes
      /\ \A p \in Processes : (p \in Workers) # (p \in Publishers)
  BY ProcessAssumption DEF Processes
<1>3. Quiet => FenceInv'
  BY <1>1, QuietFence
<1>4. CASE \E w \in Workers : ExecuteStep(w)
  <2>1. PICK w \in Workers : ExecuteStep(w)
    BY <1>4
  <2>2. CASE Claim(w)
    BY <1>1, <1>2, <2>2, ClaimFence
  <2>3. CASE Enter(w)
    BY <2>3, EnterFence
  <2>4. CASE Finish(w)
    BY <1>2, <2>4, FinishFence
  <2>5. CASE Work(w)
    BY <1>3, <2>5, WorkQuiet
  <2> QED
    BY <2>1, <2>2, <2>3, <2>4, <2>5 DEF ExecuteStep, Work
<1>5. CASE \E p \in Publishers : PublishStep(p)
  <2>1. PICK p \in Publishers : PublishStep(p)
    BY <1>5
  <2>2. CASE Claim(p)
    BY <1>1, <1>2, <2>2, ClaimFence
  <2>3. CASE Finish(p)
    BY <1>2, <2>3, FinishFence
  <2>4. CASE Publish(p)
    BY <1>3, <2>4, PublishQuiet
  <2> QED
    BY <2>1, <2>2, <2>3, <2>4 DEF PublishStep, Publish
<1>6. CASE Reconcile \/ Control
  BY <1>3, <1>6, ReconcileQuiet, ControlQuiet
<1>7. CASE (\E ground \in Grounds : Withdraw(ground)) \/ (\E p \in Processes : Crash(p))
  BY <1>3, <1>7, EnvironmentQuiet
<1>8. CASE \E i \in DOMAIN outbox : LeaseExpires(i) \/ Stall(i)
  BY <1>8, ExpiryFence
<1>9. CASE UNCHANGED vars
  <2>1. run \in Runs
    BY DEF TypeInv, RowsTyped
  <2>2. Quiet
    BY <1>9, <2>1, StillGoesOn DEF vars, Quiet, Grown, Runs
  <2> QED
    BY <1>3, <2>2
<1> QED
  BY <1>4, <1>5, <1>6, <1>7, <1>8, <1>9 DEF Next

(* Two workers never drive a run under the same generation, whatever leases  *)
(* expired and whoever stalled after its entry in between (Claim and         *)
(* CheckExecutionLease).                                                     *)
THEOREM OneWriter ==
  ASSUME StallsAfterEntry
  PROVE  Spec => []SingleWriter
<1>1. Spec => []TypeInv
  BY TypeInit, TypeNext, PTL DEF Spec
<1>2. TypeInv /\ FenceInv /\ [Next]_vars => FenceInv'
  BY FenceNext
<1>3. Spec => []FenceInv
  BY <1>1, <1>2, FenceInit, PTL DEF Spec
<1>4. FenceInv => SingleWriter
  BY DEF FenceInv
<1> QED
  BY <1>3, <1>4, PTL

-----------------------------------------------------------------------------
(* What the writer knows                                                    *)

LastKind == Last(trajectory).kind

(* modelRound sends one request at a time. *)
OneRequest == \A c, d \in requests : c = d

(* A request is pending only where the model is to speak. *)
RequestAsks == requests # {} => trajectory # <<>> /\ LastKind \notin {"ask", "final"}

(* Whoever is past the first transaction works on a trajectory. *)
Begun ==
    \A w \in Workers :
        worker[w].pc \in WritePoints \ {"start", "queueOutput"} => trajectory # <<>>

(* What a worker read of the trajectory and of the calls is still so. *)
Knows(w) ==
    /\ worker[w].pc \in {"round", "request", "requestFinal"} =>
          worker[w].view = Len(trajectory) /\ LastKind \notin {"ask", "final"}
    /\ worker[w].pc \in {"request", "requestFinal"} => requests = {} /\ rounds < MaxSteps
    /\ At(w, "tool") => LastKind = "ask"
    /\ At(w, "generate") => LastKind = "final"

WriterKnows == \A w \in Workers : MayWrite(w) => Knows(w)

(* A final answer at the end answers the inputs applied so far. *)
FinalVersion ==
    trajectory # <<>> /\ LastKind = "final" => Last(trajectory).version = run.applied

FactsInv ==
    /\ SnapshotFrozen /\ CallBudget /\ OneRequest /\ RequestAsks
    /\ Begun /\ WriterKnows /\ FinalVersion

(* What moves no fact. *)
FactsStill ==
    /\ trajectory' = trajectory /\ run'.applied = run.applied
    /\ rounds' = rounds /\ requests' \subseteq requests

(* A worker that knows what it needs where it is now. *)
Informed(w) ==
    /\ worker'[w].pc \in WritePoints \ {"start", "queueOutput"} => trajectory' # <<>>
    /\ MayWrite(w)' => Knows(w)'

(* Generations only grow. *)
LEMMA GenerationGrows ==
  ASSUME TypeInv, FenceInv, [Next]_vars
  PROVE  run'.generation >= run.generation
<1>1. run \in Runs
  BY DEF TypeInv, RowsTyped
<1>2. Quiet => run'.generation >= run.generation
  BY DEF Quiet
<1>3. CASE \E p \in Processes : Claim(p)
  <2>1. run' = run \/ run' = ClaimRun(run)
    BY <1>3 DEF Claim
  <2>2. ClaimRun(run).generation \in {run.generation, run.generation + 1}
    BY <1>1 DEF ClaimRun, Runs
  <2>3. run.generation \in Nat
    BY <1>1 DEF Runs
  <2> QED
    BY <2>1, <2>2, <2>3
<1>4. CASE (\E w \in Workers : Work(w)) \/ (\E p \in Publishers : Publish(p))
  BY <1>2, <1>4, WorkQuiet, PublishQuiet
<1>5. CASE Reconcile \/ Control
  BY <1>2, <1>5, ReconcileQuiet, ControlQuiet
<1>6. CASE run' = run
  BY <1>1, <1>6 DEF Runs
<1> QED
  BY <1>3, <1>4, <1>5, <1>6 DEF Next, ExecuteStep, PublishStep, Work, Publish, Processes,
     Enter, Finish, Withdraw, Crash, LeaseExpires, Stall, vars

(* Whoever stands still is not made a writer. *)
LEMMA StillWriter ==
  ASSUME TypeInv, FenceInv, [Next]_vars, NEW w \in Workers, worker'[w] = worker[w],
         MayWrite(w)'
  PROVE  MayWrite(w)
<1>1. run.generation \in Nat /\ run'.generation \in Nat /\ worker[w].generation \in Nat
      /\ worker[w].generation <= run.generation
  BY TypeNext DEF TypeInv, RowsTyped, Runs, WorkersTyped, Goroutines, FenceInv, GenerationsOld,
     Processes
<1> QED
  BY <1>1, GenerationGrows DEF MayWrite

(* Where no fact moves, whoever stood still still knows what it knew. *)
LEMMA FactsStillKept ==
  ASSUME TypeInv, FenceInv, FactsInv, [Next]_vars, FactsStill,
         \A w \in Workers : worker'[w] = worker[w] \/ Informed(w)
  PROVE  FactsInv'
<1> USE DEF FactsInv, FactsStill
<1>1. ASSUME NEW w \in Workers, worker'[w] = worker[w] PROVE Informed(w)
  <2>1. MayWrite(w)' => MayWrite(w)
    BY <1>1, StillWriter
  <2>2. Knows(w) => Knows(w)'
    <3>1. LastKind' = LastKind /\ Len(trajectory)' = Len(trajectory) /\ rounds' = rounds
          /\ (requests = {} => requests' = {})
      BY DEF LastKind
    <3> QED
      BY <1>1, <3>1 DEF Knows, At
  <2> QED
    BY <1>1, <2>1, <2>2 DEF Informed, WriterKnows, Begun
<1>2. Begun' /\ WriterKnows'
  BY <1>1 DEF Informed, Begun, WriterKnows
<1>3. SnapshotFrozen' /\ CallBudget' /\ OneRequest' /\ RequestAsks' /\ FinalVersion'
  BY DEF SnapshotFrozen, CallBudget, OneRequest, RequestAsks, FinalVersion, LastKind
<1> QED
  BY <1>2, <1>3

(* Where the writer moves a fact, only it has to know. *)
LEMMA FactsWritten ==
  ASSUME TypeInv, FenceInv, FactsInv, [Next]_vars, NEW w \in Workers, MayWrite(w),
         MovesAlone(w), Informed(w), trajectory' # <<>>
  PROVE  Begun' /\ WriterKnows'
<1>1. ASSUME NEW v \in Workers, v # w PROVE ~MayWrite(v)'
  <2>1. worker'[v] = worker[v]
    BY <1>1 DEF MovesAlone, Processes
  <2>2. ~MayWrite(v)
    BY <1>1 DEF FenceInv, SingleWriter
  <2> QED
    BY <2>1, <2>2, StillWriter
<1> QED
  BY <1>1 DEF Begun, WriterKnows, Informed

(* appendInputs appends the accepted inputs in their order, or nothing. *)
LEMMA PendingShape ==
  ASSUME NEW r \in Runs
  PROVE  \/ PendingInputs(r) = <<>>
         \/ /\ requests = {} /\ r.input > r.applied
            /\ Len(PendingInputs(r)) = r.input - r.applied
            /\ \A i \in 1 .. r.input - r.applied :
                  PendingInputs(r)[i] = [kind |-> "input", version |-> r.applied + i]
<1> DEFINE n == r.input - r.applied
           f == [i \in 1 .. n |-> [kind |-> "input", version |-> r.applied + i]]
<1>1. r.input \in Nat /\ r.applied \in Nat
  BY DEF Runs
<1>2. CASE requests # {}
  BY <1>2 DEF PendingInputs
<1>3. CASE requests = {} /\ r.input > r.applied
  <2>1. n \in Nat /\ \A i \in 1 .. n : [kind |-> "input", version |-> r.applied + i] \in Blocks
    BY <1>1, <1>3 DEF Blocks
  <2>2. f \in Seq(Blocks) /\ Len(f) = n /\ DOMAIN f = 1 .. n
    BY <2>1, IsASeq, LenProperties
  <2>3. PendingInputs(r) = f
    BY <1>3 DEF PendingInputs
  <2>4. \A i \in 1 .. n : f[i] = [kind |-> "input", version |-> r.applied + i]
    OBVIOUS
  <2> HIDE DEF f
  <2> QED
    BY <1>3, <2>2, <2>3, <2>4
<1>4. CASE requests = {} /\ ~(r.input > r.applied)
  <2>1. 1 .. n = {}
    BY <1>1, <1>4
  <2>2. f = << >>
    BY <2>1
  <2>3. PendingInputs(r) = f
    BY <1>4 DEF PendingInputs
  <2> HIDE DEF f
  <2> QED
    BY <2>2, <2>3
<1> QED
  BY <1>2, <1>3, <1>4

(* Applying the accepted inputs leaves everything else but the mark. *)
LEMMA ApplyShape ==
  ASSUME NEW r \in Runs
  PROVE  /\ ApplyInputs(r).applied = (IF PendingInputs(r) = <<>> THEN r.applied ELSE r.input)
         /\ ApplyInputs(r).input = r.input /\ ApplyInputs(r).output = r.output
         /\ ApplyInputs(r).status = r.status /\ ApplyInputs(r).generation = r.generation
         /\ ApplyInputs(r).executor = r.executor /\ ApplyInputs(r).stop = r.stop
  BY DEF ApplyInputs, Runs

(* The block at the end once the accepted inputs are appended. *)
LEMMA LastAfterInputs ==
  ASSUME NEW r \in Runs, NEW s \in Seq(Blocks), s # <<>>
  PROVE  /\ s \o PendingInputs(r) \in Seq(Blocks) /\ s \o PendingInputs(r) # <<>>
         /\ PendingInputs(r) = <<>> => s \o PendingInputs(r) = s
         /\ PendingInputs(r) # <<>> => Last(s \o PendingInputs(r)).kind = "input"
<1> DEFINE p == PendingInputs(r)
<1>1. p \in Seq(Blocks)
  BY PendingInputsTyped
<1>2. /\ s \o p \in Seq(Blocks) /\ Len(s \o p) = Len(s) + Len(p)
      /\ Len(s) \in Nat \ {0} /\ Len(p) \in Nat
      /\ \A i \in 1 .. Len(s) + Len(p) :
            (s \o p)[i] = IF i <= Len(s) THEN s[i] ELSE p[i - Len(s)]
  BY <1>1, ConcatProperties, LenProperties, EmptySeq
<1>3. s \o p # <<>>
  BY <1>2
<1>4. p = <<>> => s \o p = s
  BY <1>1, ConcatEmptySeq
<1>5. ASSUME p # <<>> PROVE Last(s \o p).kind = "input"
  <2>1. r.applied \in Nat /\ r.input \in Nat
    BY DEF Runs
  <2> DEFINE n == r.input - r.applied
  <2>2. Len(p) = n /\ n \in Nat \ {0} /\ p[n] = [kind |-> "input", version |-> r.applied + n]
    BY <1>5, <2>1, PendingShape
  <2>3. Last(s \o p) = p[n]
    BY <1>2, <2>2 DEF Last
  <2> QED
    BY <2>2, <2>3
<1> QED
  BY <1>2, <1>3, <1>4, <1>5

(* Whatever leaves w's place outside the points of a writer informs it. *)
LEMMA LeftInformed ==
  ASSUME NEW w \in Workers, worker'[w].pc \notin WritePoints
  PROVE  Informed(w)
  BY DEF Informed, MayWrite

(* The points at which a worker needs the trajectory but relies on nothing.  *)
LEMMA FreeInformed ==
  ASSUME NEW w \in Workers, worker'[w].pc \in {"restart", "agent", "invoke", "inflight", "final"},
         trajectory' # <<>>
  PROVE  Informed(w)
  BY DEF Informed, Knows, At

(* The points at which it may not even have begun. *)
LEMMA FirstInformed ==
  ASSUME NEW w \in Workers, worker'[w].pc \in {"start", "queueOutput"}
  PROVE  Informed(w)
  BY DEF Informed, Knows, At

(* The first transaction finds no request, and writes the first blocks. *)
LEMMA StartFacts ==
  ASSUME TypeInv, FenceInv, FactsInv, NEW w \in Workers, Start(w)
  PROVE  FactsInv'
<1> USE DEF FactsInv
<1>0. [Next]_vars /\ w \in Processes /\ run \in Runs /\ trajectory \in Seq(Blocks)
  BY DEF Next, ExecuteStep, Processes, TypeInv, RowsTyped
<1>1. CASE \E err : Return(w, "post", err) /\ UNCHANGED <<run, trajectory>>
  <2>1. MovesAlone(w) /\ worker'[w].pc = "post"
    BY <1>0, <1>1, MoveFrame
  <2>2. Informed(w)
    BY <2>1, LeftInformed DEF WritePoints
  <2>3. FactsStill
    BY <1>1 DEF Start, FactsStill
  <2> QED
    BY <1>0, <2>1, <2>2, <2>3, FactsStillKept DEF MovesAlone, Processes
<1>2. CASE ExecutionOpen(Gen(w)) /\ trajectory = <<>>
  <2> DEFINE started == [run EXCEPT !.status = "running", !.executor = "accepted"]
             system == <<[kind |-> "system", version |-> 0]>>
  <2>1. /\ run' = ApplyInputs(started) /\ trajectory' = system \o PendingInputs(run)
        /\ Goto(w, "agent") /\ requests' = requests /\ rounds' = rounds
    BY <1>2 DEF Start
  <2>2. started \in Runs /\ started.applied = run.applied /\ started.input = run.input
    BY <1>0 DEF Runs, Statuses, ExecutorStatuses
  <2>3. system \in Seq(Blocks) /\ system # <<>> /\ Last(system).kind = "system"
    BY DEF Blocks, Last
  <2> HIDE DEF started, system
  <2>4. trajectory' # <<>> /\ Last(trajectory').kind \in {"system", "input"}
    BY <1>0, <2>1, <2>3, LastAfterInputs
  <2>5. requests = {}
    BY <1>2 DEF RequestAsks
  <2>6. MovesAlone(w) /\ worker'[w].pc = "agent"
    BY <1>0, <2>1, MoveFrame
  <2>7. MayWrite(w)
    BY <1>2, LeaseWrites DEF Start, At, WritePoints, ExecutionOpen, LifecycleOpen
  <2>8. Begun' /\ WriterKnows'
    BY <1>0, <2>4, <2>6, <2>7, FreeInformed, FactsWritten
  <2> QED
    BY <2>1, <2>4, <2>5, <2>8 DEF SnapshotFrozen, CallBudget, OneRequest, RequestAsks,
       FinalVersion, LastKind
<1> QED
  BY <1>1, <1>2 DEF Start

(* Pausing moves no fact; the accepted inputs follow the last block, and the *)
(* round that begins has read them.                                          *)
LEMMA BeforeModelFacts ==
  ASSUME TypeInv, FenceInv, FactsInv, NEW w \in Workers, BeforeModel(w)
  PROVE  FactsInv'
<1> USE DEF FactsInv
<1>0. [Next]_vars /\ w \in Processes /\ run \in Runs /\ trajectory \in Seq(Blocks)
      /\ worker \in [Processes -> Goroutines] /\ worker[w] \in Goroutines
  BY DEF Next, ExecuteStep, Processes, TypeInv, RowsTyped, WorkersTyped
<1>1. worker[w].pc = "agent" /\ trajectory # <<>> /\ requests' = requests /\ rounds' = rounds
  BY DEF BeforeModel, AtBoundary, At, Begun, WritePoints
<1>2. CASE \/ \E err : Return(w, "post", err) /\ trajectory' = trajectory
                       /\ run'.applied = run.applied
           \/ LastKind = "ask" /\ Goto(w, "tool") /\ UNCHANGED <<run, trajectory>>
  <2>1. MovesAlone(w) /\ \/ worker'[w].pc = "post"
                         \/ worker'[w].pc = "tool" /\ LastKind' = "ask" /\ run' = run
    BY <1>0, <1>2, MoveFrame DEF LastKind
  <2>2. Informed(w)
    BY <1>1, <1>2, <2>1 DEF Informed, MayWrite, WritePoints, Knows, At
  <2>3. FactsStill
    BY <1>1, <1>2 DEF FactsStill
  <2> QED
    BY <1>0, <2>1, <2>2, <2>3, FactsStillKept DEF MovesAlone, Processes
<1>3. CASE /\ BoundaryPassed(w) /\ LastKind # "ask"
           /\ run' = ApplyInputs(run) /\ trajectory' = trajectory \o PendingInputs(run)
           /\ worker' = [worker EXCEPT
                 ![w].pc = IF Last(trajectory').kind = "final" THEN "final" ELSE "round",
                 ![w].view = Len(trajectory')]
  <2>1. /\ MovesAlone(w) /\ worker'[w].view = Len(trajectory')
        /\ worker'[w].pc = IF Last(trajectory').kind = "final" THEN "final" ELSE "round"
    BY <1>0, <1>3 DEF MovesAlone, Goroutines
  <2>2. MayWrite(w)
    BY <1>1, <1>3, LeaseWrites DEF BoundaryPassed, WritePoints
  <2>3. trajectory' # <<>> /\ (PendingInputs(run) = <<>> => trajectory' = trajectory)
        /\ (PendingInputs(run) # <<>> => Last(trajectory').kind = "input")
    BY <1>0, <1>1, <1>3, LastAfterInputs
  <2>4. LastKind' # "ask"
    BY <1>3, <2>3 DEF LastKind
  <2>5. Informed(w)
    BY <2>1, <2>3, <2>4 DEF Informed, Knows, At, LastKind
  <2>6. Begun' /\ WriterKnows'
    BY <1>0, <2>1, <2>2, <2>3, <2>5, FactsWritten
  <2>7. SnapshotFrozen' /\ RequestAsks' /\ FinalVersion'
    <3>1. CASE PendingInputs(run) = <<>>
      <4>1. run'.applied = run.applied /\ trajectory' = trajectory
        BY <1>0, <1>3, <2>3, <3>1, ApplyShape
      <4> QED
        BY <1>1, <4>1 DEF SnapshotFrozen, RequestAsks, FinalVersion, LastKind
    <3>2. CASE PendingInputs(run) # <<>>
      <4>1. requests = {} /\ LastKind' = "input"
        BY <1>0, <2>3, <3>2, PendingShape DEF LastKind
      <4> QED
        BY <1>1, <4>1 DEF SnapshotFrozen, RequestAsks, FinalVersion
    <3> QED
      BY <3>1, <3>2
  <2> QED
    BY <1>1, <2>6, <2>7 DEF CallBudget, OneRequest
<1> QED
  <2>1. CASE ~BoundaryPassed(w) \/ LastKind = "ask" \/ (run.waiting /\ run.input = run.applied)
    <3>1. run' = run \/ run' = [run EXCEPT !.status = "waiting_input"]
          \/ (BoundaryPassed(w) /\ LastKind # "ask" /\ ~(run.waiting /\ run.input = run.applied))
      BY DEF BeforeModel, LastKind
    <3>2. run'.applied = run.applied
      BY <1>0, <2>1, <3>1 DEF Runs
    <3> QED
      BY <1>2, <2>1, <3>2 DEF BeforeModel, LastKind
  <2>2. CASE BoundaryPassed(w) /\ LastKind # "ask" /\ ~(run.waiting /\ run.input = run.applied)
    BY <1>3, <2>2 DEF BeforeModel, LastKind
  <2> QED
    BY <2>1, <2>2

(* Choosing a round moves nothing; the budget it has read is the writer's.   *)
LEMMA PrepareRequestFacts ==
  ASSUME TypeInv, FenceInv, FactsInv, NEW w \in Workers, PrepareRequest(w)
  PROVE  FactsInv'
<1>0. [Next]_vars /\ w \in Processes /\ worker \in [Processes -> Goroutines]
      /\ worker[w] \in Goroutines /\ rounds \in Nat
  BY DEF Next, ExecuteStep, Processes, TypeInv, RowsTyped, WorkersTyped
<1>1. worker[w].pc = "round" /\ trajectory # <<>> /\ FactsStill /\ run' = run
      /\ UNCHANGED <<requests, rounds, trajectory>>
  BY DEF PrepareRequest, At, FactsInv, Begun, WritePoints, FactsStill
<1>2. CASE \/ \E err : Return(w, "post", err)
           \/ \E id : worker' = [worker EXCEPT ![w].pc = "invoke", ![w].request = id]
  <2>1. MovesAlone(w) /\ worker'[w].pc \in {"post", "invoke"}
    BY <1>0, <1>2 DEF Return, MovesAlone, Goroutines
  <2>2. Informed(w)
    BY <1>1, <2>1, LeftInformed, FreeInformed DEF WritePoints
  <2> QED
    BY <1>0, <1>1, <2>1, <2>2, FactsStillKept DEF MovesAlone, Processes
<1>3. CASE requests = {} /\ ~BudgetSpent /\ (Goto(w, "request") \/ Goto(w, "requestFinal"))
  <2>1. MovesAlone(w) /\ Keeps(w) /\ worker'[w].pc \in {"request", "requestFinal"}
        /\ worker'[w].view = worker[w].view
    BY <1>0, <1>3 DEF Goto, MovesAlone, Keeps, Goroutines
  <2>2. rounds < MaxSteps
    BY <1>0, <1>3, MaxStepsAssumption DEF BudgetSpent
  <2>3. MayWrite(w)' => MayWrite(w)
    BY <1>1, <2>1 DEF MayWrite, Keeps, WritePoints
  <2>4. LastKind' = LastKind
    BY <1>1 DEF LastKind
  <2>5. MayWrite(w) => worker[w].view = Len(trajectory) /\ LastKind \notin {"ask", "final"}
    BY <1>1 DEF FactsInv, WriterKnows, Knows
  <2>6. Informed(w)
    BY <1>1, <1>3, <2>1, <2>2, <2>3, <2>4, <2>5 DEF Informed, Knows, At
  <2> QED
    BY <1>0, <1>1, <2>1, <2>6, FactsStillKept DEF MovesAlone, Processes
<1> QED
  BY <1>2, <1>3 DEF PrepareRequest

(* The request that is frozen is the only one, and the budget has room. *)
LEMMA CreateRequestFacts ==
  ASSUME TypeInv, FenceInv, FactsInv, NEW w \in Workers, CreateRequest(w)
  PROVE  FactsInv'
<1> USE DEF FactsInv
<1>0. [Next]_vars /\ w \in Processes /\ worker \in [Processes -> Goroutines]
      /\ worker[w] \in Goroutines /\ rounds \in Nat
  BY DEF Next, ExecuteStep, Processes, TypeInv, RowsTyped, WorkersTyped
<1>1. worker[w].pc \in {"request", "requestFinal"} /\ trajectory # <<>>
      /\ run' = run /\ trajectory' = trajectory
  BY DEF CreateRequest, At, Begun, WritePoints
<1>2. CASE (\E err : Return(w, "post", err)) /\ UNCHANGED <<requests, rounds>>
  <2>1. MovesAlone(w) /\ worker'[w].pc = "post"
    BY <1>0, <1>2, MoveFrame
  <2>2. Informed(w) /\ FactsStill
    BY <1>1, <1>2, <2>1, LeftInformed DEF WritePoints, FactsStill
  <2> QED
    BY <1>0, <2>1, <2>2, FactsStillKept DEF MovesAlone, Processes
<1>3. CASE ExecutionOpen(Gen(w)) /\ Len(trajectory) = worker[w].view
  <2> DEFINE request == [id |-> rounds + 1, bound |-> run.applied,
                         length |-> Len(trajectory), tools |-> At(w, "request")]
  <2>1. /\ requests' = requests \cup {request} /\ rounds' = rounds + 1
        /\ worker' = [worker EXCEPT ![w].pc = "invoke", ![w].request = rounds + 1]
    BY <1>3 DEF CreateRequest
  <2>2. request.bound = run.applied /\ request.length = Len(trajectory)
    OBVIOUS
  <2> HIDE DEF request
  <2>3. MayWrite(w)
    BY <1>1, <1>3, LeaseWrites DEF WritePoints, ExecutionOpen, LifecycleOpen
  <2>4. requests = {} /\ rounds < MaxSteps /\ LastKind \notin {"ask", "final"}
    BY <1>1, <2>3 DEF WriterKnows, Knows
  <2>5. MovesAlone(w) /\ worker'[w].pc = "invoke"
    BY <1>0, <2>1 DEF MovesAlone, Goroutines
  <2>6. Begun' /\ WriterKnows'
    BY <1>0, <1>1, <2>3, <2>5, FreeInformed, FactsWritten
  <2>7. CallBudget'
    BY <1>0, <2>1, <2>4, MaxStepsAssumption DEF CallBudget
  <2> QED
    BY <1>1, <2>1, <2>2, <2>4, <2>6, <2>7 DEF SnapshotFrozen, OneRequest, RequestAsks,
       FinalVersion, LastKind
<1> QED
  BY <1>2, <1>3 DEF CreateRequest

(* Appending one block puts it at the end. *)
LEMMA LastAppended ==
  ASSUME trajectory \in Seq(Blocks), NEW b \in Blocks
  PROVE  Append(trajectory, b) # <<>> /\ Last(Append(trajectory, b)) = b
<1>1. Append(trajectory, b) \in Seq(Blocks) /\ Len(Append(trajectory, b)) = Len(trajectory) + 1
      /\ Append(trajectory, b)[Len(trajectory) + 1] = b /\ Len(trajectory) \in Nat
  BY AppendProperties, LenProperties
<1> QED
  BY <1>1 DEF Last

(* An answer counts once, for the one request that was pending. *)
LEMMA RespondFacts ==
  ASSUME TypeInv, FenceInv, FactsInv, NEW w \in Workers, NEW kind \in {"final", "ask"},
         Respond(w, kind)
  PROVE  FactsInv'
<1> USE DEF FactsInv
<1> DEFINE mine == {c \in requests : c.id = worker[w].request}
           block == [kind |-> kind, version |-> Newest(mine).bound]
<1>0. [Next]_vars /\ w \in Processes /\ trajectory \in Seq(Blocks) /\ run.applied \in Nat
  BY DEF Next, ExecuteStep, Processes, TypeInv, RowsTyped, Runs
<1>1. worker[w].pc = "inflight" /\ run' = run /\ rounds' = rounds
  BY DEF Respond, At
<1>2. CASE (\E err : Return(w, "post", err)) /\ UNCHANGED <<trajectory, requests>>
  <2>1. MovesAlone(w) /\ worker'[w].pc = "post"
    BY <1>0, <1>2, MoveFrame
  <2>2. Informed(w) /\ FactsStill
    BY <1>1, <1>2, <2>1, LeftInformed DEF WritePoints, FactsStill
  <2> QED
    BY <1>0, <2>1, <2>2, FactsStillKept DEF MovesAlone, Processes
<1>3. CASE /\ ExecutionOpen(Gen(w)) /\ mine # {}
           /\ trajectory' = Append(trajectory, block) /\ requests' = requests \ mine
           /\ Goto(w, IF kind = "ask" THEN "tool" ELSE "final")
  <2>1. Newest(mine) \in mine
    <3>1. PICK c \in mine : TRUE
      BY <1>3
    <3>2. c.id <= c.id /\ \A d \in mine : d = c
      BY DEF OneRequest, TypeInv, RowsTyped, Requests
    <3> QED
      BY <3>2 DEF Newest
  <2>2. Newest(mine).bound = run.applied /\ requests' = {}
    BY <1>3, <2>1 DEF SnapshotFrozen, OneRequest
  <2>3. block = [kind |-> kind, version |-> run.applied] /\ block \in Blocks
    BY <1>0, <2>2 DEF Blocks
  <2> HIDE DEF mine, block
  <2>4. trajectory' # <<>> /\ Last(trajectory') = block
    BY <1>0, <1>3, <2>3, LastAppended
  <2>5. block.kind = kind /\ block.version = run.applied
    BY <2>3
  <2>6. MovesAlone(w) /\ worker'[w].pc = IF kind = "ask" THEN "tool" ELSE "final"
    BY <1>0, <1>3, MoveFrame
  <2>7. MayWrite(w)
    BY <1>1, <1>3, LeaseWrites DEF WritePoints, ExecutionOpen, LifecycleOpen
  <2>8. Informed(w)
    BY <2>4, <2>5, <2>6 DEF Informed, Knows, At, LastKind
  <2>9. Begun' /\ WriterKnows'
    BY <1>0, <2>4, <2>6, <2>7, <2>8, FactsWritten
  <2> QED
    BY <1>1, <2>2, <2>4, <2>5, <2>9 DEF SnapshotFrozen, CallBudget, OneRequest, RequestAsks,
       FinalVersion, LastKind
<1> QED
  BY <1>2, <1>3 DEF Respond

(* Asking for an input answers the tool call, while no request is pending. *)
LEMMA AskForInputFacts ==
  ASSUME TypeInv, FenceInv, FactsInv, NEW w \in Workers, AskForInput(w)
  PROVE  FactsInv'
<1> USE DEF FactsInv
<1> DEFINE block == [kind |-> "result", version |-> run.applied]
<1>0. [Next]_vars /\ w \in Processes /\ trajectory \in Seq(Blocks) /\ run \in Runs
  BY DEF Next, ExecuteStep, Processes, TypeInv, RowsTyped
<1>1. worker[w].pc = "tool" /\ requests' = requests /\ rounds' = rounds
  BY DEF AskForInput, AtBoundary, At
<1>2. CASE (\E err : Return(w, "post", err)) /\ UNCHANGED <<run, trajectory>>
  <2>1. MovesAlone(w) /\ worker'[w].pc = "post"
    BY <1>0, <1>2, MoveFrame
  <2>2. Informed(w) /\ FactsStill
    BY <1>1, <1>2, <2>1, LeftInformed DEF WritePoints, FactsStill
  <2> QED
    BY <1>0, <2>1, <2>2, FactsStillKept DEF MovesAlone, Processes
<1>3. CASE /\ ExecutionOpen(Gen(w)) /\ run' = [run EXCEPT !.waiting = TRUE]
           /\ trajectory' = Append(trajectory, block) /\ Goto(w, "agent")
  <2>1. block \in Blocks /\ block.kind = "result" /\ run'.applied = run.applied
    BY <1>0, <1>3 DEF Blocks, Runs
  <2> HIDE DEF block
  <2>2. trajectory' # <<>> /\ Last(trajectory') = block
    BY <1>0, <1>3, <2>1, LastAppended
  <2>3. MovesAlone(w) /\ worker'[w].pc = "agent"
    BY <1>0, <1>3, MoveFrame
  <2>4. MayWrite(w)
    BY <1>1, <1>3, LeaseWrites DEF WritePoints, ExecutionOpen, LifecycleOpen
  <2>5. LastKind = "ask" /\ requests = {}
    BY <1>1, <2>4 DEF WriterKnows, Knows, At, RequestAsks
  <2>6. Begun' /\ WriterKnows'
    BY <1>0, <2>2, <2>3, <2>4, FreeInformed, FactsWritten
  <2> QED
    BY <1>1, <2>1, <2>2, <2>5, <2>6 DEF SnapshotFrozen, CallBudget, OneRequest, RequestAsks,
       FinalVersion, LastKind
<1> QED
  BY <1>2, <1>3 DEF AskForInput

(* A worker that moves alone and stays informed keeps what is known. *)
LEMMA OneInformed ==
  ASSUME TypeInv, FenceInv, FactsInv, [Next]_vars, FactsStill,
         NEW w \in Processes, MovesAlone(w), w \in Workers => Informed(w)
  PROVE  FactsInv'
<1>1. \A v \in Workers : worker'[v] = worker[v] \/ Informed(v)
  BY DEF MovesAlone, Processes
<1> QED
  BY <1>1, FactsStillKept

(* A worker that enters finds the trajectory begun, or begins it. *)
LEMMA EnterFacts ==
  ASSUME TypeInv, FenceInv, FactsInv, NEW w \in Workers, Enter(w)
  PROVE  FactsInv'
<1>1. [Next]_vars /\ w \in Processes /\ worker \in [Processes -> Goroutines]
      /\ worker[w] \in Goroutines /\ FactsStill /\ trajectory' = trajectory
  BY DEF Next, ExecuteStep, Processes, TypeInv, WorkersTyped, Enter, FactsStill
<1>2. MovesAlone(w) /\ worker'[w].pc \in {"finish", "confirm", "post", Advance}
  BY <1>1 DEF Enter, Return, Goto, MovesAlone, Goroutines
<1>3. \/ Advance \in {"post", "queueOutput", "start"}
      \/ Advance \in {"restart", "agent"} /\ trajectory # <<>>
  BY DEF Advance, FirstStep
<1>4. Informed(w)
  BY <1>1, <1>2, <1>3, LeftInformed, FreeInformed, FirstInformed DEF WritePoints
<1> QED
  BY <1>1, <1>2, <1>4, OneInformed

(* The steps of a worker that only look, or that write the row. *)
LEMMA LookFacts ==
  ASSUME TypeInv, FenceInv, FactsInv, NEW w \in Workers,
         Restart(w) \/ Invoke(w) \/ RespondError(w) \/ FinalCheck(w)
  PROVE  FactsInv'
<1>1. [Next]_vars /\ w \in Processes /\ run \in Runs
  BY DEF Next, ExecuteStep, Processes, TypeInv, RowsTyped
<1>2. trajectory' = trajectory /\ FactsStill
  <2>1. run'.applied = run.applied
    BY <1>1 DEF Restart, Invoke, RespondError, FinalCheck, Runs
  <2> QED
    BY <2>1 DEF Restart, Invoke, RespondError, FinalCheck, FactsStill
<1>3. trajectory # <<>>
  BY DEF Restart, Invoke, RespondError, FinalCheck, AtBoundary, At, FactsInv, Begun, WritePoints
<1>4. \/ (\E pc \in {"post", "agent", "inflight"} : Goto(w, pc) \/ \E err : Return(w, pc, err))
      \/ Goto(w, "generate") /\ LastKind = "final"
  BY DEF Restart, Invoke, RespondError, FinalCheck, LastKind
<1>5. MovesAlone(w) /\ \/ worker'[w].pc \in {"post", "agent", "inflight"}
                       \/ worker'[w].pc = "generate" /\ LastKind = "final"
  BY <1>1, <1>4, MoveFrame
<1>6. LastKind' = LastKind
  BY <1>2 DEF LastKind
<1>7. worker'[w].pc = "generate" /\ LastKind = "final" => Informed(w)
  BY <1>2, <1>3, <1>6 DEF Informed, Knows, At
<1>8. Informed(w)
  BY <1>2, <1>3, <1>5, <1>7, LeftInformed, FreeInformed DEF WritePoints
<1> QED
  BY <1>1, <1>2, <1>5, <1>8, OneInformed

(* Completing, leaving and ending write the row and drop requests. *)
LEMMA LeaveFacts ==
  ASSUME TypeInv, FenceInv, FactsInv, NEW w \in Workers,
         Generate(w) \/ QueueOutput(w) \/ Post(w) \/ ConfirmStop(w) \/ Fail(w)
  PROVE  FactsInv'
<1>1. [Next]_vars /\ w \in Processes /\ run \in Runs
  BY DEF Next, ExecuteStep, Processes, TypeInv, RowsTyped
<1>2. trajectory' = trajectory /\ FactsStill
  <2>1. run'.applied = run.applied
    BY <1>1 DEF Generate, QueueOutput, Post, ConfirmStop, Fail, FailedRun, Runs
  <2> QED
    BY <2>1 DEF Generate, QueueOutput, Post, ConfirmStop, Fail, FactsStill
<1>3. \/ (\E pc \in {"post", "queueOutput", "finish", "confirm", "fail"} :
             Goto(w, pc) \/ \E err : Return(w, pc, err))
      \/ Goto(w, "agent") /\ trajectory # <<>>
  BY DEF Generate, QueueOutput, Post, ConfirmStop, Fail, At, FactsInv, Begun, WritePoints
<1>4. MovesAlone(w) /\ \/ worker'[w].pc \in {"post", "queueOutput", "finish", "confirm", "fail"}
                       \/ worker'[w].pc = "agent" /\ trajectory # <<>>
  BY <1>1, <1>3, MoveFrame
<1>5. Informed(w)
  BY <1>2, <1>4, LeftInformed, FreeInformed, FirstInformed DEF WritePoints
<1> QED
  BY <1>1, <1>2, <1>4, <1>5, OneInformed

(* Claims and releases take nobody to a point of a writer. *)
LEMMA FreshFacts ==
  ASSUME TypeInv, FenceInv, FactsInv, [Next]_vars, NEW p \in Processes, Claim(p) \/ Finish(p)
  PROVE  FactsInv'
<1>1. worker \in [Processes -> Goroutines] /\ run \in Runs
  BY DEF TypeInv, WorkersTyped, RowsTyped
<1>2. MovesAlone(p) /\ worker'[p].pc \in {"enter", "read", "idle"}
  <2>1. CASE Finish(p)
    BY <1>1, <2>1 DEF Finish, Idle, MovesAlone
  <2>2. CASE Claim(p)
    <3>1. PICK i, n :
             worker' = [worker EXCEPT ![p] =
                [Idle EXCEPT !.pc = IF p \in Workers THEN "enter" ELSE "read",
                             !.item = i, !.generation = n]]
      BY <2>2, ClaimMoves
    <3> QED
      BY <1>1, <3>1 DEF Idle, MovesAlone
  <2> QED
    BY <2>1, <2>2
<1>3. FactsStill
  <2>1. run' \in {run, ClaimRun(run)}
    BY DEF Claim, Finish
  <2>2. ClaimRun(run).applied = run.applied
    BY <1>1 DEF ClaimRun, Runs
  <2>3. run'.applied = run.applied
    BY <2>1, <2>2
  <2> QED
    BY <2>3 DEF Claim, Finish, FactsStill
<1>4. p \in Workers => Informed(p)
  BY <1>2, LeftInformed DEF WritePoints
<1> QED
  BY <1>2, <1>3, <1>4, OneInformed

(* Nobody but the writer adds to what is known. *)
LEMMA OthersFacts ==
  ASSUME TypeInv, [Next]_vars, Reconcile \/ Control \/ \E p \in Publishers : Publish(p)
  PROVE  FactsStill
<1>1. run \in Runs
  BY DEF TypeInv, RowsTyped
<1>2. trajectory' = trajectory /\ rounds' = rounds /\ requests' \subseteq requests
  BY DEF Reconcile, ReconcileLease, ReconcileController, ReconcileRevocation, Control,
     ControlInput, ControlResume, ControlTakeover, ControlStop, Publish, ReadOutput,
     SendBotReply, SendUnavailable, CommitOutput, CommitPersonal, FailOutput
<1>3. run'.applied = run.applied
  <2>1. CASE ReconcileLease \/ ReconcileController
    BY <1>1, <2>1 DEF ReconcileLease, ReconcileController, Runs
  <2>2. CASE ReconcileRevocation
    <3> DEFINE marked == [run EXCEPT !.revoked = TRUE]
    <3>1. marked \in Runs /\ marked.applied = run.applied
      BY <1>1 DEF Runs
    <3>2. run' = RequestStop(marked, AuthorityReason).row
      BY <2>2 DEF ReconcileRevocation
    <3> HIDE DEF marked
    <3> QED
      BY <3>1, <3>2, RequestStopRow
  <2>3. CASE ControlInput \/ ControlResume
    BY <1>1, <2>3 DEF ControlInput, ControlResume, Runs
  <2>4. CASE ControlTakeover
    BY <1>1, <2>4 DEF ControlTakeover, Runs
  <2>5. CASE ControlStop
    <3>1. \/ run' = [run EXCEPT !.reason = "user_requested"]
          \/ run' = RequestStop(run, "user_requested").row
      BY <2>5 DEF ControlStop
    <3>2. RequestStop(run, "user_requested").row.applied = run.applied
      BY <1>1, RequestStopRow
    <3> QED
      BY <1>1, <3>1, <3>2 DEF Runs
  <2>6. CASE \E p \in Publishers : Publish(p)
    BY <1>1, <2>6 DEF Publish, ReadOutput, SendBotReply, SendUnavailable, CommitOutput,
       CommitPersonal, FailOutput, SucceededRun, FailedRun, Runs
  <2> QED
    BY <2>1, <2>2, <2>3, <2>4, <2>5, <2>6 DEF Reconcile, Control
<1> QED
  BY <1>2, <1>3 DEF FactsStill

(* Accept writes no fact. *)
LEMMA FactsInit == Init => FactsInv
<1> SUFFICES ASSUME Init PROVE FactsInv
  OBVIOUS
<1>1. \A w \in Workers : worker[w].pc = "idle"
  BY DEF Init, Idle, Processes
<1>2. trajectory = <<>> /\ requests = {} /\ rounds = 0
  BY DEF Init
<1>3. Begun /\ WriterKnows
  BY <1>1 DEF Begun, WriterKnows, MayWrite, WritePoints
<1>4. CallBudget
  BY <1>2, MaxStepsAssumption DEF CallBudget
<1> QED
  BY <1>2, <1>3, <1>4 DEF FactsInv, SnapshotFrozen, OneRequest, RequestAsks, FinalVersion

(* What is known stays known. *)
LEMMA FactsNext == TypeInv /\ FenceInv /\ FactsInv /\ [Next]_vars => FactsInv'
<1> SUFFICES ASSUME TypeInv, FenceInv, FactsInv, [Next]_vars PROVE FactsInv'
  OBVIOUS
<1>1. Workers \subseteq Processes /\ Publishers \subseteq Processes
      /\ Workers \cap Publishers = {}
  BY ProcessAssumption DEF Processes
<1>2. CASE \E p \in Processes : Claim(p) \/ Finish(p)
  BY <1>2, FreshFacts
<1>3. CASE \E w \in Workers : Work(w) \/ Enter(w)
  <2>1. PICK w \in Workers : Work(w) \/ Enter(w)
    BY <1>3
  <2>2. CASE Enter(w) \/ Start(w) \/ BeforeModel(w) \/ PrepareRequest(w) \/ CreateRequest(w)
    BY <2>2, EnterFacts, StartFacts, BeforeModelFacts, PrepareRequestFacts, CreateRequestFacts
  <2>3. CASE Respond(w, "final") \/ Respond(w, "ask") \/ AskForInput(w)
    BY <2>3, RespondFacts, AskForInputFacts
  <2>4. CASE Restart(w) \/ Invoke(w) \/ RespondError(w) \/ FinalCheck(w)
    BY <2>4, LookFacts
  <2>5. CASE Generate(w) \/ QueueOutput(w) \/ Post(w) \/ ConfirmStop(w) \/ Fail(w)
    BY <2>5, LeaveFacts
  <2> QED
    BY <2>1, <2>2, <2>3, <2>4, <2>5 DEF Work
<1>4. CASE \E p \in Publishers : Publish(p)
  <2>1. PICK p \in Publishers : Publish(p)
    BY <1>4
  <2>2. GoesOnAlone(p) /\ p \notin Workers /\ p \in Processes
    BY <1>1, <2>1, PublishMoves
  <2> QED
    BY <1>4, <2>2, OthersFacts, OneInformed DEF GoesOnAlone
<1>5. CASE Reconcile \/ Control
  <2>1. worker' = worker
    BY <1>5 DEF Reconcile, ReconcileLease, ReconcileController, ReconcileRevocation, Control,
       ControlInput, ControlResume, ControlTakeover, ControlStop
  <2> QED
    BY <1>5, <2>1, OthersFacts, FactsStillKept
<1>6. CASE \E p \in Processes : Crash(p)
  <2>1. PICK p \in Processes : Crash(p)
    BY <1>6
  <2>2. MovesAlone(p) /\ worker'[p].pc = "idle"
    BY <2>1 DEF Crash, MovesAlone, Idle, TypeInv, WorkersTyped
  <2>3. p \in Workers => Informed(p)
    BY <2>2, LeftInformed DEF WritePoints
  <2>4. FactsStill
    BY <2>1 DEF Crash, FactsStill
  <2> QED
    BY <2>2, <2>3, <2>4, OneInformed
<1>7. CASE /\ UNCHANGED <<run, trajectory, requests, rounds, worker>>
  BY <1>7, FactsStillKept DEF FactsStill
<1> QED
  BY <1>1, <1>2, <1>3, <1>4, <1>5, <1>6, <1>7 DEF Next, ExecuteStep, PublishStep, Work,
     Publish, Withdraw, LeaseExpires, Stall, vars

-----------------------------------------------------------------------------
(* The result                                                               *)

(* Once there is a result, its writer only queues it. *)
ResultFollows ==
    run.output # "none" => \A w \in Workers : MayWrite(w) => At(w, "queueOutput")

(* And a writer that queues has one. *)
QueuersKnow == \A w \in Workers : At(w, "queueOutput") => run.output # "none"

OutputEnds == run.output \in {"committed", "failed"} => TerminalRun(run)

(* A stop that finds the executor completed finds its result. *)
CompletedHasOutput == run.executor = "completed" => run.output # "none"

(* A publisher acts on a result that is waiting, and gives its item away for *)
(* good only when the run is over.                                           *)
PublishersKnow ==
    \A p \in Publishers :
        /\ worker[p].pc \in {"send", "commit", "commitPersonal", "failOutput"} =>
                run.output = "pending" \/ TerminalRun(run)
        /\ At(p, "finish") /\ worker[p].err = "none" => TerminalRun(run)

(* A result that is waiting has an item for the publishers. *)
PendingQueued ==
    run.output = "pending" /\ ~TerminalRun(run) =>
        \E i \in DOMAIN outbox : outbox[i].kind = "output" /\ ~outbox[i].done

ResultInv ==
    /\ ResultFollows /\ QueuersKnow /\ OutputEnds /\ CompletedHasOutput
    /\ PublishersKnow /\ PendingQueued /\ ResultCoversInputs

(* The step that completes a run. *)
Completes(w) ==
    /\ At(w, "generate") /\ LeaseHeld(Gen(w)) /\ run.input = run.applied
    /\ run' = [run EXCEPT !.executor = "completed", !.output = "generated"]
    /\ trajectory' = trajectory /\ outbox' = outbox

(* The step that queues its result. *)
Queues(w) ==
    /\ At(w, "queueOutput") /\ ExecutionOpen(Gen(w))
    /\ run' = [run EXCEPT !.output = "pending"]
    /\ trajectory' = trajectory /\ outbox' = Append(outbox, NewItem("output"))

(* A step that ends a run which has, or seems to have, a result. *)
EndsOutput ==
    /\ ~TerminalRun(run) /\ TerminalRun(run') /\ run'.output \in {"committed", "failed"}
    /\ \/ run.output \in {"generated", "pending"} \/ run.executor = "completed"
       \/ \E p \in Publishers : worker[p].pc \in {"commit", "commitPersonal", "failOutput"}
    /\ trajectory' = trajectory /\ run'.executor \in {run.executor, "stopped"}

(* A step that leaves the result alone. *)
KeepsOutput ==
    /\ run'.output = run.output
    /\ run'.executor = "completed" => run.executor = "completed"

(* What the run still has to answer changes only before there is a result. *)
KeepsInput == run'.input = run.input

(* The steps of a worker change the output where they may. *)
LEMMA WorkOutput ==
  ASSUME TypeInv, NEW w \in Workers, Work(w)
  PROVE  (KeepsOutput \/ Completes(w) \/ Queues(w) \/ EndsOutput) /\ KeepsInput
<1>1. run \in Runs
  BY DEF TypeInv, RowsTyped
<1>2. CASE Start(w) \/ BeforeModel(w)
  <2> DEFINE started == [run EXCEPT !.status = "running", !.executor = "accepted"]
  <2>1. started \in Runs /\ started.output = run.output /\ started.input = run.input
        /\ started.executor = "accepted"
    BY <1>1 DEF Runs, Statuses, ExecutorStatuses
  <2>2. run' \in {run, [run EXCEPT !.status = "waiting_input"], ApplyInputs(run),
                  ApplyInputs(started)}
    BY <1>2 DEF Start, BeforeModel
  <2> HIDE DEF started
  <2> QED
    BY <1>1, <2>1, <2>2, ApplyShape DEF KeepsOutput, KeepsInput, Runs
<1>3. CASE Restart(w) \/ AskForInput(w)
  BY <1>1, <1>3 DEF Restart, AskForInput, KeepsOutput, KeepsInput, Runs
<1>4. CASE Generate(w) /\ run' # run
  <2>1. Completes(w)
    BY <1>4 DEF Generate, Completes
  <2> QED
    BY <1>1, <2>1 DEF Completes, KeepsInput, Runs
<1>5. CASE QueueOutput(w) /\ run' # run
  <2>1. Queues(w)
    BY <1>5 DEF QueueOutput, Queues
  <2> QED
    BY <1>1, <2>1 DEF Queues, KeepsInput, Runs
<1>6. CASE ConfirmStop(w) /\ run' # run
  <2>1. /\ run' = [run EXCEPT !.status = "stopped", !.stop = "confirmed",
                       !.executor = "stopped",
                       !.output = IF @ \in {"pending", "generated"} THEN "failed" ELSE @]
        /\ ~TerminalRun(run) /\ trajectory' = trajectory
    BY <1>6 DEF ConfirmStop, LifecycleOpen
  <2>2. run'.status = "stopped" /\ run'.executor = "stopped" /\ run'.input = run.input
        /\ run'.output = IF run.output \in {"pending", "generated"} THEN "failed" ELSE run.output
    BY <1>1, <2>1 DEF Runs
  <2> QED
    BY <2>1, <2>2 DEF KeepsOutput, EndsOutput, KeepsInput, TerminalRun
<1>7. CASE Fail(w) /\ run' # run
  <2>1. run' = FailedRun(run, FALSE) /\ ~TerminalRun(run) /\ trajectory' = trajectory
    BY <1>7 DEF Fail, LifecycleOpen
  <2>2. run'.status = "failed" /\ run'.executor = run.executor /\ run'.input = run.input
        /\ run'.output = IF run.output \in {"pending", "generated"} THEN "failed" ELSE run.output
    BY <1>1, <2>1 DEF FailedRun, Runs
  <2> QED
    BY <2>1, <2>2 DEF KeepsOutput, EndsOutput, KeepsInput, TerminalRun
<1>8. CASE run' = run
  BY <1>8 DEF KeepsOutput, KeepsInput
<1> QED
  BY <1>2, <1>3, <1>4, <1>5, <1>6, <1>7, <1>8 DEF Work, PrepareRequest, CreateRequest,
     Invoke, Respond, RespondError, FinalCheck, Post

(* So do those of a publisher. *)
LEMMA PublishOutput ==
  ASSUME TypeInv, NEW p \in Publishers, Publish(p)
  PROVE  (KeepsOutput \/ EndsOutput) /\ KeepsInput /\ outbox' = outbox
<1>1. run \in Runs
  BY DEF TypeInv, RowsTyped
<1>2. trajectory' = trajectory /\ outbox' = outbox
  BY DEF Publish, ReadOutput, SendBotReply, SendUnavailable, CommitOutput, CommitPersonal,
     FailOutput
<1>3. CASE run' = run
  BY <1>2, <1>3 DEF KeepsOutput, KeepsInput
<1>4. CASE (CommitOutput(p) \/ CommitPersonal(p)) /\ run' # run
  <2>1. ~TerminalRun(run) /\ worker[p].pc \in {"commit", "commitPersonal"}
        /\ \E id : run' = SucceededRun(run, id)
    BY <1>4 DEF CommitOutput, CommitPersonal, LifecycleOpen, At
  <2>2. run'.status = "succeeded" /\ run'.output = "committed" /\ run'.input = run.input
        /\ run'.executor = run.executor
    BY <1>1, <2>1 DEF SucceededRun, Runs
  <2> QED
    BY <1>2, <2>1, <2>2 DEF EndsOutput, KeepsInput, TerminalRun
<1>5. CASE FailOutput(p) /\ run' # run
  <2>1. ~TerminalRun(run) /\ worker[p].pc = "failOutput" /\ run' = FailedRun(run, TRUE)
    BY <1>5 DEF FailOutput, LifecycleOpen, At
  <2>2. run'.status = "failed" /\ run'.output = "failed" /\ run'.input = run.input
        /\ run'.executor = run.executor
    BY <1>1, <2>1 DEF FailedRun, Runs
  <2> QED
    BY <1>2, <2>1, <2>2 DEF EndsOutput, KeepsInput, TerminalRun
<1> QED
  BY <1>2, <1>3, <1>4, <1>5 DEF Publish, ReadOutput, SendBotReply, SendUnavailable

(* And the monitor and the users: a stop that comes after the completion     *)
(* ends the run, and an input comes only before it.                          *)
LEMMA OthersOutput ==
  ASSUME TypeInv, Reconcile \/ Control
  PROVE  (KeepsOutput \/ EndsOutput) /\ (KeepsInput \/ run.output = "none")
<1>1. run \in Runs /\ trajectory' = trajectory
  BY DEF TypeInv, RowsTyped, Reconcile, ReconcileLease, ReconcileController,
     ReconcileRevocation, Control, ControlInput, ControlResume, ControlTakeover, ControlStop
<1>2. ASSUME NEW r \in Runs, NEW reason, ~TerminalRun(run), r.status = run.status,
             r.output = run.output, r.executor = run.executor, r.input = run.input,
             run' = RequestStop(r, reason).row
      PROVE  (KeepsOutput \/ EndsOutput) /\ KeepsInput
  <2>1. CASE run'.output = run.output
    BY <1>2, <2>1, RequestStopRow DEF KeepsOutput, KeepsInput
  <2>2. CASE run'.output # run.output
    <3>1. r.executor = "completed"
      BY <1>2, <2>2 DEF RequestStop, Runs
    <3> QED
      BY <1>1, <1>2, <2>2, <3>1, RequestStopRow DEF EndsOutput, KeepsInput
  <2> QED
    BY <2>1, <2>2
<1>3. CASE ReconcileLease \/ ReconcileController
  BY <1>1, <1>3 DEF ReconcileLease, ReconcileController, KeepsOutput, KeepsInput, Runs
<1>4. CASE ReconcileRevocation
  <2> DEFINE marked == [run EXCEPT !.revoked = TRUE]
  <2>1. marked \in Runs /\ marked.status = run.status /\ marked.output = run.output
        /\ marked.executor = run.executor /\ marked.input = run.input
    BY <1>1 DEF Runs
  <2>2. run' = RequestStop(marked, AuthorityReason).row /\ ~TerminalRun(run)
    BY <1>4 DEF ReconcileRevocation, AuthorityDue
  <2> HIDE DEF marked
  <2> QED
    BY <1>2, <2>1, <2>2
<1>5. CASE ControlInput
  <2>1. run'.output = run.output /\ run'.executor = run.executor /\ run.output = "none"
    BY <1>1, <1>5 DEF ControlInput, Runs
  <2> QED
    BY <2>1 DEF KeepsOutput
<1>6. CASE ControlResume
  BY <1>1, <1>6 DEF ControlResume, KeepsOutput, KeepsInput, Runs
<1>7. CASE ControlTakeover
  <2>1. run'.output = run.output /\ run'.executor = run.executor /\ run'.input = run.input
    BY <1>1, <1>7 DEF ControlTakeover, Runs
  <2> QED
    BY <2>1 DEF KeepsOutput, KeepsInput
<1>8. CASE ControlStop
  <2>1. CASE TerminalRun(run)
    <3>1. run' = [run EXCEPT !.reason = "user_requested"]
      BY <1>8, <2>1 DEF ControlStop
    <3> QED
      BY <1>1, <3>1 DEF KeepsOutput, KeepsInput, Runs
  <2>2. CASE ~TerminalRun(run)
    BY <1>1, <1>2, <1>8, <2>2 DEF ControlStop
  <2> QED
    BY <2>1, <2>2
<1> QED
  BY <1>3, <1>4, <1>5, <1>6, <1>7, <1>8 DEF Reconcile, Control

(* All that can happen to the output of a run. *)
LEMMA OutputStep ==
  ASSUME TypeInv, [Next]_vars
  PROVE  /\ \/ KeepsOutput \/ EndsOutput
            \/ \E w \in Workers : Work(w) /\ (Completes(w) \/ Queues(w))
         /\ KeepsInput \/ run.output = "none"
<1>1. run \in Runs
  BY DEF TypeInv, RowsTyped
<1>2. CASE \E w \in Workers : Work(w)
  BY <1>2, WorkOutput
<1>3. CASE \E p \in Publishers : Publish(p)
  BY <1>3, PublishOutput
<1>4. CASE Reconcile \/ Control
  BY <1>4, OthersOutput
<1>5. CASE \E p \in Processes : Claim(p)
  <2>1. run' \in {run, ClaimRun(run)}
    BY <1>5 DEF Claim
  <2>2. /\ ClaimRun(run).output = run.output /\ ClaimRun(run).input = run.input
        /\ ClaimRun(run).executor \in {run.executor, "accepted"}
    BY <1>1 DEF ClaimRun, Runs
  <2> QED
    BY <2>1, <2>2 DEF KeepsOutput, KeepsInput
<1>6. CASE run' = run
  BY <1>6 DEF KeepsOutput, KeepsInput
<1> QED
  BY ZenonT(60), <1>2, <1>3, <1>4, <1>5, <1>6 DEF Next, ExecuteStep, PublishStep, Work, Publish, Processes,
     Enter, Finish, Withdraw, Crash, LeaseExpires, Stall, vars

(* Once there is a result nobody thinks or completes any more. *)
LEMMA ResultStill ==
  ASSUME TypeInv, FenceInv, ResultInv, [Next]_vars, run.output # "none"
  PROVE  /\ trajectory' = trajectory /\ rounds' = rounds
         /\ \A w \in Workers : ~Completes(w)
<1>1. ASSUME NEW w \in Workers, LeaseHeld(Gen(w)), worker[w].pc \in WritePoints \ {"queueOutput"}
      PROVE  FALSE
  <2>1. MayWrite(w)
    BY <1>1, LeaseWrites
  <2> QED
    BY <1>1, <2>1 DEF ResultInv, ResultFollows, At
<1>2. \A w \in Workers : ~Completes(w)
  BY <1>1 DEF Completes, At, WritePoints
<1>3. ASSUME NEW w \in Workers, Work(w)
      PROVE  trajectory' = trajectory /\ rounds' = rounds
  <2>1. CASE Start(w)
    BY <1>1, <2>1 DEF Start, At, WritePoints, ExecutionOpen, LifecycleOpen
  <2>2. CASE BeforeModel(w)
    BY <1>1, <2>2 DEF BeforeModel, AtBoundary, At, WritePoints, BoundaryPassed
  <2>3. CASE CreateRequest(w)
    BY <1>1, <2>3 DEF CreateRequest, At, WritePoints, ExecutionOpen, LifecycleOpen
  <2>4. CASE Respond(w, "final") \/ Respond(w, "ask")
    BY <1>1, <2>4 DEF Respond, At, WritePoints, ExecutionOpen, LifecycleOpen
  <2>5. CASE AskForInput(w)
    BY <1>1, <2>5 DEF AskForInput, AtBoundary, At, WritePoints, BoundaryPassed
  <2> QED
    BY <1>3, <2>1, <2>2, <2>3, <2>4, <2>5 DEF Work, Restart, PrepareRequest, Invoke,
       RespondError, FinalCheck, Generate, QueueOutput, Post, ConfirmStop, Fail
<1>4. CASE Reconcile \/ Control \/ \E p \in Publishers : Publish(p)
  BY <1>2, <1>4, OthersFacts DEF FactsStill
<1>5. CASE UNCHANGED <<trajectory, rounds>>
  BY <1>2, <1>5
<1> QED
  BY ZenonT(60), <1>2, <1>3, <1>4, <1>5 DEF Next, ExecuteStep, PublishStep, Work, Publish, Claim,
     Enter, Finish, Withdraw, Crash, LeaseExpires, Stall, vars

(* A run that is ended together with its output had a result. *)
LEMMA EndsHad ==
  ASSUME TypeInv, ResultInv, EndsOutput
  PROVE  run.output \in {"generated", "pending"}
<1>1. run.output \in OutputStatuses /\ ~TerminalRun(run)
  BY DEF TypeInv, RowsTyped, Runs, EndsOutput
<1>2. run.output # "none"
  BY <1>1 DEF EndsOutput, ResultInv, CompletedHasOutput, PublishersKnow
<1> QED
  BY <1>1, <1>2 DEF ResultInv, OutputEnds, OutputStatuses

(* No step takes a result back. *)
LEMMA OutputStays ==
  ASSUME TypeInv, FenceInv, ResultInv, [Next]_vars, run.output # "none"
  PROVE  run'.output # "none"
<1>1. CASE KeepsOutput \/ EndsOutput
  BY <1>1 DEF KeepsOutput, EndsOutput
<1>2. CASE \E w \in Workers : Queues(w)
  BY <1>2 DEF Queues, TypeInv, RowsTyped, Runs
<1> QED
  BY <1>1, <1>2, OutputStep, ResultStill

(* Items are never removed, and only a goroutine that leaves well closes one. *)
LEMMA ItemsStay ==
  ASSUME TypeInv, [Next]_vars, FenceInv, NEW i \in DOMAIN outbox
  PROVE  /\ i \in DOMAIN outbox' /\ outbox'[i].kind = outbox[i].kind
         /\ \/ outbox'[i].done = outbox[i].done
            \/ \E p \in Processes : At(p, "finish") /\ worker[p].err = "none" /\ worker[p].item = i
<1>1. outbox \in Seq(Items) /\ outbox[i] \in Items
  BY DEF TypeInv, RowsTyped
<1>2. CASE Grown
  BY <1>2, GrownItems
<1>3. CASE \E p \in Processes : Claim(p)
  <2>1. PICK p \in Processes : Claim(p)
    BY <1>3
  <2>2. PICK j \in DOMAIN outbox :
           \E g : outbox' = [outbox EXCEPT ![j].holder = p, ![j].live = TRUE,
                                         ![j].generation = g]
    BY <2>1 DEF Claim
  <2>3. PICK g : outbox' = [outbox EXCEPT ![j].holder = p, ![j].live = TRUE,
                                         ![j].generation = g]
    BY <2>2
  <2> QED
    BY <1>1, <2>3 DEF Items
<1>4. CASE \E p \in Processes : Finish(p)
  <2>1. PICK p \in Processes : Finish(p)
    BY <1>4
  <2>2. CASE outbox' = outbox
    BY <2>2
  <2>3. CASE outbox' # outbox
    <3> DEFINE j == worker[p].item
               done == outbox[j].done \/ worker[p].err = "none"
               released == [outbox[j] EXCEPT !.holder = "none", !.live = FALSE, !.done = done]
    <3>1. j \in DOMAIN outbox /\ At(p, "finish")
      BY <2>1 DEF Finish, TypeInv, WorkersTyped, At
    <3>2. outbox' = [outbox EXCEPT ![j] = released]
      BY <1>1, <2>1, <2>3, <3>1 DEF Finish
    <3>3. released.kind = outbox[j].kind /\ released.done = done
      <4>1. outbox[j] \in Items
        BY <1>1, <3>1
      <4> HIDE DEF done
      <4> QED
        BY <4>1 DEF Items
    <3> HIDE DEF released
    <3>4. CASE i = j
      <4>1. outbox'[i] = released
        BY <1>1, <3>1, <3>2, <3>4
      <4>2. worker[p].err = "none" \/ done = outbox[i].done
        BY <1>1, <3>4 DEF Items
      <4> QED
        BY <1>1, <3>1, <3>2, <3>3, <3>4, <4>1, <4>2
    <3>5. CASE i # j
      BY <1>1, <3>1, <3>2, <3>5
    <3> QED
      BY <3>4, <3>5
  <2> QED
    BY <2>2, <2>3
<1>5. CASE \E j \in DOMAIN outbox : LeaseExpires(j) \/ Stall(j)
  <2>1. PICK j \in DOMAIN outbox : outbox' = [outbox EXCEPT ![j].live = FALSE]
    BY <1>5 DEF LeaseExpires, Stall
  <2> QED
    BY <1>1, <2>1 DEF Items
<1>6. CASE (\E w \in Workers : Work(w)) \/ (\E p \in Publishers : Publish(p)) \/ Reconcile \/ Control
  BY <1>2, <1>6, WorkRows, PublishQuiet, ReconcileQuiet, ControlQuiet DEF Quiet
<1>7. CASE outbox' = outbox
  BY <1>7
<1> QED
  BY <1>3, <1>4, <1>5, <1>6, <1>7 DEF Next, ExecuteStep, PublishStep, Work, Publish, Processes,
     Enter, Withdraw, Crash, vars

(* Whoever completes is informed that the last block answers every input. *)
LEMMA CompletesCovers ==
  ASSUME TypeInv, FenceInv, FactsInv, NEW w \in Workers, Completes(w)
  PROVE  LastKind = "final" /\ Last(trajectory).version = run.input
<1>1. MayWrite(w)
  BY LeaseWrites DEF Completes, At, WritePoints
<1>2. LastKind = "final" /\ trajectory # <<>>
  BY <1>1 DEF Completes, At, WritePoints, FactsInv, WriterKnows, Knows, Begun
<1> QED
  BY <1>2 DEF FactsInv, FinalVersion, Completes

(* A worker moves by a step of its own, or dies. *)
LEMMA OnlyItself ==
  ASSUME TypeInv, [Next]_vars, NEW w \in Workers, worker'[w] # worker[w]
  PROVE  Claim(w) \/ Enter(w) \/ Work(w) \/ Finish(w) \/ Crash(w)
<1>1. w \in Processes /\ w \notin Publishers /\ worker \in [Processes -> Goroutines]
  BY ProcessAssumption DEF Processes, TypeInv, WorkersTyped
<1>2. CASE \E v \in Workers : ExecuteStep(v)
  <2>1. PICK v \in Workers : ExecuteStep(v)
    BY <1>2
  <2>2. MovesAlone(v)
    BY <2>1, WorkersNeverCommit DEF NotToCommit
  <2>3. v = w
    BY <1>1, <2>2 DEF MovesAlone
  <2> QED
    BY <2>1, <2>3 DEF ExecuteStep, Work
<1>3. CASE \E p \in Publishers : PublishStep(p)
  BY <1>1, <1>3, PublishersCommit DEF MovesAlone
<1>4. CASE \E p \in Processes : Crash(p)
  BY <1>1, <1>4 DEF Crash
<1>5. CASE worker' = worker
  BY <1>5
<1> QED
  BY <1>2, <1>3, <1>4, <1>5 DEF Next, Reconcile, ReconcileLease, ReconcileController,
     ReconcileRevocation, Control, ControlInput, ControlResume, ControlTakeover, ControlStop,
     Withdraw, LeaseExpires, Stall, vars

(* A result belongs to its one writer. *)
LEMMA ResultFollowsNext ==
  ASSUME TypeInv, FenceInv, FactsInv, ResultInv, [Next]_vars
  PROVE  ResultFollows'
<1> SUFFICES ASSUME run'.output # "none", NEW w \in Workers, MayWrite(w)'
             PROVE  At(w, "queueOutput")'
  BY DEF ResultFollows
<1>0. w \in Processes /\ worker'[w].pc \in WritePoints
      /\ worker \in [Processes -> Goroutines] /\ worker[w] \in Goroutines /\ run \in Runs
  BY DEF Processes, MayWrite, TypeInv, WorkersTyped, RowsTyped
<1>1. CASE run.output = "none"
  <2>1. ~EndsOutput /\ ~KeepsOutput /\ \A v \in Workers : ~Queues(v)
    BY <1>1, EndsHad DEF KeepsOutput, Queues, ResultInv, QueuersKnow
  <2>2. PICK v \in Workers : Work(v) /\ Completes(v)
    BY <2>1, OutputStep
  <2>3. Generate(v)
    BY <2>2 DEF Work, Completes, At, Start, Restart, BeforeModel, AtBoundary, PrepareRequest,
       CreateRequest, Invoke, Respond, RespondError, AskForInput, FinalCheck, QueueOutput,
       Post, ConfirmStop, Fail
  <2>4. run' # run /\ v \in Processes
    BY <1>0, <1>1, <2>2 DEF Completes, Runs, Processes
  <2>5. MovesAlone(v) /\ worker'[v].pc = "queueOutput"
    BY <2>3, <2>4, MoveFrame DEF Generate
  <2>6. MayWrite(v)
    BY <2>2, LeaseWrites DEF Completes, At, WritePoints
  <2>7. v # w => FALSE
    BY <1>0, <2>5, <2>6, StillWriter DEF MovesAlone, FenceInv, SingleWriter
  <2> QED
    BY <2>5, <2>7 DEF At
<1>2. CASE run.output # "none"
  <2>1. CASE worker'[w] = worker[w]
    BY <1>2, <2>1, StillWriter DEF ResultInv, ResultFollows, At
  <2>2. CASE Enter(w)
    <3>1. run' = run
      BY <2>2 DEF Enter
    <3>2. run.output \in {"generated", "pending"} \/ TerminalRun(run)
      BY <1>0, <1>2 DEF Runs, OutputStatuses, ResultInv, OutputEnds
    <3>3. worker'[w].pc \in {"finish", "confirm", "post", "queueOutput"}
      BY <1>0, <2>2, <3>2 DEF Enter, Return, Goto, Goroutines, Advance
    <3> QED
      BY <1>0, <3>3 DEF WritePoints, At
  <2>3. CASE Work(w)
    <3>1. GoesOnAlone(w)
      BY <2>3, WorkMoves
    <3>2. MayWrite(w)
      BY <1>0, <2>3, <3>1, WorkRows DEF GoesOnAlone, Keeps, MayWrite
    <3>3. worker[w].pc = "queueOutput"
      BY <1>2, <3>2 DEF ResultInv, ResultFollows, At
    <3>4. QueueOutput(w)
      BY <2>3, <3>3 DEF Work, At, Start, Restart, BeforeModel, AtBoundary, PrepareRequest,
         CreateRequest, Invoke, Respond, RespondError, AskForInput, FinalCheck, Generate,
         Post, ConfirmStop, Fail
    <3>5. worker'[w].pc = "post"
      BY <1>0, <3>4, MoveFrame DEF QueueOutput
    <3> QED
      BY <1>0, <3>5 DEF WritePoints
  <2>4. CASE Claim(w) \/ Finish(w) \/ Crash(w)
    <3>1. worker'[w].pc \in {"enter", "idle"}
      <4>1. CASE Claim(w)
        <5>1. PICK i, n :
                 worker' = [worker EXCEPT ![w] =
                    [Idle EXCEPT !.pc = IF w \in Workers THEN "enter" ELSE "read",
                                 !.item = i, !.generation = n]]
          BY <4>1, ClaimMoves
        <5> QED
          BY <1>0, <5>1 DEF Idle
      <4>2. CASE Finish(w) \/ Crash(w)
        BY <1>0, <4>2 DEF Finish, Crash, Idle
      <4> QED
        BY <2>4, <4>1, <4>2
    <3> QED
      BY <1>0, <3>1 DEF WritePoints
  <2> QED
    BY <1>0, <2>1, <2>2, <2>3, <2>4, OnlyItself
<1> QED
  BY <1>1, <1>2

(* A result that waits keeps waiting until the run is over. *)
LEMMA SettledStays ==
  ASSUME TypeInv, FenceInv, ResultInv, [Next]_vars, run.output = "pending" \/ TerminalRun(run)
  PROVE  run'.output = "pending" \/ TerminalRun(run')
<1>1. CASE TerminalRun(run)
  BY <1>1, EndedStep DEF Ended, TerminalRun
<1>2. CASE run.output = "pending" /\ ~TerminalRun(run)
  <2>1. KeepsOutput \/ EndsOutput \/ \E w \in Workers : Queues(w)
    BY <1>2, OutputStep, ResultStill
  <2>2. (\E w \in Workers : Queues(w)) => run'.output = "pending"
    BY DEF Queues, TypeInv, RowsTyped, Runs
  <2> QED
    BY <1>2, <2>1, <2>2 DEF KeepsOutput, EndsOutput
<1> QED
  BY <1>1, <1>2

(* What Return leaves behind. *)
LEMMA ReturnFrame ==
  ASSUME TypeInv, NEW p \in Processes, NEW pc, NEW err, Return(p, pc, err)
  PROVE  worker'[p].pc = pc /\ worker'[p].err = err
<1>1. worker \in [Processes -> Goroutines] /\ worker[p] \in Goroutines
  BY DEF TypeInv, WorkersTyped
<1> QED
  BY <1>1 DEF Return, Goroutines

(* A publisher moves by a step of its own, or dies. *)
LEMMA OnlyPublisherItself ==
  ASSUME TypeInv, [Next]_vars, NEW p \in Publishers, worker'[p] # worker[p]
  PROVE  Claim(p) \/ Publish(p) \/ Finish(p) \/ Crash(p)
<1>1. p \in Processes /\ p \notin Workers /\ worker \in [Processes -> Goroutines]
  BY ProcessAssumption DEF Processes, TypeInv, WorkersTyped
<1>2. CASE \E v \in Workers : ExecuteStep(v)
  BY <1>1, <1>2, WorkersNeverCommit DEF NotToCommit, MovesAlone
<1>3. CASE \E q \in Publishers : PublishStep(q)
  <2>1. PICK q \in Publishers : PublishStep(q)
    BY <1>3
  <2>2. q = p
    BY <1>1, <2>1, PublishersCommit DEF MovesAlone
  <2> QED
    BY <2>1, <2>2 DEF PublishStep, Publish
<1>4. CASE \E q \in Processes : Crash(q)
  BY <1>1, <1>4 DEF Crash
<1>5. CASE worker' = worker
  BY <1>5
<1> QED
  BY <1>2, <1>3, <1>4, <1>5 DEF Next, Reconcile, ReconcileLease, ReconcileController,
     ReconcileRevocation, Control, ControlInput, ControlResume, ControlTakeover, ControlStop,
     Withdraw, LeaseExpires, Stall, vars

(* A publisher works on a waiting result, and leaves well only from an end. *)
LEMMA PublishersKnowNext ==
  ASSUME TypeInv, FenceInv, ResultInv, [Next]_vars
  PROVE  PublishersKnow'
<1> DEFINE Knowing(p) ==
             /\ worker'[p].pc \in {"send", "commit", "commitPersonal", "failOutput"} =>
                   run'.output = "pending" \/ TerminalRun(run')
             /\ worker'[p].pc = "finish" /\ worker'[p].err = "none" => TerminalRun(run')
<1> SUFFICES ASSUME NEW p \in Publishers PROVE Knowing(p)
  BY DEF PublishersKnow, At
<1>1. p \in Processes /\ worker \in [Processes -> Goroutines] /\ run \in Runs
      /\ worker[p] \in Goroutines
  BY DEF Processes, TypeInv, WorkersTyped, RowsTyped
<1>2. /\ run.output = "pending" \/ TerminalRun(run) => run'.output = "pending" \/ TerminalRun(run')
      /\ TerminalRun(run) => TerminalRun(run')
  BY SettledStays, EndedStep DEF Ended, TerminalRun
<1>3. /\ worker[p].pc \in {"send", "commit", "commitPersonal", "failOutput"} =>
            run.output = "pending" \/ TerminalRun(run)
      /\ worker[p].pc = "finish" /\ worker[p].err = "none" => TerminalRun(run)
  BY DEF ResultInv, PublishersKnow, At
<1>4. CASE worker'[p] = worker[p]
  BY <1>2, <1>3, <1>4
<1>5. CASE Claim(p)
  <2>1. PICK i, n :
           worker' = [worker EXCEPT ![p] =
              [Idle EXCEPT !.pc = IF p \in Workers THEN "enter" ELSE "read",
                           !.item = i, !.generation = n]]
    BY <1>5, ClaimMoves
  <2>2. worker'[p].pc \in {"enter", "read"}
    BY <1>1, <2>1 DEF Idle
  <2> QED
    BY <2>2
<1>6. CASE Finish(p) \/ Crash(p)
  <2>1. worker'[p].pc = "idle"
    BY <1>1, <1>6 DEF Finish, Crash, Idle
  <2> QED
    BY <2>1
<1>7. ASSUME NEW pc \in {"send", "commit", "commitPersonal", "failOutput"}, Goto(p, pc),
             run.output = "pending" \/ TerminalRun(run)
      PROVE  Knowing(p)
  <2>1. worker'[p].pc = pc
    BY <1>1, <1>7, MoveFrame
  <2> QED
    BY <1>2, <1>7, <2>1
<1>8. ASSUME NEW err, Return(p, "finish", err), err = "none" => TerminalRun(run')
      PROVE  Knowing(p)
  BY <1>1, <1>8, ReturnFrame
<1>9. CASE ReadOutput(p)
  BY <1>2, <1>7, <1>8, <1>9 DEF ReadOutput
<1>10. CASE SendBotReply(p) \/ SendUnavailable(p)
  <2>1. run.output = "pending" \/ TerminalRun(run)
    BY <1>3, <1>10 DEF SendBotReply, SendUnavailable, At
  <2> QED
    BY <1>7, <1>8, <1>10, <2>1 DEF SendBotReply, SendUnavailable
<1>11. CASE CommitOutput(p) \/ CommitPersonal(p)
  <2>1. \/ Return(p, "finish", "failed")
        \/ Return(p, "finish", "none") /\ \/ TerminalRun(run)
                                          \/ \E id : run' = SucceededRun(run, id)
    BY <1>11 DEF CommitOutput, CommitPersonal, LifecycleOpen, LeaseHeld
  <2>2. (\E id : run' = SucceededRun(run, id)) => TerminalRun(run')
    BY <1>1 DEF SucceededRun, TerminalRun, Runs
  <2> QED
    BY <1>2, <1>8, <2>1, <2>2
<1>12. CASE FailOutput(p)
  <2>1. Return(p, "finish", "none") /\ (TerminalRun(run) \/ run' = FailedRun(run, TRUE))
    BY <1>12 DEF FailOutput, LifecycleOpen, LeaseHeld
  <2>2. run' = FailedRun(run, TRUE) => TerminalRun(run')
    BY <1>1 DEF FailedRun, TerminalRun, Runs
  <2> QED
    BY <1>2, <1>8, <2>1, <2>2
<1> QED
  BY <1>4, <1>5, <1>6, <1>9, <1>10, <1>11, <1>12, OnlyPublisherItself DEF Publish

(* An item for a waiting result stays until the run is over. *)
LEMMA PendingQueuedNext ==
  ASSUME TypeInv, FenceInv, ResultInv, [Next]_vars
  PROVE  PendingQueued'
<1> SUFFICES ASSUME run'.output = "pending", ~TerminalRun(run')
             PROVE  \E i \in DOMAIN outbox' : outbox'[i].kind = "output" /\ ~outbox'[i].done
  BY DEF PendingQueued
<1>1. run \in Runs /\ outbox \in Seq(Items)
  BY DEF TypeInv, RowsTyped
<1>2. CASE \E w \in Workers : Queues(w)
  <2>1. outbox' = Append(outbox, NewItem("output"))
    BY <1>2 DEF Queues
  <2>2. /\ Len(outbox) + 1 \in DOMAIN outbox'
        /\ outbox'[Len(outbox) + 1] = NewItem("output")
    BY <1>1, <2>1, NewItemTyped
  <2> QED
    BY <2>2 DEF NewItem
<1>3. CASE KeepsOutput
  <2>1. run.output = "pending" /\ ~TerminalRun(run)
    BY <1>3, EndedStep DEF KeepsOutput, Ended, TerminalRun
  <2>2. PICK i \in DOMAIN outbox : outbox[i].kind = "output" /\ ~outbox[i].done
    BY <2>1 DEF ResultInv, PendingQueued
  <2>3. ASSUME NEW p \in Processes, At(p, "finish"), worker[p].err = "none", worker[p].item = i
        PROVE  FALSE
    <3>1. KindOf(p) = "output"
      BY <2>2, <2>3 DEF FenceInv, ItemsKeepKind, At
    <3>2. p \in Publishers
      BY <3>1 DEF KindOf, Processes
    <3> QED
      BY <2>1, <2>3, <3>2 DEF ResultInv, PublishersKnow
  <2> QED
    BY <2>2, <2>3, ItemsStay
<1>4. CASE EndsOutput
  BY <1>4 DEF EndsOutput
<1>5. CASE \E w \in Workers : Completes(w)
  BY <1>1, <1>5 DEF Completes, Runs
<1> QED
  BY <1>2, <1>3, <1>4, <1>5, OutputStep

(* The result stays the answer to everything that was accepted. *)
LEMMA ResultCoversNext ==
  ASSUME TypeInv, FenceInv, FactsInv, ResultInv, [Next]_vars
  PROVE  ResultCoversInputs'
<1> DEFINE Covered == LastKind = "final" /\ Last(trajectory).version = run.input
<1> SUFFICES ASSUME run'.output \in {"generated", "pending", "committed"}
             PROVE  Covered'
  BY DEF ResultCoversInputs, LastKind
<1>1. run \in Runs
  BY DEF TypeInv, RowsTyped
<1>2. CASE run.output \in {"generated", "pending", "committed"}
  <2>1. Covered
    BY <1>2 DEF ResultInv, ResultCoversInputs, LastKind
  <2>2. trajectory' = trajectory /\ run'.input = run.input
    BY <1>2, ResultStill, OutputStep DEF KeepsInput
  <2> QED
    BY <2>1, <2>2 DEF LastKind
<1>3. CASE \E w \in Workers : Completes(w)
  <2>1. Covered
    BY <1>3, CompletesCovers
  <2>2. trajectory' = trajectory /\ run'.input = run.input
    BY <1>1, <1>3 DEF Completes, Runs
  <2> QED
    BY <2>1, <2>2 DEF LastKind
<1>4. CASE run.output \in {"none", "failed"} /\ ~\E w \in Workers : Completes(w)
  <2>1. ~KeepsOutput /\ ~EndsOutput
    BY <1>4, EndsHad DEF KeepsOutput
  <2>2. PICK w \in Workers : Queues(w)
    BY <1>4, <2>1, OutputStep
  <2>3. run.output = "failed" /\ ~TerminalRun(run)
    BY <1>4, <2>2 DEF ResultInv, QueuersKnow, Queues, ExecutionOpen, LifecycleOpen
  <2> QED
    BY <2>3 DEF ResultInv, OutputEnds
<1> QED
  BY <1>1, <1>2, <1>3, <1>4 DEF Runs, OutputStatuses

(* A worker comes to queue only a result that exists. *)
LEMMA QueuersKnowNext ==
  ASSUME TypeInv, FenceInv, ResultInv, [Next]_vars
  PROVE  QueuersKnow'
<1> SUFFICES ASSUME NEW w \in Workers, worker'[w].pc = "queueOutput"
             PROVE  run'.output # "none"
  BY DEF QueuersKnow, At
<1>1. w \in Processes /\ worker \in [Processes -> Goroutines] /\ run \in Runs
      /\ worker[w] \in Goroutines
  BY DEF Processes, TypeInv, WorkersTyped, RowsTyped
<1>2. CASE worker'[w] = worker[w]
  BY <1>2, OutputStays DEF ResultInv, QueuersKnow, At
<1>3. CASE Enter(w)
  <2>1. Advance = "queueOutput"
    BY <1>1, <1>3 DEF Enter, Return, Goto, Goroutines
  <2>2. run.output = "generated" /\ run' = run
    BY <1>3, <2>1 DEF Advance, FirstStep, Enter
  <2> QED
    BY <2>2
<1>4. CASE Work(w)
  <2> DEFINE Moved(pc) == \/ Goto(w, pc) \/ \E err : Return(w, pc, err)
                          \/ \E n : worker' = [worker EXCEPT ![w].pc = pc, ![w].view = n]
                          \/ \E n : worker' = [worker EXCEPT ![w].pc = pc, ![w].request = n]
  <2>1. CASE Generate(w)
    <3>1. run' # run => Completes(w)
      BY <2>1 DEF Generate, Completes
    <3>2. Completes(w) => run'.output # "none"
      BY <1>1 DEF Completes, Runs
    <3>3. ~Completes(w) => \E pc \in {"post", "agent"} : Goto(w, pc) \/ \E err : Return(w, pc, err)
      BY <2>1 DEF Generate, Completes
    <3>4. ~Completes(w) => worker'[w].pc \in {"post", "agent"}
      BY <1>1, <3>3, MoveFrame
    <3> QED
      BY <3>2, <3>4
  <2>2. CASE ~Generate(w)
    <3>1. \E pc \in {"post", "agent", "tool", "final", "round", "invoke", "request",
                     "requestFinal", "inflight", "generate", "finish", "confirm", "fail"} : Moved(pc)
      <4>1. CASE Start(w) \/ Restart(w) \/ BeforeModel(w) \/ PrepareRequest(w) \/ CreateRequest(w)
        BY <4>1 DEF Start, Restart, BeforeModel, PrepareRequest, CreateRequest
      <4>2. CASE \/ Invoke(w) \/ Respond(w, "final") \/ Respond(w, "ask") \/ RespondError(w)
                 \/ AskForInput(w) \/ FinalCheck(w)
        BY <4>2 DEF Invoke, Respond, RespondError, AskForInput, FinalCheck
      <4>3. CASE QueueOutput(w) \/ Post(w) \/ ConfirmStop(w) \/ Fail(w)
        BY <4>3 DEF QueueOutput, Post, ConfirmStop, Fail
      <4> QED
        BY <1>4, <2>2, <4>1, <4>2, <4>3 DEF Work
    <3>2. \A pc : Moved(pc) => worker'[w].pc = pc
      BY <1>1 DEF Goto, Return, Goroutines
    <3> HIDE DEF Moved
    <3> QED
      BY <3>1, <3>2
  <2> QED
    BY <2>1, <2>2
<1>5. CASE Claim(w)
  <2>1. PICK i, n :
           worker' = [worker EXCEPT ![w] =
              [Idle EXCEPT !.pc = IF w \in Workers THEN "enter" ELSE "read",
                           !.item = i, !.generation = n]]
    BY <1>5, ClaimMoves
  <2>2. worker'[w].pc \in {"enter", "read"}
    BY <1>1, <2>1 DEF Idle
  <2> QED
    BY <2>2
<1>6. CASE Finish(w) \/ Crash(w)
  BY <1>1, <1>6 DEF Finish, Crash, Idle
<1> QED
  BY <1>2, <1>3, <1>4, <1>5, <1>6, OnlyItself

(* Accept writes a run without a result. *)
LEMMA ResultInit == Init => ResultInv
<1> SUFFICES ASSUME Init PROVE ResultInv
  OBVIOUS
<1>1. \A p \in Processes : worker[p].pc = "idle"
  BY DEF Init, Idle
<1>2. run.output = "none" /\ run.executor = "pending"
  BY DEF Init
<1> QED
  BY <1>1, <1>2 DEF ResultInv, ResultFollows, QueuersKnow, OutputEnds, CompletedHasOutput,
     PublishersKnow, PendingQueued, ResultCoversInputs, At, Processes

(* The result and what is known of it stay together. *)
LEMMA ResultNext == TypeInv /\ FenceInv /\ FactsInv /\ ResultInv /\ [Next]_vars => ResultInv'
<1> SUFFICES ASSUME TypeInv, FenceInv, FactsInv, ResultInv, [Next]_vars PROVE ResultInv'
  OBVIOUS
<1>1. run \in Runs
  BY DEF TypeInv, RowsTyped
<1>2. KeepsOutput \/ EndsOutput \/ \E w \in Workers : Completes(w) \/ Queues(w)
  BY OutputStep
<1>3. OutputEnds'
  <2>1. CASE KeepsOutput
    <3>1. TerminalRun(run) => TerminalRun(run')
      BY EndedStep DEF Ended, TerminalRun
    <3> QED
      BY <2>1, <3>1 DEF KeepsOutput, ResultInv, OutputEnds
  <2>2. CASE EndsOutput
    BY <2>2 DEF EndsOutput, OutputEnds
  <2>3. CASE \E w \in Workers : Completes(w) \/ Queues(w)
    <3>1. run'.output \in {"generated", "pending"}
      BY <1>1, <2>3 DEF Completes, Queues, Runs
    <3> QED
      BY <3>1 DEF OutputEnds
  <2> QED
    BY <1>2, <2>1, <2>2, <2>3
<1>4. CompletedHasOutput'
  <2>1. CASE KeepsOutput
    BY <2>1 DEF KeepsOutput, ResultInv, CompletedHasOutput
  <2>2. CASE EndsOutput
    BY <2>2 DEF EndsOutput, CompletedHasOutput
  <2>3. CASE \E w \in Workers : Completes(w) \/ Queues(w)
    <3>1. run'.output \in {"generated", "pending"}
      BY <1>1, <2>3 DEF Completes, Queues, Runs
    <3> QED
      BY <3>1 DEF CompletedHasOutput
  <2> QED
    BY <1>2, <2>1, <2>2, <2>3
<1> QED
  BY <1>3, <1>4, ResultFollowsNext, QueuersKnowNext, PublishersKnowNext, PendingQueuedNext,
     ResultCoversNext DEF ResultInv

WritersInv == TypeInv /\ FenceInv /\ FactsInv /\ ResultInv

(* The four invariants carry each other. *)
LEMMA WritersHold ==
  ASSUME StallsAfterEntry
  PROVE  Spec => []WritersInv
<1>1. Init => WritersInv
  BY TypeInit, FenceInit, FactsInit, ResultInit DEF WritersInv
<1>2. WritersInv /\ [Next]_vars => WritersInv'
  BY TypeNext, FenceNext, FactsNext, ResultNext DEF WritersInv
<1> QED
  BY <1>1, <1>2, PTL DEF Spec

(* While a model request is pending nothing is added to what it has seen, so *)
(* a later generation can send it again (modelRound, appendInputs).          *)
THEOREM RequestsSeeAll ==
  ASSUME StallsAfterEntry
  PROVE  Spec => []SnapshotFrozen
<1>1. WritersInv => SnapshotFrozen
  BY DEF WritersInv, FactsInv
<1> QED
  BY <1>1, WritersHold, PTL

(* A run never makes more model calls than its budget, however many workers  *)
(* and generations it takes (modelRound counts the rows).                    *)
THEOREM BudgetHolds ==
  ASSUME StallsAfterEntry
  PROVE  Spec => []CallBudget
<1>1. WritersInv => CallBudget
  BY DEF WritersInv, FactsInv
<1> QED
  BY <1>1, WritersHold, PTL

(* The result answers everything that was accepted into the run              *)
(* (BeforeModelRewriteState, runAgent's final check, the completing          *)
(* transaction, Control's check of the output).                              *)
THEOREM ResultAnswersAll ==
  ASSUME StallsAfterEntry
  PROVE  Spec => []ResultCoversInputs
<1>1. WritersInv => ResultCoversInputs
  BY DEF WritersInv, ResultInv
<1> QED
  BY <1>1, WritersHold, PTL

(* A result, once generated, is never computed again: whoever takes the run  *)
(* over only queues or publishes it (advance).                               *)
THEOREM ResultIsKept ==
  ASSUME StallsAfterEntry
  PROVE  Spec => ResultNotRecomputed
<1>1. ASSUME WritersInv, [Next]_vars, OutputQueued
      PROVE  /\ trajectory' = trajectory /\ rounds' = rounds
             /\ run'.output \notin {"none"}
             /\ run.output = "pending" => run'.output # "generated"
  <2>1. run.output # "none" /\ run \in Runs
    BY <1>1 DEF OutputQueued, WritersInv, TypeInv, RowsTyped
  <2>2. trajectory' = trajectory /\ rounds' = rounds /\ \A w \in Workers : ~Completes(w)
    BY <1>1, <2>1, ResultStill DEF WritersInv
  <2>3. run'.output # "none"
    BY <1>1, <2>1, OutputStays DEF WritersInv
  <2>4. KeepsOutput \/ EndsOutput \/ \E w \in Workers : Queues(w)
    BY <1>1, <2>2, OutputStep DEF WritersInv
  <2>5. run.output = "pending" => run'.output # "generated"
    BY <2>1, <2>4 DEF KeepsOutput, EndsOutput, Queues, Runs
  <2> QED
    BY <2>2, <2>3, <2>5
<1>2. WritersInv /\ [Next]_vars =>
        (OutputQueued =>
           /\ trajectory' = trajectory /\ rounds' = rounds
           /\ run'.output \notin {"none"}
           /\ run.output = "pending" => run'.output # "generated")
  BY <1>1
<1> QED
  BY <1>2, WritersHold, PTL DEF Spec, ResultNotRecomputed

-----------------------------------------------------------------------------
(* The inputs                                                               *)

(* A trajectory holds the inputs up to a version, once each, in order. *)
Holds(blocks, applied) ==
    LET Inputs == {i \in DOMAIN blocks : blocks[i].kind = "input"}
    IN /\ \A v \in 1 .. applied : \E i \in Inputs : blocks[i].version = v
       /\ \A i \in Inputs : blocks[i].version \in 1 .. applied
       /\ \A i, j \in Inputs : i < j => blocks[i].version < blocks[j].version

LEMMA HoldsInputs == InputsOnceInOrder <=> Holds(trajectory, run.applied)
  BY DEF InputsOnceInOrder, Holds

(* A block that is no input changes nothing. *)
LEMMA HoldsOther ==
  ASSUME NEW blocks \in Seq(Blocks), NEW applied \in Nat, Holds(blocks, applied),
         NEW b \in Blocks, b.kind # "input"
  PROVE  Holds(Append(blocks, b), applied)
<1> DEFINE more == Append(blocks, b)
           n == Len(blocks)
<1>1. /\ n \in Nat /\ DOMAIN blocks = 1 .. n /\ DOMAIN more = 1 .. n + 1
      /\ more[n + 1] = b /\ \A i \in 1 .. n : more[i] = blocks[i]
  BY AppendProperties, LenProperties
<1> HIDE DEF more
<1>2. {i \in DOMAIN more : more[i].kind = "input"} = {i \in DOMAIN blocks : blocks[i].kind = "input"}
  BY <1>1
<1>3. \A i \in DOMAIN blocks : more[i] = blocks[i]
  BY <1>1
<1>4. Holds(more, applied)
  BY <1>2, <1>3 DEF Holds
<1> QED
  BY <1>4 DEF more

(* The next inputs, in order, are held with the others. *)
LEMMA HoldsMore ==
  ASSUME NEW blocks \in Seq(Blocks), NEW applied \in Nat, Holds(blocks, applied),
         NEW input \in Nat, input > applied, NEW p \in Seq(Blocks), Len(p) = input - applied,
         \A i \in 1 .. input - applied : p[i] = [kind |-> "input", version |-> applied + i]
  PROVE  Holds(blocks \o p, input)
<1> DEFINE more == blocks \o p
           n == Len(blocks)
           m == input - applied
           Old == {i \in DOMAIN blocks : blocks[i].kind = "input"}
<1>1. /\ n \in Nat /\ m \in Nat /\ DOMAIN blocks = 1 .. n /\ DOMAIN more = 1 .. n + m
      /\ \A i \in 1 .. n : more[i] = blocks[i]
      /\ \A i \in 1 .. m : more[n + i] = p[i]
  <2>1. n \in Nat /\ m \in Nat /\ DOMAIN blocks = 1 .. n
    BY LenProperties
  <2>2. more \in Seq(Blocks) /\ Len(more) = n + m
        /\ \A i \in 1 .. n + m : more[i] = IF i <= n THEN blocks[i] ELSE p[i - n]
    <3>1. more \in Seq(Blocks) /\ Len(more) = Len(blocks) + Len(p)
          /\ \A i \in 1 .. Len(blocks) + Len(p) :
                more[i] = IF i <= Len(blocks) THEN blocks[i] ELSE p[i - Len(blocks)]
      BY ConcatProperties
    <3>2. Len(p) = m /\ Len(blocks) = n
      OBVIOUS
    <3> HIDE DEF more, n, m
    <3> QED
      BY <3>1, <3>2
  <2>3. DOMAIN more = 1 .. n + m
    BY <2>2, LenProperties
  <2> HIDE DEF more, n, m
  <2>4. ASSUME NEW i \in 1 .. n PROVE more[i] = blocks[i]
    BY <2>1, <2>2
  <2>5. ASSUME NEW i \in 1 .. m PROVE more[n + i] = p[i]
    <3>1. n + i \in 1 .. n + m /\ ~(n + i <= n) /\ (n + i) - n = i
      BY <2>1
    <3> QED
      BY <2>2, <3>1
  <2> QED
    BY <2>1, <2>3, <2>4, <2>5
<1>2. \A i \in 1 .. m : more[n + i].kind = "input" /\ more[n + i].version = applied + i
  <2> SUFFICES ASSUME NEW i \in 1 .. m
               PROVE  more[n + i].kind = "input" /\ more[n + i].version = applied + i
    OBVIOUS
  <2>1. p[i] = [kind |-> "input", version |-> applied + i]
    OBVIOUS
  <2>2. more[n + i] = p[i]
    BY <1>1
  <2> HIDE DEF more, n, m
  <2> QED
    BY <2>1, <2>2
<1> DEFINE Inputs == {i \in DOMAIN more : more[i].kind = "input"}
<1>3. /\ \A v \in 1 .. applied : \E i \in Old : blocks[i].version = v
      /\ \A i \in Old : blocks[i].version \in 1 .. applied
      /\ \A i, j \in Old : i < j => blocks[i].version < blocks[j].version
  BY DEF Holds
<1>4. m = input - applied
  OBVIOUS
<1> HIDE DEF more, n, m
<1>5. \A i \in Inputs : \/ i \in Old /\ more[i].version = blocks[i].version /\ i <= n
                        \/ i > n /\ i \in Nat /\ i - n \in 1 .. m
                           /\ more[i].version = applied + (i - n)
  <2> SUFFICES ASSUME NEW i \in Inputs
               PROVE  \/ i \in Old /\ more[i].version = blocks[i].version /\ i <= n
                      \/ i > n /\ i \in Nat /\ i - n \in 1 .. m
                         /\ more[i].version = applied + (i - n)
    OBVIOUS
  <2>1. i \in 1 .. n + m
    BY <1>1
  <2>2. CASE i <= n
    BY <1>1, <2>1, <2>2
  <2>3. CASE i > n
    <3>1. i - n \in 1 .. m /\ i = n + (i - n)
      BY <1>1, <2>1, <2>3
    <3> QED
      BY <1>2, <2>1, <2>3, <3>1
  <2> QED
    BY <1>1, <2>1, <2>2, <2>3
<1>6. \A v \in 1 .. input : \E i \in Inputs : more[i].version = v
  <2> SUFFICES ASSUME NEW v \in 1 .. input PROVE \E i \in Inputs : more[i].version = v
    OBVIOUS
  <2>1. CASE v <= applied
    <3>1. PICK i \in Old : blocks[i].version = v
      BY <1>3, <2>1
    <3>2. i \in Inputs /\ more[i].version = v
      BY <1>1, <3>1
    <3> QED
      BY <3>2
  <2>2. CASE v > applied
    <3>1. PICK k \in 1 .. m : applied + k = v
      <4>1. v - applied \in 1 .. m /\ applied + (v - applied) = v
        BY <1>4, <2>2
      <4> QED
        BY <4>1
    <3>2. n + k \in DOMAIN more
      BY <1>1
    <3>3. more[n + k].kind = "input" /\ more[n + k].version = v
      BY <1>2, <3>1
    <3> QED
      BY <3>2, <3>3
  <2> QED
    BY <2>1, <2>2
<1>7. \A i \in Inputs : more[i].version \in 1 .. input
  <2> SUFFICES ASSUME NEW i \in Inputs PROVE more[i].version \in 1 .. input
    OBVIOUS
  <2>1. CASE i \in Old /\ more[i].version = blocks[i].version
    BY <1>3, <2>1
  <2>2. CASE i - n \in 1 .. m /\ more[i].version = applied + (i - n)
    BY <1>4, <2>2
  <2> QED
    BY <1>5, <2>1, <2>2
<1>8. \A i, j \in Inputs : i < j => more[i].version < more[j].version
  <2> SUFFICES ASSUME NEW i \in Inputs, NEW j \in Inputs, i < j
               PROVE  more[i].version < more[j].version
    OBVIOUS
  <2>0. i \in Nat /\ j \in Nat
    BY <1>1
  <2>1. CASE i <= n /\ j <= n
    <3>1. i \in Old /\ more[i].version = blocks[i].version
      BY <1>1, <1>5, <2>0, <2>1
    <3>2. j \in Old /\ more[j].version = blocks[j].version
      BY <1>1, <1>5, <2>0, <2>1
    <3> HIDE DEF Old
    <3> QED
      BY <1>3, <3>1, <3>2
  <2>2. CASE i <= n /\ j > n
    <3>1. more[i].version \in 1 .. applied
      BY <1>1, <1>3, <1>5, <2>0, <2>2
    <3>2. j - n \in 1 .. m /\ more[j].version = applied + (j - n)
      BY <1>1, <1>5, <2>0, <2>2
    <3> QED
      BY <3>1, <3>2
  <2>3. CASE i > n
    <3>1. j > n
      BY <1>1, <2>0, <2>3
    <3>2. more[i].version = applied + (i - n)
      <4>1. ~(i <= n)
        BY <1>1, <2>0, <2>3
      <4> QED
        BY <1>5, <4>1
    <3>3. more[j].version = applied + (j - n)
      <4>1. ~(j <= n)
        BY <1>1, <2>0, <3>1
      <4> QED
        BY <1>5, <4>1
    <3> QED
      BY <1>1, <2>0, <3>2, <3>3
  <2> QED
    BY <1>1, <2>0, <2>1, <2>2, <2>3
<1>9. Holds(more, input)
  BY <1>6, <1>7, <1>8 DEF Holds
<1> QED
  BY <1>9 DEF more

(* appendInputs keeps what the trajectory holds. *)
LEMMA HoldsPending ==
  ASSUME NEW r \in Runs, NEW blocks \in Seq(Blocks), Holds(blocks, r.applied)
  PROVE  Holds(blocks \o PendingInputs(r), ApplyInputs(r).applied)
<1>1. PendingInputs(r) \in Seq(Blocks) /\ r.applied \in Nat /\ r.input \in Nat
  BY PendingInputsTyped DEF Runs
<1>2. CASE PendingInputs(r) = <<>>
  BY <1>2, ApplyShape, ConcatEmptySeq
<1>3. CASE PendingInputs(r) # <<>>
  BY <1>1, <1>3, ApplyShape, PendingShape, HoldsMore
<1> QED
  BY <1>2, <1>3

(* Inputs enter the trajectory together with their mark. *)
LEMMA InputsNext == TypeInv /\ InputsOnceInOrder /\ [Next]_vars => InputsOnceInOrder'
<1> SUFFICES ASSUME TypeInv, InputsOnceInOrder, [Next]_vars
             PROVE  Holds(trajectory', run'.applied)
  BY HoldsInputs DEF InputsOnceInOrder, Holds
<1>1. run \in Runs /\ trajectory \in Seq(Blocks) /\ run.applied \in Nat
      /\ requests \subseteq Requests
  BY DEF TypeInv, RowsTyped, Runs
<1>2. Holds(trajectory, run.applied)
  BY HoldsInputs
<1>3. CASE trajectory' = trajectory /\ run'.applied = run.applied
  BY <1>2, <1>3
<1>4. CASE \E w \in Workers : Start(w) /\ trajectory' # trajectory
  <2> DEFINE started == [run EXCEPT !.status = "running", !.executor = "accepted"]
             system == [kind |-> "system", version |-> 0]
  <2>1. trajectory = <<>> /\ run' = ApplyInputs(started)
        /\ trajectory' = <<system>> \o PendingInputs(run)
    BY <1>4 DEF Start
  <2>2. started \in Runs /\ started.applied = run.applied /\ started.input = run.input
    BY <1>1 DEF Runs, Statuses, ExecutorStatuses
  <2>3. PendingInputs(run) = PendingInputs(started)
    BY <2>2 DEF PendingInputs
  <2>4. system \in Blocks /\ system.kind # "input" /\ Append(<<>>, system) = <<system>>
    BY DEF Blocks
  <2> HIDE DEF started, system
  <2>5. <<system>> \in Seq(Blocks) /\ Holds(<<system>>, started.applied)
    <3>1. Append(trajectory, system) = <<system>>
      BY <2>1, <2>4
    <3>2. Holds(Append(trajectory, system), run.applied)
      BY <1>1, <1>2, <2>4, HoldsOther
    <3>3. <<system>> \in Seq(Blocks)
      BY <2>4
    <3> QED
      BY <2>2, <3>1, <3>2, <3>3
  <2> QED
    BY <2>1, <2>2, <2>3, <2>5, HoldsPending
<1>5. CASE \E w \in Workers : BeforeModel(w)
  <2>1. \/ trajectory' = trajectory /\ run' \in {run, [run EXCEPT !.status = "waiting_input"]}
        \/ run' = ApplyInputs(run) /\ trajectory' = trajectory \o PendingInputs(run)
    BY <1>5 DEF BeforeModel
  <2>2. [run EXCEPT !.status = "waiting_input"].applied = run.applied
    BY <1>1 DEF Runs
  <2> QED
    BY <1>1, <1>2, <2>1, <2>2, HoldsPending
<1>6. CASE \E w \in Workers, kind \in {"final", "ask"} : Respond(w, kind)
  <2>1. PICK w \in Workers, kind \in {"final", "ask"} : Respond(w, kind)
    BY <1>6
  <2> DEFINE mine == {c \in requests : c.id = worker[w].request}
             block == [kind |-> kind, version |-> Newest(mine).bound]
  <2>2. run' = run /\ (trajectory' = trajectory \/ trajectory' = Append(trajectory, block))
    BY <2>1 DEF Respond
  <2>3. block.kind # "input"
    OBVIOUS
  <2>4. trajectory' # trajectory => block \in Blocks
    <3>1. TypeInv'
      BY TypeNext
    <3>2. trajectory' \in Seq(Blocks)
      BY <3>1 DEF TypeInv, RowsTyped
    <3> HIDE DEF block
    <3>3. trajectory' = Append(trajectory, block) => block \in Blocks
      <4>1. ASSUME trajectory' = Append(trajectory, block) PROVE block \in Blocks
        <5>1. trajectory'[Len(trajectory) + 1] = block /\ Len(trajectory) + 1 \in DOMAIN trajectory'
          BY <1>1, <4>1
        <5> QED
          BY <3>2, <5>1
      <4> QED
        BY <4>1
    <3> QED
      BY <2>2, <3>3
  <2> HIDE DEF block
  <2> QED
    BY <1>1, <1>2, <2>2, <2>3, <2>4, HoldsOther
<1>7. CASE \E w \in Workers : AskForInput(w)
  <2> DEFINE block == [kind |-> "result", version |-> run.applied]
  <2>1. run'.applied = run.applied
    BY <1>1, <1>7 DEF AskForInput, Runs
  <2>2. trajectory' = trajectory \/ trajectory' = Append(trajectory, block)
    BY <1>7 DEF AskForInput
  <2>3. block \in Blocks /\ block.kind # "input"
    BY <1>1 DEF Blocks
  <2> HIDE DEF block
  <2> QED
    BY <1>1, <1>2, <2>1, <2>2, <2>3, HoldsOther
<1>8. CASE \E w \in Workers : Start(w) /\ trajectory' = trajectory
  <2>1. PICK w \in Workers : Start(w) /\ trajectory' = trajectory
    BY <1>8
  <2>2. CASE run' = run
    BY <1>3, <2>1, <2>2
  <2>3. CASE run' # run
    <3>1. trajectory = <<>> /\ trajectory' = <<[kind |-> "system", version |-> 0]>> \o PendingInputs(run)
      BY <2>1, <2>3 DEF Start
    <3>2. <<[kind |-> "system", version |-> 0]>> \in Seq(Blocks)
      BY DEF Blocks
    <3>3. trajectory' # <<>>
      BY <1>1, <3>1, <3>2, LastAfterInputs
    <3> QED
      BY <2>1, <3>1, <3>3
  <2> QED
    BY <2>2, <2>3
<1>9. CASE \E w \in Workers : \/ Restart(w) \/ PrepareRequest(w) \/ CreateRequest(w) \/ Invoke(w)
                              \/ RespondError(w) \/ FinalCheck(w) \/ Generate(w)
                              \/ QueueOutput(w) \/ Post(w) \/ ConfirmStop(w) \/ Fail(w)
  <2>1. trajectory' = trajectory
    BY <1>9 DEF Restart, PrepareRequest, CreateRequest, Invoke, RespondError, FinalCheck,
       Generate, QueueOutput, Post, ConfirmStop, Fail
  <2>2. run'.applied = run.applied
    BY <1>1, <1>9 DEF Restart, PrepareRequest, CreateRequest, Invoke, RespondError, FinalCheck,
       Generate, QueueOutput, Post, ConfirmStop, Fail, FailedRun, Runs
  <2> QED
    BY <1>3, <2>1, <2>2
<1>10. CASE Reconcile \/ Control \/ \E p \in Publishers : Publish(p)
  BY <1>3, <1>10, OthersFacts DEF FactsStill
<1>11. CASE \E p \in Processes : Claim(p)
  <2>1. run' \in {run, ClaimRun(run)} /\ trajectory' = trajectory
    BY <1>11 DEF Claim
  <2>2. ClaimRun(run).applied = run.applied
    BY <1>1 DEF ClaimRun, Runs
  <2> QED
    BY <1>3, <2>1, <2>2
<1>12. CASE UNCHANGED <<run, trajectory>>
  BY <1>3, <1>12
<1> QED
  BY <1>4, <1>5, <1>6, <1>7, <1>8, <1>9, <1>10, <1>11, <1>12 DEF Next, ExecuteStep, PublishStep,
     Publish, Processes, Enter, Finish, Withdraw, Crash, LeaseExpires, Stall, vars

(* Every accepted input enters the trajectory once and in its order, whoever *)
(* executes the run and whoever stalls (appendInputs): its blocks and its    *)
(* mark are one transaction.                                                 *)
THEOREM InputsEnterOnce == Spec => []InputsOnceInOrder
<1>1. Init => InputsOnceInOrder
  <2> SUFFICES ASSUME Init PROVE InputsOnceInOrder
    OBVIOUS
  <2>1. trajectory = <<>> /\ run.applied = 0
    BY DEF Init
  <2> QED
    BY <2>1 DEF InputsOnceInOrder
<1>2. Spec => []TypeInv
  BY TypeInit, TypeNext, PTL DEF Spec
<1> QED
  BY <1>1, <1>2, InputsNext, PTL DEF Spec

-----------------------------------------------------------------------------
(* Somebody comes                                                           *)

(* A stop that was requested is under way. *)
StopAsked == run.stop \in {"requested", "unknown"} => run.status = "stopping" \/ TerminalRun(run)

(* Whoever is to confirm a stop finds one, or the end of the run. *)
ConfirmHasStop ==
    \A w \in Workers : At(w, "confirm") => run.status = "stopping" \/ TerminalRun(run)

(* A worker that may close its item without having served the run: it goes   *)
(* without an error, or it will because the run went on without it.          *)
Leaving(w) ==
    \/ worker[w].pc \in {"post", "finish"} /\ worker[w].err = "none"
    \/ /\ worker[w].pc \notin {"idle", "enter", "finish"} /\ worker[w].generation # 0
       /\ worker[w].generation # run.generation \/ run.status = "stopping"

(* An open item that nobody is about to close. *)
Secured(i) ==
    /\ outbox[i].kind = "execute" /\ ~outbox[i].done
    /\ \A w \in Workers : outbox[i].holder = w /\ worker[w].item = i => ~Leaving(w)

(* The run waits for a worker, not for a user or a publisher. *)
Needed == run.status \in {"accepted", "running", "stopping"} /\ run.output # "pending"

Pursued == Needed => \E i \in DOMAIN outbox : Secured(i)

WakeInv == StopAsked /\ ConfirmHasStop /\ Pursued

(* A step that queues a wake-up, and one that gives no worker a new reason to *)
(* leave and no run a new need.                                              *)
Wakes == outbox' = Append(outbox, NewItem("execute"))
Undisturbed ==
    /\ run'.generation = run.generation
    /\ run'.status = "stopping" => run.status = "stopping"
    /\ Needed' => Needed

(* Nobody holds a new item. *)
LEMMA NewSecured ==
  ASSUME TypeInv, Wakes
  PROVE  \E i \in DOMAIN outbox' : Secured(i)'
<1> DEFINE i == Len(outbox) + 1
<1>1. i \in DOMAIN outbox' /\ outbox'[i] = NewItem("execute")
  BY NewItemTyped DEF TypeInv, RowsTyped, Wakes
<1> HIDE DEF i
<1>2. outbox'[i].kind = "execute" /\ ~outbox'[i].done /\ outbox'[i].holder = "none"
  BY <1>1 DEF NewItem
<1>3. "none" \notin Workers
  BY ProcessAssumption
<1> QED
  BY <1>1, <1>2, <1>3 DEF Secured

(* An item stays secured while its holder gets no reason to leave. *)
LEMMA SecuredKept ==
  ASSUME TypeInv, Pursued, Needed,
         \A i \in DOMAIN outbox : Secured(i) =>
            /\ i \in DOMAIN outbox' /\ outbox'[i].kind = outbox[i].kind
            /\ outbox'[i].done = outbox[i].done
            /\ outbox'[i].holder \in {outbox[i].holder, "none"} \cup Publishers,
         \A w \in Workers :
            \/ worker'[w].item = worker[w].item /\ (~Leaving(w) => ~Leaving(w)')
            \/ worker'[w] = Idle
  PROVE  \E i \in DOMAIN outbox' : Secured(i)'
<1>1. PICK i \in DOMAIN outbox : Secured(i)
  BY DEF Pursued
<1>2. ASSUME NEW w \in Workers, outbox'[i].holder = w, worker'[w].item = i PROVE ~Leaving(w)'
  <2>1. outbox[i].holder = w
    BY <1>1, <1>2, ProcessAssumption
  <2>2. CASE worker'[w] = Idle
    BY <2>2 DEF Leaving, Idle
  <2>3. CASE worker'[w].item = worker[w].item /\ (~Leaving(w) => ~Leaving(w)')
    BY <1>1, <1>2, <2>1, <2>3 DEF Secured
  <2> QED
    BY <2>2, <2>3
<1> QED
  BY <1>1, <1>2 DEF Secured

(* Whoever stands still gets a reason to leave only from the run. *)
LEMMA LeavingStill ==
  ASSUME NEW w \in Workers, worker'[w] = worker[w], Undisturbed
  PROVE  worker'[w].item = worker[w].item /\ (~Leaving(w) => ~Leaving(w)')
  BY DEF Leaving, Undisturbed

(* A worker's step leaves the run no new reason and no new need: nobody       *)
(* writes into a parked run.                                                 *)
LEMMA WorkUndisturbed ==
  ASSUME TypeInv, FenceInv, ResultInv, NEW w \in Workers, Work(w)
  PROVE  Undisturbed
<1>1. run \in Runs /\ [Next]_vars
  BY DEF TypeInv, RowsTyped, Next, ExecuteStep, Work
<1>2. /\ run'.generation = run.generation
      /\ TerminalRun(run) => TerminalRun(run')
      /\ run.output = "pending" => run'.output = "pending" \/ TerminalRun(run')
  BY <1>1, WorkRows, EndedStep, SettledStays DEF Ended, TerminalRun
<1>3. ASSUME LeaseHeld(Gen(w)), worker[w].pc \in WritePoints PROVE ~Parked(run)
  BY <1>3, LeaseWrites DEF FenceInv, ParkedRests
<1>4. /\ run'.status = "stopping" => run.status = "stopping"
      /\ Parked(run) => Parked(run') \/ TerminalRun(run')
  <2>1. CASE Start(w) \/ Restart(w)
    <3> DEFINE started == [run EXCEPT !.status = "running", !.executor = "accepted"]
    <3>1. started \in Runs /\ started.status = "running"
      BY <1>1 DEF Runs, Statuses, ExecutorStatuses
    <3>2. run' = run \/ (run' \in {started, ApplyInputs(started)} /\ LeaseHeld(Gen(w)))
      BY <2>1 DEF Start, Restart, ExecutionOpen, LifecycleOpen
    <3>3. worker[w].pc \in WritePoints
      BY <2>1 DEF Start, Restart, At, WritePoints
    <3> HIDE DEF started
    <3> QED
      BY <1>3, <3>1, <3>2, <3>3, ApplyShape
  <2>2. CASE BeforeModel(w)
    <3>1. run' \in {run, [run EXCEPT !.status = "waiting_input"], ApplyInputs(run)}
      BY <2>2 DEF BeforeModel
    <3>2. run'.status \in {run.status, "waiting_input"}
      BY <1>1, <3>1, ApplyShape DEF Runs
    <3> QED
      BY <3>2 DEF Parked
  <2>3. CASE AskForInput(w) \/ Generate(w) \/ QueueOutput(w)
    <3>1. run'.status = run.status
      BY <1>1, <2>3 DEF AskForInput, Generate, QueueOutput, Runs
    <3> QED
      BY <3>1 DEF Parked
  <2>4. CASE ConfirmStop(w) \/ Fail(w)
    <3>1. run' = run \/ run'.status \in {"stopped", "failed"}
      BY <1>1, <2>4 DEF ConfirmStop, Fail, FailedRun, Runs
    <3> QED
      BY <3>1 DEF TerminalRun
  <2>5. CASE run' = run
    BY <2>5
  <2> QED
    BY <2>1, <2>2, <2>3, <2>4, <2>5 DEF Work, PrepareRequest, CreateRequest, Invoke, Respond,
       RespondError, FinalCheck, Post
<1> QED
  BY <1>1, <1>2, <1>4 DEF Undisturbed, Needed, TerminalRun, Parked, Runs, Statuses

(* Nor does a publisher's. *)
LEMMA PublishUndisturbed ==
  ASSUME TypeInv, FenceInv, ResultInv, NEW p \in Publishers, Publish(p)
  PROVE  Undisturbed
<1>1. run \in Runs /\ [Next]_vars
  BY DEF TypeInv, RowsTyped, Next, PublishStep, Publish
<1>2. run.output = "pending" => run'.output = "pending" \/ TerminalRun(run')
  BY <1>1, SettledStays
<1>3. run' = run \/ (run'.generation = run.generation /\ run'.status \in {"succeeded", "failed"})
  BY <1>1 DEF Publish, ReadOutput, SendBotReply, SendUnavailable, CommitOutput, CommitPersonal,
     FailOutput, SucceededRun, FailedRun, Runs
<1> QED
  BY <1>2, <1>3 DEF Undisturbed, Needed

(* requestRunStop on a run that is neither over nor being stopped wakes       *)
(* somebody, or leaves the run as it needs to be.                            *)
LEMMA RequestStopWakes ==
  ASSUME NEW r \in Runs, NEW reason, r.status = run.status, r.stop = run.stop,
         r.generation = run.generation, r.output = run.output, StopAsked, ~TerminalRun(run),
         run' = RequestStop(r, reason).row, outbox' = Wake(RequestStop(r, reason).wake)
  PROVE  /\ Wakes \/ Undisturbed
         /\ run'.stop \in {"requested", "unknown"} =>
               run'.status = "stopping" \/ TerminalRun(run')
<1>1. CASE r.executor = "completed"
  <2>1. /\ run'.generation = run.generation /\ run'.stop = run.stop
        /\ \/ run'.status = run.status /\ run'.output = run.output
           \/ run'.status \in {"succeeded", "failed"}
    BY <1>1 DEF RequestStop, Runs
  <2> QED
    BY <2>1 DEF Undisturbed, Needed, StopAsked, TerminalRun
<1>2. CASE r.executor # "completed" /\ r.stop \in {"requested", "unknown"}
  <2>1. run.status = "stopping"
    BY <1>2 DEF StopAsked
  <2>2. run'.generation = run.generation /\ run'.status = "stopping" /\ run'.output = run.output
    BY <1>2, <2>1 DEF RequestStop, Runs
  <2> QED
    BY <2>1, <2>2 DEF Undisturbed, Needed
<1>3. CASE r.executor # "completed" /\ r.stop \notin {"requested", "unknown"}
  <2>1. RequestStop(r, reason).wake = TRUE /\ run'.status = "stopping"
    BY <1>3 DEF RequestStop, Runs
  <2>2. Wakes
    BY <2>1 DEF Wake, Wakes
  <2> QED
    BY <2>1, <2>2
<1> QED
  BY <1>1, <1>2, <1>3

(* The monitor wakes whoever it takes a reason from, or parks the run. *)
LEMMA ReconcileWakes ==
  ASSUME TypeInv, StopAsked, Reconcile
  PROVE  (Needed' => Wakes \/ Undisturbed) /\ StopAsked'
<1>1. run \in Runs /\ ~TerminalRun(run)
  BY DEF TypeInv, RowsTyped, Reconcile, ReconcileLease, ReconcileController,
     ReconcileRevocation, LeaseLost, AuthorityDue
<1>2. CASE ReconcileLease
  <2>1. /\ run'.status = run.status /\ run'.output = run.output
        /\ run'.generation = run.generation
        /\ run'.stop \in {"requested", "unknown"} => run.stop \in {"requested", "unknown"}
    BY <1>1, <1>2 DEF ReconcileLease, Runs
  <2> QED
    BY <2>1 DEF Undisturbed, Needed, StopAsked, TerminalRun
<1>3. CASE ReconcileController
  <2>1. run.status # "stopping"
    BY <1>3 DEF ReconcileController, AuthorityDue, Suspended
  <2>2. run'.status = "waiting_authorization" /\ run'.stop = run.stop
    BY <1>1, <1>3 DEF ReconcileController, Runs
  <2> QED
    BY <1>1, <2>1, <2>2 DEF Needed, StopAsked
<1>4. CASE ReconcileRevocation
  <2> DEFINE marked == [run EXCEPT !.revoked = TRUE]
             stopped == RequestStop(marked, AuthorityReason)
  <2>1. marked \in Runs /\ marked.generation = run.generation /\ marked.status = run.status
        /\ marked.stop = run.stop /\ marked.output = run.output
    BY <1>1 DEF Runs
  <2>2. run' = stopped.row /\ outbox' = Wake(stopped.wake)
    BY <1>4 DEF ReconcileRevocation
  <2> HIDE DEF marked
  <2> QED
    BY <1>1, <2>1, <2>2, RequestStopWakes DEF StopAsked
<1> QED
  BY <1>2, <1>3, <1>4 DEF Reconcile

(* A command that gives a run new work wakes somebody for it. *)
LEMMA ControlWakes ==
  ASSUME TypeInv, StopAsked, Control
  PROVE  (Needed' => Wakes \/ Undisturbed) /\ StopAsked'
<1>1. run \in Runs
  BY DEF TypeInv, RowsTyped
<1>2. CASE ControlInput
  <2> DEFINE waiting == run.status # "waiting_input" /\ run.waiting
  <2>1. run' = [run EXCEPT !.input = run.input + 1,
                 !.status = IF run.status = "waiting_input" THEN "running" ELSE run.status,
                 !.waiting = waiting]
    BY <1>2 DEF ControlInput
  <2> HIDE DEF waiting
  <2>2. /\ run'.generation = run.generation /\ run'.output = run.output /\ run'.stop = run.stop
        /\ run'.status = IF run.status = "waiting_input" THEN "running" ELSE run.status
    BY <1>1, <2>1 DEF Runs
  <2>3. run.status = "waiting_input" => Wakes
    BY <1>2 DEF ControlInput, Wake, Wakes
  <2> QED
    BY <2>2, <2>3 DEF Undisturbed, Needed, StopAsked, TerminalRun
<1>3. CASE ControlResume
  <2>1. Wakes
    BY <1>3 DEF ControlResume, Wake, Wakes
  <2>2. run.status \notin {"stopping", "succeeded", "failed", "stopped"} /\ run'.stop = run.stop
    BY <1>1, <1>3 DEF ControlResume, Runs
  <2> QED
    BY <2>1, <2>2 DEF StopAsked, TerminalRun
<1>4. CASE ControlTakeover
  <2>1. CASE run.status = "waiting_authorization"
    <3>1. Wakes
      BY <1>4, <2>1 DEF ControlTakeover, Wake, Wakes
    <3>2. run'.stop = "none"
      BY <1>1, <1>4, <2>1 DEF ControlTakeover, Runs
    <3> QED
      BY <3>1, <3>2 DEF StopAsked
  <2>2. CASE run.status # "waiting_authorization"
    BY <1>4, <2>2 DEF ControlTakeover, Undisturbed, Needed, StopAsked, TerminalRun
  <2> QED
    BY <2>1, <2>2
<1>5. CASE ControlStop
  <2>1. CASE TerminalRun(run)
    <3>1. run'.status = run.status
      BY <1>1, <1>5, <2>1 DEF ControlStop, Runs
    <3> QED
      BY <2>1, <3>1 DEF Needed, StopAsked, TerminalRun
  <2>2. CASE ~TerminalRun(run)
    <3>1. run' = RequestStop(run, "user_requested").row
          /\ outbox' = Wake(RequestStop(run, "user_requested").wake)
      BY <1>5, <2>2 DEF ControlStop
    <3> QED
      BY <1>1, <2>2, <3>1, RequestStopWakes DEF StopAsked
  <2> QED
    BY <2>1, <2>2
<1> QED
  BY <1>2, <1>3, <1>4, <1>5 DEF Control

(* A worker that works for the run leaves it only when it is no longer needed *)
(* or by giving its item back: every refusal is an error.                    *)
LEMMA WorkStays ==
  ASSUME TypeInv, FenceInv, ResultInv, ConfirmHasStop, NEW w \in Workers, Work(w),
         ~Leaving(w), Needed'
  PROVE  ~Leaving(w)'
<1>0. w \in Processes /\ run \in Runs /\ worker \in [Processes -> Goroutines]
      /\ worker[w] \in Goroutines
  BY DEF Processes, TypeInv, RowsTyped, WorkersTyped
<1>1. run'.generation = run.generation /\ (run'.status = "stopping" => run.status = "stopping")
  BY WorkUndisturbed DEF Undisturbed
<1>2. Keeps(w)
  BY WorkMoves DEF GoesOnAlone
<1>3. worker[w].pc \notin {"idle", "enter", "finish"}
  BY DEF Work, Start, Restart, BeforeModel, PrepareRequest, CreateRequest, Invoke, Respond,
     RespondError, AskForInput, FinalCheck, Generate, QueueOutput, Post, ConfirmStop, Fail,
     AtBoundary, At
<1>4. Gen(w) = 0 \/ (Gen(w) = run.generation /\ run.status # "stopping")
  BY <1>3 DEF Leaving, Gen
<1>5. SUFFICES ASSUME worker'[w].pc \in {"post", "finish"}, worker'[w].err = "none" PROVE FALSE
  BY <1>1, <1>2, <1>4 DEF Leaving, Keeps, Gen
<1>6. ASSUME NEW pc, NEW err \in {"failed", "aborted"}, Return(w, pc, err) PROVE FALSE
  BY <1>0, <1>5, <1>6, ReturnFrame
<1>7. ASSUME NEW pc, pc \notin {"post", "finish"}, Goto(w, pc) PROVE FALSE
  BY <1>0, <1>5, <1>7, MoveFrame
<1>8. \A g : Refusal(g) \in {"failed", "aborted"}
  BY DEF Refusal
<1>9. CASE Start(w) \/ Restart(w)
  BY <1>6, <1>7, <1>8, <1>9 DEF Start, Restart
<1>10. CASE BeforeModel(w)
  <2>1. CASE run' = [run EXCEPT !.status = "waiting_input"]
    BY <1>0, <2>1 DEF Needed, Runs
  <2>2. CASE worker' = [worker EXCEPT
              ![w].pc = IF Last(trajectory').kind = "final" THEN "final" ELSE "round",
              ![w].view = Len(trajectory')]
    BY <1>0, <1>5, <2>2 DEF Goroutines
  <2> QED
    BY <1>6, <1>7, <1>8, <1>10, <2>1, <2>2 DEF BeforeModel
<1>11. CASE PrepareRequest(w) \/ CreateRequest(w)
  <2>1. CASE \E n : worker' = [worker EXCEPT ![w].pc = "invoke", ![w].request = n]
    BY <1>0, <1>5, <2>1 DEF Goroutines
  <2> QED
    BY <1>6, <1>7, <1>8, <1>11, <2>1 DEF PrepareRequest, CreateRequest
<1>12. CASE Invoke(w) \/ Respond(w, "final") \/ Respond(w, "ask") \/ RespondError(w)
  BY <1>6, <1>7, <1>8, <1>12 DEF Invoke, Respond, RespondError
<1>13. CASE AskForInput(w) \/ FinalCheck(w) \/ Generate(w)
  BY <1>6, <1>7, <1>8, <1>13 DEF AskForInput, FinalCheck, Generate
<1>14. CASE QueueOutput(w)
  <2>1. CASE run' = [run EXCEPT !.output = "pending"]
    BY <1>0, <2>1 DEF Needed, Runs
  <2> QED
    BY <1>6, <1>8, <1>14, <2>1 DEF QueueOutput
<1>15. CASE Post(w)
  <2>1. Gen(w) # 0 /\ worker[w].err # "none"
    BY <1>15 DEF Post, AtBoundary, At, FenceInv, WritersNumbered, Leaving, Gen
  <2>2. run.status \in {"accepted", "running", "stopping"}
    BY <1>15 DEF Post, Needed
  <2>3. Goto(w, "finish") => worker'[w].err = worker[w].err
    BY <1>0 DEF Goto, Goroutines
  <2> QED
    BY <1>4, <1>5, <1>7, <1>15, <2>1, <2>2, <2>3 DEF Post, TerminalRun
<1>16. CASE ConfirmStop(w)
  <2>1. run' = run
    BY <1>0, <1>16 DEF ConfirmStop, Needed, Runs
  <2>2. run.status = "stopping" /\ ~TerminalRun(run)
    BY <1>16, <2>1 DEF ConfirmStop, ConfirmHasStop, Needed, TerminalRun
  <2>3. LifecycleOpen(Gen(w))
    BY <1>4, <2>2 DEF LifecycleOpen, LeaseHeld
  <2>4. run'.status = "stopped"
    BY <1>0, <1>16, <2>2, <2>3 DEF ConfirmStop, Runs
  <2> QED
    BY <2>4 DEF Needed
<1>17. CASE Fail(w)
  <2>1. CASE LeaseHeld(Gen(w))
    <3>1. TerminalRun(run) \/ run' = FailedRun(run, FALSE)
      BY <1>17, <2>1 DEF Fail, LifecycleOpen
    <3>2. run' = run \/ run'.status = "failed"
      BY <1>0, <1>17 DEF Fail, FailedRun, Runs
    <3>3. FailedRun(run, FALSE).status = "failed"
      BY <1>0 DEF FailedRun, Runs
    <3> QED
      BY <3>1, <3>2, <3>3 DEF Needed, TerminalRun
  <2>2. CASE ~LeaseHeld(Gen(w))
    BY <1>6, <1>17, <2>2 DEF Fail
  <2> QED
    BY <2>1, <2>2
<1> QED
  BY <1>9, <1>10, <1>11, <1>12, <1>13, <1>14, <1>15, <1>16, <1>17 DEF Work

(* So does a worker at its entry. *)
LEMMA EnterStays ==
  ASSUME TypeInv, NEW w \in Workers, Enter(w), Needed'
  PROVE  ~Leaving(w)'
<1>0. w \in Processes /\ run' = run /\ worker \in [Processes -> Goroutines]
      /\ worker[w] \in Goroutines
  BY DEF Processes, TypeInv, WorkersTyped, Enter
<1>1. run.status \in {"accepted", "running", "stopping"} /\ run.output # "pending"
  BY <1>0 DEF Needed
<1>2. CASE run.status = "stopping"
  <2>1. worker' = [worker EXCEPT ![w].pc = "confirm", ![w].generation = 0]
    BY <1>1, <1>2 DEF Enter, TerminalRun, Parked
  <2> QED
    BY <1>0, <2>1 DEF Leaving, Goroutines
<1>3. CASE run.status # "stopping" /\ (Gen(w) = 0 \/ Gen(w) # run.generation)
  <2>1. Return(w, "finish", "aborted")
    BY <1>1, <1>3 DEF Enter, TerminalRun, Parked
  <2> QED
    BY <1>0, <2>1, ReturnFrame DEF Leaving
<1>4. CASE run.status # "stopping" /\ Gen(w) # 0 /\ Gen(w) = run.generation
  <2>1. Return(w, "post", "failed") \/ Goto(w, Advance)
    BY <1>1, <1>4 DEF Enter, TerminalRun, Parked
  <2>2. worker'[w].generation = worker[w].generation
    BY <1>0, <2>1 DEF Return, Goto, Goroutines
  <2>3. Advance \notin {"post", "finish"}
    BY <1>1 DEF Advance, FirstStep
  <2>4. ~(worker'[w].pc \in {"post", "finish"} /\ worker'[w].err = "none")
    BY <1>0, <2>1, <2>3, ReturnFrame, MoveFrame
  <2> QED
    BY <1>0, <1>4, <2>2, <2>4 DEF Leaving, Gen
<1> QED
  BY <1>2, <1>3, <1>4

(* A step that disturbs nobody and leaves the items there are alone keeps     *)
(* whoever is to come.                                                       *)
LEMMA PursuedStill ==
  ASSUME TypeInv, Pursued, Needed', Undisturbed, Grown,
         \A w \in Workers :
            \/ worker'[w] \in {worker[w], Idle}
            \/ worker'[w].item = worker[w].item /\ (~Leaving(w) => ~Leaving(w)')
  PROVE  \E i \in DOMAIN outbox' : Secured(i)'
<1>1. \A i \in DOMAIN outbox : i \in DOMAIN outbox' /\ outbox'[i] = outbox[i]
  BY GrownItems
<1>2. Needed
  BY DEF Undisturbed
<1>3. \A w \in Workers :
         \/ worker'[w].item = worker[w].item /\ (~Leaving(w) => ~Leaving(w)')
         \/ worker'[w] = Idle
  BY LeavingStill
<1> QED
  BY <1>1, <1>2, <1>3, SecuredKept

(* A claim either is the worker that comes, or a publisher's. *)
LEMMA ClaimPursued ==
  ASSUME TypeInv, Pursued, Needed', NEW p \in Processes, Claim(p)
  PROVE  \E i \in DOMAIN outbox' : Secured(i)'
<1>1. PICK i \in DOMAIN outbox :
         /\ outbox[i].kind = KindOf(p) /\ Eligible(i)
         /\ \E n : /\ outbox' = [outbox EXCEPT ![i].holder = p, ![i].live = TRUE,
                                              ![i].generation = n]
                   /\ worker' = [worker EXCEPT ![p] =
                         [Idle EXCEPT !.pc = IF p \in Workers THEN "enter" ELSE "read",
                                      !.item = i, !.generation = n]]
         /\ run' = IF KindOf(p) = "execute" THEN ClaimRun(run) ELSE run
  BY DEF Claim
<1>2. /\ outbox \in Seq(Items) /\ outbox[i] \in Items
      /\ worker \in [Processes -> Goroutines] /\ Workers \subseteq Processes
  BY DEF TypeInv, RowsTyped, WorkersTyped, Processes
<1>3. /\ DOMAIN outbox' = DOMAIN outbox
      /\ outbox'[i].kind = outbox[i].kind /\ outbox'[i].done = outbox[i].done
      /\ outbox'[i].holder = p
      /\ \A j \in DOMAIN outbox \ {i} : outbox'[j] = outbox[j]
  BY <1>1, <1>2 DEF Items
<1>4. /\ worker'[p].pc = IF p \in Workers THEN "enter" ELSE "read"
      /\ \A q \in Processes \ {p} : worker'[q] = worker[q]
  BY <1>1, <1>2 DEF Idle
<1>5. CASE p \in Workers
  <2>1. outbox[i].kind = "execute" /\ ~outbox[i].done
    BY <1>1, <1>5 DEF KindOf, Eligible
  <2>2. \A w \in Workers : outbox'[i].holder = w => ~Leaving(w)'
    BY <1>3, <1>4, <1>5 DEF Leaving
  <2> QED
    BY <1>3, <2>1, <2>2 DEF Secured
<1>6. CASE p \notin Workers
  <2>1. run' = run /\ outbox[i].kind = "output"
    BY <1>1, <1>6 DEF KindOf
  <2>2. Needed /\ Undisturbed
    BY <2>1 DEF Needed, Undisturbed
  <2>3. \A j \in DOMAIN outbox : Secured(j) => j \in DOMAIN outbox' /\ outbox'[j] = outbox[j]
    BY <1>3, <2>1 DEF Secured
  <2>4. \A w \in Workers :
           worker'[w].item = worker[w].item /\ (~Leaving(w) => ~Leaving(w)')
    BY <1>2, <1>4, <1>6, <2>2, LeavingStill
  <2> QED
    BY <2>2, <2>3, <2>4, SecuredKept
<1> QED
  BY <1>5, <1>6

(* A worker that closes its item had a reason to, and a publisher closes      *)
(* none of the workers'.                                                     *)
LEMMA FinishPursued ==
  ASSUME TypeInv, FenceInv, Pursued, Needed', NEW p \in Processes, Finish(p)
  PROVE  \E i \in DOMAIN outbox' : Secured(i)'
<1> DEFINE k == worker[p].item
<1>1. /\ outbox \in Seq(Items) /\ \A i \in DOMAIN outbox : outbox[i] \in Items
      /\ worker \in [Processes -> Goroutines] /\ Workers \subseteq Processes
  BY DEF TypeInv, RowsTyped, WorkersTyped, Processes
<1>2. /\ At(p, "finish") /\ run' = run /\ worker' = [worker EXCEPT ![p] = Idle]
      /\ outbox' = IF TokenMatches(p)
                   THEN [outbox EXCEPT ![k].holder = "none", ![k].live = FALSE,
                                       ![k].done = @ \/ worker[p].err = "none"]
                   ELSE outbox
  BY Zenon DEF Finish, At
<1>3. k \in DOMAIN outbox /\ outbox[k].kind = KindOf(p)
  BY <1>2 DEF TypeInv, WorkersTyped, FenceInv, ItemsKeepKind, At
<1> HIDE DEF k
<1>4. ASSUME NEW i \in DOMAIN outbox, Secured(i)
      PROVE  /\ i \in DOMAIN outbox' /\ outbox'[i].kind = outbox[i].kind
             /\ outbox'[i].done = outbox[i].done
             /\ outbox'[i].holder \in {outbox[i].holder, "none"} \cup Publishers
  <2>1. CASE ~TokenMatches(p) \/ i # k
    BY <1>1, <1>2, <1>3, <2>1
  <2>2. CASE TokenMatches(p) /\ i = k
    <3>1. p \in Workers
      BY <1>3, <1>4, <2>2 DEF KindOf, Secured
    <3>2. ~Leaving(p)
      BY <1>4, <2>2, <3>1 DEF Secured, TokenMatches, k
    <3>3. worker[p].err # "none"
      BY <1>2, <3>2 DEF Leaving, At
    <3>4. outbox' = [outbox EXCEPT ![k].holder = "none", ![k].live = FALSE,
                                   ![k].done = outbox[k].done \/ worker[p].err = "none"]
      BY <1>2, <2>2
    <3>5. (outbox[k].done \/ worker[p].err = "none") = outbox[k].done
      BY <1>1, <1>3, <3>3 DEF Items
    <3> QED
      BY <1>1, <1>3, <2>2, <3>4, <3>5 DEF Items
  <2> QED
    BY <2>1, <2>2
<1>5. Needed /\ Undisturbed
  BY <1>2 DEF Needed, Undisturbed
<1>6. \A w \in Workers :
         \/ worker'[w].item = worker[w].item /\ (~Leaving(w) => ~Leaving(w)')
         \/ worker'[w] = Idle
  <2>1. \A w \in Workers : worker'[w] = worker[w] \/ worker'[w] = Idle
    BY <1>1, <1>2
  <2> QED
    BY <1>5, <2>1, LeavingStill
<1> QED
  BY <1>4, <1>5, <1>6, SecuredKept

(* Whoever is to come still is, or somebody new. *)
LEMMA PursuedNext ==
  ASSUME TypeInv, FenceInv, ResultInv, WakeInv, [Next]_vars
  PROVE  Pursued'
<1> SUFFICES ASSUME Needed' PROVE \E i \in DOMAIN outbox' : Secured(i)'
  BY DEF Pursued
<1> USE DEF WakeInv
<1>1. Workers \subseteq Processes /\ Publishers \subseteq Processes
      /\ \A p \in Publishers : p \notin Workers
  BY ProcessAssumption DEF Processes
<1>2. CASE \E w \in Workers : Work(w)
  <2>1. PICK w \in Workers : Work(w)
    BY <1>2
  <2>2. Undisturbed /\ Grown
    BY <2>1, WorkUndisturbed, WorkRows
  <2>3. worker'[w].item = worker[w].item /\ (~Leaving(w) => ~Leaving(w)')
    BY <2>1, WorkMoves, WorkStays DEF GoesOnAlone, Keeps
  <2>4. \A v \in Workers : v # w => worker'[v] = worker[v]
    BY <1>1, <2>1, WorkMoves DEF GoesOnAlone, MovesAlone
  <2> QED
    BY <2>2, <2>3, <2>4, PursuedStill
<1>3. CASE \E w \in Workers : Enter(w)
  <2>1. PICK w \in Workers : Enter(w)
    BY <1>3
  <2>2. Undisturbed /\ Grown
    BY <2>1 DEF Enter, Undisturbed, Needed, Grown
  <2>3. worker'[w].item = worker[w].item /\ (~Leaving(w) => ~Leaving(w)')
    <3>1. worker \in [Processes -> Goroutines] /\ worker[w] \in Goroutines
      BY <1>1 DEF TypeInv, WorkersTyped
    <3>2. \/ \E pc : Goto(w, pc) \/ \E err : Return(w, pc, err)
          \/ worker' = [worker EXCEPT ![w].pc = "confirm", ![w].generation = 0]
      BY <2>1 DEF Enter
    <3>3. worker'[w].item = worker[w].item
      BY ZenonT(60), <1>1, <3>1, <3>2 DEF Goto, Return, Goroutines
    <3> QED
      BY <2>1, <3>3, EnterStays
  <2>4. \A v \in Workers : v # w => worker'[v] = worker[v]
    BY <1>1, <2>1 DEF TypeInv, WorkersTyped, Enter, Goto, Return
  <2> QED
    BY <2>2, <2>3, <2>4, PursuedStill
<1>4. CASE \E p \in Publishers : Publish(p)
  <2>1. PICK p \in Publishers : Publish(p)
    BY <1>4
  <2>2. Undisturbed /\ Grown
    BY <1>1, <2>1, PublishUndisturbed, PublishQuiet DEF Quiet
  <2>3. \A w \in Workers : worker'[w] = worker[w]
    BY <1>1, <2>1, PublishMoves DEF GoesOnAlone, MovesAlone
  <2> QED
    BY <2>2, <2>3, PursuedStill
<1>5. CASE Reconcile \/ Control
  <2>1. Wakes \/ (Undisturbed /\ Grown)
    BY <1>5, ReconcileWakes, ControlWakes, ReconcileQuiet, ControlQuiet DEF Quiet
  <2>2. worker' = worker
    BY <1>5 DEF Reconcile, ReconcileLease, ReconcileController, ReconcileRevocation,
       Control, ControlInput, ControlResume, ControlTakeover, ControlStop
  <2> QED
    BY <2>1, <2>2, NewSecured, PursuedStill
<1>6. CASE \E p \in Processes : Claim(p)
  BY <1>6, ClaimPursued
<1>7. CASE \E p \in Processes : Finish(p)
  BY <1>7, FinishPursued
<1>8. CASE \/ \E ground \in Grounds : Withdraw(ground)
           \/ \E p \in Processes : Crash(p)
           \/ UNCHANGED vars
  <2>1. run' = run /\ outbox' = outbox
    BY <1>8 DEF Withdraw, Crash, vars
  <2>2. Undisturbed /\ Grown
    BY <2>1 DEF Undisturbed, Needed, Grown
  <2>3. \A w \in Workers : worker'[w] \in {worker[w], Idle}
    <3>1. worker \in [Processes -> Goroutines]
      BY DEF TypeInv, WorkersTyped
    <3> QED
      BY <1>1, <1>8, <3>1 DEF Withdraw, Crash, vars
  <2> QED
    BY <2>2, <2>3, PursuedStill
<1>9. CASE \E i \in DOMAIN outbox : LeaseExpires(i) \/ Stall(i)
  <2>1. PICK i \in DOMAIN outbox : LeaseExpires(i) \/ Stall(i)
    BY <1>9
  <2>2. run' = run /\ worker' = worker /\ outbox' = [outbox EXCEPT ![i].live = FALSE]
    BY <2>1 DEF LeaseExpires, Stall
  <2>3. \A j \in DOMAIN outbox :
           /\ j \in DOMAIN outbox' /\ outbox'[j].kind = outbox[j].kind
           /\ outbox'[j].done = outbox[j].done /\ outbox'[j].holder = outbox[j].holder
    <3>1. outbox \in Seq(Items) /\ \A j \in DOMAIN outbox : outbox[j] \in Items
      BY DEF TypeInv, RowsTyped
    <3> QED
      BY <2>2, <3>1 DEF Items
  <2>4. Needed /\ Undisturbed
    BY <2>2 DEF Needed, Undisturbed
  <2>5. \A w \in Workers : worker'[w].item = worker[w].item /\ (~Leaving(w) => ~Leaving(w)')
    BY <2>2, <2>4, LeavingStill
  <2> QED
    BY <2>3, <2>4, <2>5, SecuredKept
<1> QED
  BY <1>1, <1>2, <1>3, <1>4, <1>5, <1>6, <1>7, <1>8, <1>9 DEF Next, ExecuteStep, PublishStep,
     Work, Publish

(* A run that was asked to stop is stopping, or over, after every step. *)
LEMMA StopAskedNext ==
  ASSUME TypeInv, FenceInv, ResultInv, StopAsked, [Next]_vars
  PROVE  StopAsked'
<1>1. run \in Runs
  BY DEF TypeInv, RowsTyped
<1>2. CASE Reconcile \/ Control
  BY <1>2, ReconcileWakes, ControlWakes
<1>3. CASE run'.stop = run.stop \/ TerminalRun(run')
  BY <1>3, EndedStep, HeldStep DEF StopAsked, Ended, Held, TerminalRun
<1>4. ASSUME NEW w \in Workers, Work(w) PROVE run'.stop = run.stop \/ TerminalRun(run')
  <2>1. CASE Start(w) \/ Restart(w)
    <3> DEFINE started == [run EXCEPT !.status = "running", !.executor = "accepted"]
    <3>1. started \in Runs /\ started.stop = run.stop
      BY <1>1 DEF Runs, Statuses, ExecutorStatuses
    <3>2. run' \in {run, started, ApplyInputs(started)}
      BY <2>1 DEF Start, Restart
    <3> HIDE DEF started
    <3> QED
      BY <3>1, <3>2, ApplyShape
  <2>2. CASE BeforeModel(w)
    <3>1. run' \in {run, [run EXCEPT !.status = "waiting_input"], ApplyInputs(run)}
      BY <2>2 DEF BeforeModel
    <3> QED
      BY <1>1, <3>1, ApplyShape DEF Runs
  <2>3. CASE AskForInput(w) \/ Generate(w) \/ QueueOutput(w)
    BY <1>1, <2>3 DEF AskForInput, Generate, QueueOutput, Runs
  <2>4. CASE ConfirmStop(w) \/ Fail(w)
    BY <1>1, <2>4 DEF ConfirmStop, Fail, FailedRun, TerminalRun, Runs
  <2>5. CASE run' = run
    BY <2>5
  <2> QED
    BY <1>4, <2>1, <2>2, <2>3, <2>4, <2>5 DEF Work, PrepareRequest, CreateRequest, Invoke,
       Respond, RespondError, FinalCheck, Post
<1>5. ASSUME NEW p \in Publishers, Publish(p) PROVE run'.stop = run.stop \/ TerminalRun(run')
  BY <1>1, <1>5 DEF Publish, ReadOutput, SendBotReply, SendUnavailable, CommitOutput,
     CommitPersonal, FailOutput, SucceededRun, FailedRun, Runs
<1>6. CASE \E p \in Processes : Claim(p)
  <2>1. run' \in {run, ClaimRun(run)}
    BY <1>6 DEF Claim
  <2>2. ClaimRun(run).stop = run.stop
    BY <1>1 DEF ClaimRun, Runs
  <2> QED
    BY <1>3, <2>1, <2>2
<1>7. CASE run' = run
  BY <1>3, <1>7
<1> QED
  BY <1>2, <1>3, <1>4, <1>5, <1>6, <1>7 DEF Next, ExecuteStep, PublishStep, Work, Publish,
     Processes, Enter, Finish, Withdraw, Crash, LeaseExpires, Stall, vars

(* A stop that a worker went to confirm is not taken back. *)
LEMMA ConfirmHasStopNext ==
  ASSUME TypeInv, FenceInv, ConfirmHasStop, [Next]_vars
  PROVE  ConfirmHasStop'
<1> DEFINE Stopped == run.status = "stopping" \/ TerminalRun(run)
<1> SUFFICES ASSUME NEW w \in Workers, worker'[w].pc = "confirm" PROVE Stopped'
  BY DEF ConfirmHasStop, At
<1>1. Stopped => Stopped'
  BY EndedStep, HeldStep DEF Ended, Held, TerminalRun
<1>2. CASE worker'[w] = worker[w]
  BY <1>1, <1>2 DEF ConfirmHasStop, At
<1>3. CASE worker'[w] # worker[w]
  <2>0. w \in Processes /\ worker \in [Processes -> Goroutines] /\ worker[w] \in Goroutines
    BY DEF Processes, TypeInv, WorkersTyped
  <2>1. CASE Claim(w) \/ Finish(w) \/ Crash(w)
    <3>1. CASE Claim(w)
      <4>1. PICK i, n :
               worker' = [worker EXCEPT ![w] =
                  [Idle EXCEPT !.pc = IF w \in Workers THEN "enter" ELSE "read",
                               !.item = i, !.generation = n]]
        BY <3>1, ClaimMoves
      <4> QED
        BY <2>0, <4>1 DEF Idle
    <3>2. CASE Finish(w) \/ Crash(w)
      BY <2>0, <3>2 DEF Finish, Crash, Idle
    <3> QED
      BY <2>1, <3>1, <3>2
  <2>2. CASE Enter(w)
    <3>1. CASE run.status # "stopping"
      <4>1. \E pc \in Points \ {"confirm"} : Goto(w, pc) \/ \E err : Return(w, pc, err)
        BY <2>2, <3>1 DEF Enter, Advance, FirstStep, Points, ExecutePoints
      <4> QED
        BY <2>0, <4>1, MoveFrame
    <3> QED
      BY <1>1, <3>1
  <2>3. CASE Post(w)
    <3>1. CASE run.status # "stopping"
      <4>1. \E pc \in Points \ {"confirm"} : Goto(w, pc) \/ \E err : Return(w, pc, err)
        BY <2>3, <3>1 DEF Post, Points, ExecutePoints
      <4> QED
        BY <2>0, <4>1, MoveFrame
    <3> QED
      BY <1>1, <3>1
  <2>4. CASE Work(w) /\ ~Post(w)
    <3> DEFINE Further == WritePoints \cup {"post", "finish"}
    <3>1. "confirm" \notin Further
      BY DEF WritePoints
    <3>2. \/ \E pc \in Further : Goto(w, pc) \/ \E err : Return(w, pc, err)
          \/ \E n : \E pc \in {"final", "round"} :
                worker' = [worker EXCEPT ![w].pc = pc, ![w].view = n]
          \/ \E n : worker' = [worker EXCEPT ![w].pc = "invoke", ![w].request = n]
      <4>1. CASE Start(w) \/ Restart(w)
        BY <4>1 DEF Start, Restart, WritePoints
      <4>2. CASE BeforeModel(w)
        <5>1. \/ \E pc \in {"post", "tool"} : Goto(w, pc) \/ \E err : Return(w, pc, err)
              \/ \E n : \E pc \in {"final", "round"} :
                    worker' = [worker EXCEPT ![w].pc = pc, ![w].view = n]
          BY <4>2 DEF BeforeModel
        <5> QED
          BY <5>1 DEF WritePoints
      <4>3. CASE PrepareRequest(w) \/ CreateRequest(w)
        BY <4>3 DEF PrepareRequest, CreateRequest, WritePoints
      <4>4. CASE Invoke(w) \/ Respond(w, "final") \/ Respond(w, "ask") \/ RespondError(w)
        BY <4>4 DEF Invoke, Respond, RespondError, WritePoints
      <4>5. CASE AskForInput(w) \/ FinalCheck(w) \/ Generate(w) \/ QueueOutput(w)
        BY <4>5 DEF AskForInput, FinalCheck, Generate, QueueOutput, WritePoints
      <4>6. CASE ConfirmStop(w) \/ Fail(w)
        BY <4>6 DEF ConfirmStop, Fail
      <4> QED
        BY <2>4, <4>1, <4>2, <4>3, <4>4, <4>5, <4>6 DEF Work
    <3>3. worker'[w].pc \in Further \cup {"invoke"}
      <4>1. CASE \E pc \in Further : Goto(w, pc) \/ \E err : Return(w, pc, err)
        BY <2>0, <4>1, MoveFrame
      <4> QED
        BY <2>0, <3>2, <4>1 DEF Goroutines
    <3> QED
      BY <3>1, <3>3
  <2> QED
    BY <1>3, <2>1, <2>2, <2>3, <2>4, OnlyItself
<1> QED
  BY <1>2, <1>3

(* Accept queues the first item with the run. *)
LEMMA WakeInit == Init => WakeInv
<1> SUFFICES ASSUME Init PROVE WakeInv
  OBVIOUS
<1>1. run.stop = "none" /\ outbox = <<NewItem("execute")>>
  BY DEF Init
<1>2. \A w \in Workers : worker[w].pc = "idle"
  BY DEF Init, Processes, Idle
<1>3. 1 \in DOMAIN outbox /\ outbox[1].kind = "execute" /\ ~outbox[1].done
      /\ outbox[1].holder = "none"
  BY <1>1 DEF NewItem
<1>4. "none" \notin Workers
  BY ProcessAssumption
<1>5. Secured(1)
  BY <1>3, <1>4 DEF Secured
<1> QED
  BY <1>1, <1>2, <1>3, <1>5 DEF WakeInv, StopAsked, ConfirmHasStop, Pursued, At

(* No crash, race or control command strands a run: while it is to be worked *)
(* on or stopped, an open item makes a worker look at it again, and while    *)
(* its result waits, one makes a publisher (requestRunStop, Control, Claim,  *)
(* Complete, Retry).                                                         *)
THEOREM NobodyStranded ==
  ASSUME StallsAfterEntry
  PROVE  Spec => []NeverStranded
<1>1. WritersInv /\ WakeInv /\ [Next]_vars => WakeInv'
  BY PursuedNext, StopAskedNext, ConfirmHasStopNext DEF WritersInv, WakeInv
<1>2. WritersInv /\ WakeInv => NeverStranded
  <2> SUFFICES ASSUME WritersInv, WakeInv, run.status \in {"accepted", "running", "stopping"}
               PROVE  \E i \in DOMAIN outbox :
                         ~outbox[i].done /\ (outbox[i].kind = "execute" \/ run.output = "pending")
    BY DEF NeverStranded
  <2>1. CASE run.output = "pending"
    BY <2>1 DEF WritersInv, ResultInv, PendingQueued, TerminalRun
  <2>2. CASE run.output # "pending"
    BY <2>2 DEF WakeInv, Pursued, Needed, Secured
  <2> QED
    BY <2>1, <2>2
<1> QED
  BY <1>1, <1>2, WritersHold, WakeInit, PTL DEF Spec

=============================================================================
