------------------------- MODULE RunActions_proofs -------------------------
(***************************************************************************)
(* What holds of the external actions of a run for any number of executors *)
(* and calls, and however often users, owners and crashes intervene.       *)
(***************************************************************************)
EXTENDS RunActions, WellFoundedInduction, TLAPS

(* A non-empty set of naturals has a least element: the first call without  *)
(* a result exists.                                                         *)
LEMMA Least ==
  ASSUME NEW S, S \subseteq Nat, S # {}
  PROVE  \E x \in S : \A y \in S : x <= y
<1>1. PICK x \in S : \A y \in S : ~(<<y, x>> \in OpToRel(<, Nat))
  BY NatLessThanWellFounded, WFMin, Zenon
<1>2. \A y \in S : ~(y < x)
  BY <1>1 DEF OpToRel
<1>3. x \in Nat /\ \A y \in S : y \in Nat
  OBVIOUS
<1> QED
  BY <1>2, <1>3

-----------------------------------------------------------------------------
(* Types                                                                    *)

(* The rows of the database. *)
RowsTyped == work \in Works /\ items \in Seq(ActionItems) /\ action \in [1 .. Calls -> Rows]
(* An executor at work has an item that is queued, and one that is busy     *)
(* with a call has a call.                                                  *)
Calling == {"prepare", "claim", "check", "call", "receipt", "pair"}
ThreadsTyped ==
    /\ executor \in [Executors -> Threads]
    /\ \A e \in Executors : executor[e].pc # "idle" => executor[e].item \in DOMAIN items
    /\ \A e \in Executors : executor[e].pc \in Calling => executor[e].call \in 1 .. Calls
RestTyped == /\ risks \in [1 .. Calls -> Risks]
             /\ paired \in [1 .. Calls -> {"none", "ok", "failed"}]
             /\ owner \in Nat /\ grant \in {"none", "live", "revoked"}
             /\ effects \in [1 .. Calls -> Nat]

TypeInv == RowsTyped /\ ThreadsTyped /\ RestTyped

(* The typing invariant contains the types that the run checks. *)
LEMMA TypeInvTyped == TypeInv => ActionsTypeOK
  BY DEF TypeInv, ActionsTypeOK, RowsTyped, ThreadsTyped, RestTyped

(* The counters of a run are numbers. *)
LEMMA CountersTyped ==
  ASSUME RowsTyped
  PROVE  /\ work.generation \in Nat /\ work.input \in Nat /\ work.controller \in Nat
         /\ work.generation + 1 \in Nat /\ work.input + 1 \in Nat
         /\ work.controller + 1 \in Nat
<1>1. work.generation \in Nat /\ work.input \in Nat /\ work.controller \in Nat
  BY DEF RowsTyped, Works
<1> QED
  BY <1>1

(* A goroutine that takes up a call. *)
TakenUp(r, c, n) == [r EXCEPT !.pc = "prepare", !.call = c, !.input = n, !.failed = FALSE]
(* It stays a goroutine with an item. *)
LEMMA TakeUpTyped ==
  ASSUME NEW r \in Threads, NEW c \in 1 .. Calls, NEW n \in Nat
  PROVE  /\ TakenUp(r, c, n) \in Threads /\ TakenUp(r, c, n).pc = "prepare"
         /\ TakenUp(r, c, n).item = r.item /\ TakenUp(r, c, n).call = c
<1>1. c \in 0 .. Calls /\ "prepare" \in Pcs
  BY ActionsAssumption DEF Pcs
<1> QED
  BY <1>1 DEF Threads, TakenUp

(* A goroutine that has nothing to do. *)
LEMMA AtRestTyped == AtRest \in Threads /\ AtRest.pc = "idle"
  BY ActionsAssumption DEF AtRest, Threads, Pcs

(* A run that was just accepted, and its execute item. *)
LEMMA TypeInit == ActionsInit => TypeInv
<1> SUFFICES ASSUME ActionsInit PROVE TypeInv
  OBVIOUS
<1>1. work \in Works
  BY DEF ActionsInit, Works
<1>2. items \in Seq(ActionItems)
  <2>1. items = <<NewWake>>
    BY DEF ActionsInit
  <2>2. NewWake \in ActionItems
    BY DEF NewWake, ActionItems
  <2> QED
    BY <2>1, <2>2
<1>3. action \in [1 .. Calls -> Rows]
  <2>1. Absent \in Rows
    BY DEF Absent, Rows, ActionStatuses
  <2> QED
    BY <2>1 DEF ActionsInit
<1>4. ThreadsTyped
  BY AtRestTyped DEF ActionsInit, ThreadsTyped, Calling
<1>5. RestTyped
  BY DEF ActionsInit, RestTyped
<1> QED
  BY <1>1, <1>2, <1>3, <1>4, <1>5 DEF TypeInv, RowsTyped

(* Parking a run, for a human or for a decision, leaves a row of bot.runs. *)
LEMMA ParkTyped ==
  ASSUME work \in Works
  PROVE  ParkUnknown(work) \in Works /\ ParkPending(work) \in Works
  BY DEF ParkUnknown, ParkPending, Works

(* Queueing an execution never removes an item. *)
LEMMA WakeTyped ==
  ASSUME items \in Seq(ActionItems)
  PROVE  WakeExecutor \in Seq(ActionItems) /\ DOMAIN items \subseteq DOMAIN WakeExecutor
<1>1. NewWake \in ActionItems
  BY DEF NewWake, ActionItems
<1> QED
  BY <1>1 DEF WakeExecutor

(* A row that is rebound stays a row, and only a decision lapses by it. *)
LEMMA ReboundTyped ==
  ASSUME RowsTyped, NEW c \in 1 .. Calls
  PROVE  Rebound(c) \in Rows
<1> DEFINE a == action[c]
           status == IF a.status \in {"pending", "approved"} /\ a.late THEN "expired"
                     ELSE IF a.status = "approved" /\ risks[c] = "write"
                             /\ ~ApprovalCurrent(a) THEN "revoked"
                     ELSE a.status
<1>1. a \in Rows /\ work.generation \in Nat
  BY DEF RowsTyped, Works
<1>2. status \in ActionStatuses
  BY <1>1 DEF Rows, ActionStatuses
<1>3. Rebound(c) = [a EXCEPT !.generation = work.generation, !.status = status]
  BY DEF Rebound
<1> HIDE DEF a, status
<1> QED
  BY <1>1, <1>2, <1>3 DEF Rows

(* A new action is a row. *)
LEMMA NewActionTyped ==
  ASSUME RowsTyped, NEW c \in 1 .. Calls
  PROVE  NewAction(c) \in Rows
  BY DEF RowsTyped, NewAction, Rows, Absent, Works, ActionStatuses

(* Recovery leaves rows of actions and a row of the run. *)
LEMMA RecoveryTyped ==
  ASSUME RowsTyped
  PROVE  ActionsAfterRecovery \in [1 .. Calls -> Rows] /\ WorkAfterRecovery \in Works
<1>1. \A c \in 1 .. Calls : Recovered(c) \in Rows
  BY DEF RowsTyped, Recovered, Rows, ActionStatuses
<1> QED
  BY <1>1, ParkTyped DEF RowsTyped, ActionsAfterRecovery, WorkAfterRecovery

(* A step of one goroutine, whatever it does to its record. *)
LEMMA StepTyped ==
  ASSUME ThreadsTyped, NEW e \in Executors, NEW t \in Threads,
         executor' = [executor EXCEPT ![e] = t],
         DOMAIN items \subseteq DOMAIN items',
         t.pc # "idle" => t.item \in DOMAIN items',
         t.pc \in Calling => t.call \in 1 .. Calls
  PROVE  ThreadsTyped'
  BY DEF ThreadsTyped

(* A goroutine that leaves its work keeps its item and forgets its call. *)
LEMMA LeaveTyped ==
  ASSUME ThreadsTyped, NEW e \in Executors, executor[e].pc # "idle",
         DOMAIN items \subseteq DOMAIN items',
         NEW err \in {"none", "aborted", "failed"}, Leave(e, err)
  PROVE  ThreadsTyped'
<1> DEFINE t(r) == [r EXCEPT !.pc = "post", !.err = err, !.item = executor[e].item,
                             !.generation = executor[e].generation]
<1>1. executor' = [executor EXCEPT ![e] = t(AtRest)]
  BY DEF Leave
<1>2. executor[e].item \in Nat /\ executor[e].generation \in Nat
      /\ executor[e].item \in DOMAIN items
  BY DEF ThreadsTyped, Threads
<1>3. ASSUME NEW r \in Threads
      PROVE  t(r) \in Threads /\ t(r).pc = "post" /\ t(r).item = executor[e].item
  BY <1>2 DEF Threads, Pcs
<1> HIDE DEF t
<1>4. t(AtRest) \in Threads /\ t(AtRest).pc = "post" /\ t(AtRest).item = executor[e].item
  BY <1>3, AtRestTyped
<1> QED
  BY <1>1, <1>2, <1>4, StepTyped DEF Calling

(* A goroutine that goes on keeps its item and its call. *)
LEMMA GoTyped ==
  ASSUME ThreadsTyped, NEW e \in Executors, executor[e].pc # "idle",
         DOMAIN items \subseteq DOMAIN items',
         NEW pc \in Pcs, NEW failed \in BOOLEAN,
         \/ StepTo(e, pc)
         \/ executor' = [executor EXCEPT ![e].pc = pc, ![e].failed = failed],
         pc \in Calling => executor[e].pc \in Calling
  PROVE  ThreadsTyped'
<1>1. executor[e] \in Threads /\ executor[e].item \in DOMAIN items
      /\ (pc \in Calling => executor[e].call \in 1 .. Calls)
  BY DEF ThreadsTyped
<1>2. CASE StepTo(e, pc)
  <2> DEFINE t == [executor[e] EXCEPT !.pc = pc]
  <2>1. t \in Threads /\ t.pc = pc /\ t.item = executor[e].item /\ t.call = executor[e].call
    BY <1>1 DEF Threads
  <2>2. executor' = [executor EXCEPT ![e] = t]
    BY <1>2 DEF StepTo
  <2> QED
    BY <1>1, <2>1, <2>2, StepTyped
<1>3. CASE executor' = [executor EXCEPT ![e].pc = pc, ![e].failed = failed]
  <2> DEFINE t == [executor[e] EXCEPT !.pc = pc, !.failed = failed]
  <2>1. t \in Threads /\ t.pc = pc /\ t.item = executor[e].item /\ t.call = executor[e].call
    BY <1>1 DEF Threads
  <2>2. executor' = [executor EXCEPT ![e] = t]
    BY <1>3
  <2> QED
    BY <1>1, <2>1, <2>2, StepTyped
<1> QED
  BY <1>2, <1>3

-----------------------------------------------------------------------------
(* Every action keeps the types                                             *)

(* The steps of a goroutine that change no row but the run's. *)
LEMMA FrameStepsTyped ==
  ASSUME TypeInv, NEW e \in Executors,
         \/ EnterWork(e) \/ RestartWork(e) \/ NextCall(e) \/ LeaveWork(e)
         \/ ConfirmStopped(e) \/ FailWork(e)
  PROVE  TypeInv'
<1> USE DEF TypeInv
<1>1. work' \in Works
  BY ZenonT(60) DEF EnterWork, RestartWork, NextCall, LeaveWork, ConfirmStopped, FailWork,
         RowsTyped, Works
<1>2. /\ UNCHANGED <<items, risks, action, paired, owner, grant, effects>>
      /\ DOMAIN items \subseteq DOMAIN items'
  BY DEF EnterWork, RestartWork, NextCall, LeaveWork, ConfirmStopped, FailWork
<1>3. executor[e].pc # "idle" /\ \A g : Refused(g) \in {"none", "aborted", "failed"}
  BY DEF EnterWork, RestartWork, NextCall, LeaveWork, ConfirmStopped, FailWork, Refused
<1>4. executor[e] \in Threads /\ executor[e].item \in DOMAIN items
  BY <1>3 DEF ThreadsTyped
<1>5. ThreadsTyped'
  <2>1. CASE EnterWork(e)
    <3>1. CASE executor' = [executor EXCEPT ![e].pc = "confirm", ![e].generation = 0]
      <4> DEFINE t == [executor[e] EXCEPT !.pc = "confirm", !.generation = 0]
      <4>1. t \in Threads /\ t.pc = "confirm" /\ t.item = executor[e].item
        BY <1>4 DEF Threads, Pcs
      <4>2. executor' = [executor EXCEPT ![e] = t]
        BY <3>1
      <4> QED
        BY <1>2, <1>4, <4>1, <4>2, StepTyped DEF Calling
    <3>2. CASE executor' = [executor EXCEPT ![e].pc = "finish", ![e].err = "aborted"]
      <4> DEFINE t == [executor[e] EXCEPT !.pc = "finish", !.err = "aborted"]
      <4>1. t \in Threads /\ t.pc = "finish" /\ t.item = executor[e].item
        BY <1>4 DEF Threads, Pcs
      <4>2. executor' = [executor EXCEPT ![e] = t]
        BY <3>2
      <4> QED
        BY <1>2, <1>4, <4>1, <4>2, StepTyped DEF Calling
    <3>3. CASE \/ StepTo(e, "finish") \/ StepTo(e, "restart") \/ StepTo(e, "agent")
               \/ Leave(e, "failed")
      BY <1>2, <1>3, <3>3, GoTyped, LeaveTyped DEF Calling, Pcs
    <3> QED
      BY <2>1, <3>1, <3>2, <3>3 DEF EnterWork, StepTo
  <2>2. CASE RestartWork(e)
    <3>1. StepTo(e, "agent") \/ \E g : Leave(e, Refused(g))
      BY <2>2 DEF RestartWork
    <3> QED
      BY <1>2, <1>3, <3>1, GoTyped, LeaveTyped DEF Calling, Pcs
  <2>3. CASE NextCall(e)
    <3>1. CASE \E err \in {"none", "aborted", "failed"} : Leave(e, err)
      BY <1>2, <1>3, <3>1, LeaveTyped
    <3>2. CASE ~\E err \in {"none", "aborted", "failed"} : Leave(e, err)
      <4> DEFINE c == CHOOSE d \in Unpaired : \A b \in Unpaired : d <= b
                 t == TakenUp(executor[e], c, work.input)
      <4>1. executor' = [executor EXCEPT ![e] = t] /\ Unpaired # {}
        BY <1>3, <2>3, <3>2 DEF NextCall, TakenUp
      <4>2. c \in 1 .. Calls
        <5>1. Unpaired \subseteq 1 .. Calls
          BY DEF Unpaired
        <5>2. Unpaired \subseteq Nat
          BY <5>1, ActionsAssumption
        <5>3. \E d \in Unpaired : \A b \in Unpaired : d <= b
          BY <4>1, <5>2, Least
        <5> QED
          BY <5>1, <5>3
      <4> HIDE DEF c
      <4>3. t \in Threads /\ t.pc = "prepare" /\ t.item = executor[e].item /\ t.call = c
        <5>1. work.input \in Nat
          BY CountersTyped
        <5> QED
          BY <1>4, <4>2, <5>1, TakeUpTyped
      <4> HIDE DEF t
      <4> QED
        BY <1>2, <1>4, <4>1, <4>2, <4>3, StepTyped
    <3> QED
      BY <3>1, <3>2
  <2>4. CASE LeaveWork(e) \/ ConfirmStopped(e) \/ FailWork(e)
    <3>1. PICK pc \in {"finish", "confirm", "fail"}, err \in {"none", "aborted", "failed"} :
            executor' = [executor EXCEPT ![e].pc = pc, ![e].err = err]
      <4>1. executor[e].err \in {"none", "aborted", "failed"}
        BY <1>4 DEF Threads
      <4>2. CASE LeaveWork(e)
        BY <4>1, <4>2 DEF LeaveWork
      <4>3. CASE ConfirmStopped(e)
        BY <4>3 DEF ConfirmStopped
      <4>4. CASE FailWork(e)
        BY <4>4 DEF FailWork
      <4> QED
        BY <2>4, <4>2, <4>3, <4>4
    <3> DEFINE t == [executor[e] EXCEPT !.pc = pc, !.err = err]
    <3>2. t \in Threads /\ t.pc = pc /\ t.item = executor[e].item
      BY <1>4 DEF Threads, Pcs
    <3>3. executor' = [executor EXCEPT ![e] = t]
      BY <3>1
    <3> QED
      BY <1>2, <1>4, <3>2, <3>3, StepTyped DEF Calling
  <2> QED
    BY <2>1, <2>2, <2>3, <2>4
<1> QED
  BY <1>1, <1>2, <1>5 DEF RowsTyped, RestTyped

(* Claiming an item, and releasing it. *)
LEMMA ItemStepsTyped ==
  ASSUME TypeInv, NEW e \in Executors, ClaimItem(e) \/ ReleaseItem(e)
  PROVE  TypeInv'
<1> USE DEF TypeInv
<1>1. UNCHANGED <<risks, action, paired, owner, grant, effects>>
  BY DEF ClaimItem, ReleaseItem
<1>2. CASE ClaimItem(e)
  <2>1. PICK i \in DOMAIN items :
          LET fresh == work.status \in {"running", "stopping"}
              g == IF fresh THEN work.generation + 1 ELSE items[i].generation
          IN /\ work' = IF ~fresh THEN work
                        ELSE [work EXCEPT !.generation = g,
                                 !.holding = IF @ # "lost" /\ work.status = "running"
                                             THEN "accepted" ELSE @]
             /\ items' = [items EXCEPT ![i].holder = e, ![i].live = TRUE,
                                       ![i].generation = g]
             /\ executor' = [executor EXCEPT ![e] =
                   [AtRest EXCEPT !.pc = "enter", !.item = i, !.generation = g]]
    BY <1>2 DEF ClaimItem
  <2> DEFINE g == IF work.status \in {"running", "stopping"} THEN work.generation + 1
                  ELSE items[i].generation
  <2>2. g \in Nat /\ items[i] \in ActionItems /\ i \in Nat
    <3>1. items[i] \in ActionItems /\ i \in Nat
      BY DEF RowsTyped
    <3> QED
      BY <3>1, CountersTyped DEF ActionItems
  <2> HIDE DEF g
  <2>3. work' \in Works
    <3>1. \/ work' = work
          \/ work' = [work EXCEPT !.generation = g, !.holding = "accepted"]
          \/ work' = [work EXCEPT !.generation = g, !.holding = work.holding]
      BY <2>1 DEF g
    <3> QED
      BY <2>2, <3>1 DEF RowsTyped, Works
  <2>4. items' \in Seq(ActionItems) /\ DOMAIN items' = DOMAIN items
    <3> DEFINE row == [items[i] EXCEPT !.holder = e, !.live = TRUE, !.generation = g]
    <3>1. row \in ActionItems
      BY <2>2 DEF ActionItems
    <3>2. items' = [items EXCEPT ![i] = row]
      BY <2>1 DEF g
    <3> QED
      BY <3>1, <3>2 DEF RowsTyped
  <2>5. ThreadsTyped'
    <3> DEFINE t(r) == [r EXCEPT !.pc = "enter", !.item = i, !.generation = g]
    <3>1. ASSUME NEW r \in Threads
          PROVE  t(r) \in Threads /\ t(r).pc = "enter" /\ t(r).item = i
      BY <2>2 DEF Threads, Pcs
    <3>2. executor' = [executor EXCEPT ![e] = t(AtRest)]
      BY <2>1 DEF g
    <3> HIDE DEF t
    <3> QED
      BY <2>4, <3>1, <3>2, AtRestTyped, StepTyped DEF Calling
  <2> QED
    BY <1>1, <2>3, <2>4, <2>5 DEF RowsTyped, RestTyped
<1>3. CASE ReleaseItem(e)
  <2>1. executor[e].item \in DOMAIN items
    BY <1>3 DEF ReleaseItem, ThreadsTyped
  <2>2. items' \in Seq(ActionItems) /\ DOMAIN items' = DOMAIN items
    <3> DEFINE i == executor[e].item
               t(r, d) == [r EXCEPT !.generation = items[i].generation, !.done = d]
    <3>1. \/ items' = items
          \/ items' = [items EXCEPT ![i] = t(NewWake, executor[e].err = "none")]
      BY <1>3 DEF ReleaseItem
    <3>2. ASSUME NEW r \in ActionItems, NEW d \in BOOLEAN
          PROVE  t(r, d) \in ActionItems
      <4>1. items[i] \in ActionItems
        BY <2>1 DEF RowsTyped
      <4>2. items[i].generation \in Nat
        BY <4>1 DEF ActionItems
      <4> QED
        BY <4>2 DEF ActionItems
    <3>3. NewWake \in ActionItems
      BY DEF NewWake, ActionItems
    <3> HIDE DEF t
    <3>4. t(NewWake, executor[e].err = "none") \in ActionItems
      BY <3>2, <3>3
    <3> QED
      BY <2>1, <3>1, <3>4 DEF RowsTyped
  <2>3. ThreadsTyped'
    BY <1>3, <2>2, AtRestTyped, StepTyped DEF ReleaseItem, Calling
  <2> QED
    BY <1>1, <1>3, <2>2, <2>3 DEF ReleaseItem, RowsTyped, RestTyped
<1> QED
  BY <1>2, <1>3

(* The steps of one tool call. *)
LEMMA CallStepsTyped ==
  ASSUME TypeInv, NEW e \in Executors,
         \/ PrepareAction(e) \/ ClaimAction(e) \/ CheckBeforeCall(e) \/ CallTool(e)
         \/ RecordOutcome(e) \/ PairResult(e)
  PROVE  TypeInv'
<1> USE DEF TypeInv
<1> DEFINE c == executor[e].call
<1>1. /\ UNCHANGED <<items, risks, owner, grant>>
      /\ DOMAIN items \subseteq DOMAIN items'
  BY DEF PrepareAction, ClaimAction, CheckBeforeCall, CallTool, RecordOutcome, PairResult
<1>2. executor[e].pc \in Calling
  BY DEF PrepareAction, ClaimAction, CheckBeforeCall, CallTool, RecordOutcome, PairResult,
         Calling
<1>3. c \in 1 .. Calls /\ executor[e].pc # "idle" /\ executor[e].failed \in BOOLEAN
      /\ \A g : Refused(g) \in {"none", "aborted", "failed"}
  BY <1>2 DEF ThreadsTyped, Threads, Calling, Refused
<1>4. action[c] \in Rows /\ work \in Works
  BY <1>3 DEF RowsTyped
<1>5. work' \in Works
  <2>1. \/ work' = work \/ work' = ParkUnknown(work) \/ work' = ParkPending(work)
    BY DEF PrepareAction, ClaimAction, CheckBeforeCall, CallTool, RecordOutcome, PairResult,
           WorkOnRebind
  <2> QED
    BY <1>4, <2>1, ParkTyped
<1>6. action' \in [1 .. Calls -> Rows]
  <2>1. Rebound(c) \in Rows /\ NewAction(c) \in Rows
    BY <1>3, ReboundTyped, NewActionTyped
  <2>2. \A r \in Rows, status \in ActionStatuses : [r EXCEPT !.status = status] \in Rows
    BY DEF Rows
  <2>3. \E r \in Rows : action' = action \/ action' = [action EXCEPT ![c] = r]
    <3>1. CASE PrepareAction(e)
      BY <2>1, <3>1 DEF PrepareAction
    <3>2. CASE ClaimAction(e)
      BY <1>4, <2>1, <2>2, <3>2 DEF ClaimAction, ActionStatuses
    <3>3. CASE RecordOutcome(e)
      <4>1. CASE UNCHANGED action
        BY <1>4, <4>1
      <4>2. CASE ~UNCHANGED action
        <5>1. PICK status \in ActionStatuses :
                action' = [action EXCEPT ![c].status = status]
          BY <3>3, <4>2 DEF RecordOutcome, ActionStatuses
        <5>2. action' = [action EXCEPT ![c] = [action[c] EXCEPT !.status = status]]
          BY <5>1
        <5> QED
          BY <1>4, <2>2, <5>2
      <4> QED
        BY <4>1, <4>2
    <3>4. CASE CheckBeforeCall(e) \/ CallTool(e) \/ PairResult(e)
      BY <1>4, <3>4 DEF CheckBeforeCall, CallTool, PairResult
    <3> QED
      BY <3>1, <3>2, <3>3, <3>4
  <2> QED
    BY <2>3 DEF RowsTyped
<1>7. ThreadsTyped'
  <2>1. \/ \E err \in {"none", "aborted", "failed"} : Leave(e, err)
        \/ \E pc \in Calling \cup {"agent"}, failed \in BOOLEAN :
             \/ StepTo(e, pc)
             \/ executor' = [executor EXCEPT ![e].pc = pc, ![e].failed = failed]
    <3>1. CASE PrepareAction(e)
      BY <3>1 DEF PrepareAction, Calling
    <3>2. CASE ClaimAction(e)
      BY <3>2 DEF ClaimAction, PairAs, Calling
    <3>3. CASE CheckBeforeCall(e)
      <4>1. Permitted(e) \in BOOLEAN
        BY DEF Permitted
      <4>2. executor' = [executor EXCEPT ![e].pc = IF Permitted(e) THEN "call" ELSE "receipt",
                                         ![e].failed = ~Permitted(e)]
        BY <3>3 DEF CheckBeforeCall
      <4>3. CASE Permitted(e)
        BY <4>2, <4>3 DEF Calling
      <4>4. CASE ~Permitted(e)
        BY <4>2, <4>4 DEF Calling
      <4> QED
        BY <4>3, <4>4
    <3>4. CASE CallTool(e)
      BY <3>4 DEF CallTool, Calling
    <3>5. CASE RecordOutcome(e)
      BY <3>5 DEF RecordOutcome, Calling
    <3>6. CASE PairResult(e)
      BY <1>3, <3>6 DEF PairResult, Calling
    <3> QED
      BY <3>1, <3>2, <3>3, <3>4, <3>5, <3>6
  <2>2. Calling \cup {"agent"} \subseteq Pcs
    BY DEF Calling, Pcs
  <2> QED
    BY <1>1, <1>2, <1>3, <2>1, <2>2, GoTyped, LeaveTyped
<1>8. RestTyped'
  <2>1. paired' \in [1 .. Calls -> {"none", "ok", "failed"}]
    BY <1>3 DEF PrepareAction, ClaimAction, CheckBeforeCall, CallTool, RecordOutcome,
                PairResult, RestTyped
  <2>2. effects' \in [1 .. Calls -> Nat]
    <3>1. effects' = effects \/ effects' = [effects EXCEPT ![c] = effects[c] + 1]
      BY DEF PrepareAction, ClaimAction, CheckBeforeCall, CallTool, RecordOutcome, PairResult
    <3>2. effects[c] + 1 \in Nat
      BY <1>3 DEF RestTyped
    <3> QED
      BY <1>3, <3>1, <3>2 DEF RestTyped
  <2> QED
    BY <1>1, <2>1, <2>2 DEF RestTyped
<1> QED
  BY <1>1, <1>5, <1>6, <1>7, <1>8 DEF RowsTyped

(* The commands of the users. *)
LEMMA CommandsTyped ==
  ASSUME TypeInv, UserCommand
  PROVE  TypeInv'
<1> USE DEF TypeInv
<1>1. UNCHANGED <<risks, paired, executor, owner, effects>>
  BY DEF UserCommand, DecideAction, GrantPermission, RevokePermission, StopWork, AddInput,
         ResumeWork, TakeOverWork
<1>2. grant' \in {"none", "live", "revoked"}
  BY DEF UserCommand, DecideAction, GrantPermission, RevokePermission, StopWork, AddInput,
         ResumeWork, TakeOverWork, RestTyped
<1>3. work' \in Works
  <2> USE DEF RowsTyped
  <2>1. CASE \E c \in 1 .. Calls, op \in DOMAIN Decisions : DecideAction(c, op)
    BY ZenonT(60), <2>1 DEF DecideAction, Works
  <2>2. CASE StopWork
    BY <2>2 DEF StopWork, Works
  <2>3. CASE AddInput
    BY <2>3, CountersTyped DEF AddInput, Works
  <2>4. CASE ResumeWork
    BY <2>4, CountersTyped DEF ResumeWork, Works
  <2>5. CASE TakeOverWork
    BY <2>5, CountersTyped DEF TakeOverWork, Works
  <2> QED
    BY <2>1, <2>2, <2>3, <2>4, <2>5 DEF UserCommand, GrantPermission, RevokePermission
<1>4. items' \in Seq(ActionItems) /\ DOMAIN items \subseteq DOMAIN items'
  <2>1. items' = items \/ items' = WakeExecutor
    BY DEF UserCommand, DecideAction, GrantPermission, RevokePermission, StopWork, AddInput,
           ResumeWork, TakeOverWork
  <2> QED
    BY <2>1, WakeTyped DEF RowsTyped
<1>5. action' \in [1 .. Calls -> Rows]
  <2>1. CASE UNCHANGED action
    BY <2>1 DEF RowsTyped
  <2>2. CASE ~UNCHANGED action
    <3>1. PICK c \in 1 .. Calls, op \in DOMAIN Decisions : DecideAction(c, op)
      BY <2>2 DEF UserCommand, GrantPermission, RevokePermission, StopWork, AddInput,
                  ResumeWork, TakeOverWork
    <3>2. Decisions[op] \in ActionStatuses
      BY DEF Decisions, ActionStatuses
    <3> DEFINE row == [action[c] EXCEPT !.status = Decisions[op], !.approver = owner,
                                        !.refused = op # "approve"]
    <3>3. row \in Rows
      <4>1. action[c] \in Rows /\ owner \in Nat
        BY DEF RowsTyped, RestTyped
      <4> QED
        BY <3>2, <4>1 DEF Rows
    <3>4. action' = [action EXCEPT ![c] = row]
      BY <3>1 DEF DecideAction
    <3> QED
      BY <3>3, <3>4 DEF RowsTyped
  <2> QED
    BY <2>1, <2>2
<1> QED
  BY <1>1, <1>2, <1>3, <1>4, <1>5 DEF RowsTyped, ThreadsTyped, RestTyped

(* Monitors, crashes, lost receipts, deadlines, owners and members. *)
EnvironmentStep ==
    \/ ReconcileActions
    \/ \E e \in Executors : ExecutorCrashes(e) \/ ReceiptFails(e)
    \/ OwnerChanges \/ ControllerLeaves \/ TimePasses
    \/ \E i \in DOMAIN items : ItemExpires(i) \/ HolderStalls(i)
(* They keep every type. *)
LEMMA EnvironmentTyped ==
  ASSUME TypeInv, EnvironmentStep
  PROVE  TypeInv'
<1> USE DEF TypeInv
<1>1. CASE ReconcileActions
  <2>1. work' \in Works /\ action' \in [1 .. Calls -> Rows]
    <3>1. CASE RecoverActions
      BY <3>1, RecoveryTyped DEF RecoverActions
    <3>2. CASE MarkLost
      BY <3>2 DEF MarkLost, RowsTyped, Works
    <3>3. CASE SuspendForTakeover
      BY <3>3, CountersTyped DEF SuspendForTakeover, RowsTyped, Works
    <3> QED
      BY <1>1, <3>1, <3>2, <3>3 DEF ReconcileActions
  <2>2. UNCHANGED <<items, risks, paired, executor, owner, grant, effects>>
    BY <1>1 DEF ReconcileActions, RecoverActions, MarkLost, SuspendForTakeover
  <2> QED
    BY <2>1, <2>2 DEF RowsTyped, ThreadsTyped, RestTyped
<1>2. CASE \E e \in Executors : ExecutorCrashes(e) \/ ReceiptFails(e)
  <2>1. PICK e \in Executors : ExecutorCrashes(e) \/ ReceiptFails(e)
    BY <1>2
  <2>2. UNCHANGED <<work, items, risks, action, paired, owner, grant, effects>>
    BY <2>1 DEF ExecutorCrashes, ReceiptFails
  <2>3. DOMAIN items \subseteq DOMAIN items'
    BY <2>2
  <2>4. ThreadsTyped'
    <3>1. CASE ExecutorCrashes(e)
      BY <2>3, <3>1, AtRestTyped, StepTyped DEF ExecutorCrashes, Calling
    <3>2. CASE ReceiptFails(e)
      BY <2>3, <3>2, LeaveTyped DEF ReceiptFails
    <3> QED
      BY <2>1, <3>1, <3>2
  <2> QED
    BY <2>2, <2>4 DEF RowsTyped, RestTyped
<1>3. CASE OwnerChanges \/ ControllerLeaves \/ TimePasses
  <2>1. UNCHANGED <<items, risks, paired, executor, effects>>
    BY <1>3 DEF OwnerChanges, ControllerLeaves, TimePasses
  <2>2. work' \in Works /\ owner' \in Nat /\ grant' \in {"none", "live", "revoked"}
    <3>1. CASE OwnerChanges
      BY <3>1 DEF OwnerChanges, RowsTyped, RestTyped
    <3>2. CASE ControllerLeaves
      BY <3>2 DEF ControllerLeaves, RowsTyped, RestTyped, Works
    <3>3. CASE TimePasses
      BY <3>3 DEF TimePasses, RowsTyped, RestTyped
    <3> QED
      BY <1>3, <3>1, <3>2, <3>3
  <2>3. action' \in [1 .. Calls -> Rows]
    <3>1. CASE UNCHANGED action
      BY <3>1 DEF RowsTyped
    <3>2. CASE ~UNCHANGED action
      <4>1. PICK c \in 1 .. Calls : action' = [action EXCEPT ![c].late = TRUE]
        BY <1>3, <3>2 DEF OwnerChanges, ControllerLeaves, TimePasses
      <4>2. [action[c] EXCEPT !.late = TRUE] \in Rows
        BY DEF RowsTyped, Rows
      <4>3. action' = [action EXCEPT ![c] = [action[c] EXCEPT !.late = TRUE]]
        BY <4>1
      <4> QED
        BY <4>2, <4>3 DEF RowsTyped
    <3> QED
      BY <3>1, <3>2
  <2> QED
    BY <2>1, <2>2, <2>3 DEF RowsTyped, ThreadsTyped, RestTyped
<1>4. CASE \E i \in DOMAIN items : ItemExpires(i) \/ HolderStalls(i)
  <2>1. PICK i \in DOMAIN items : Expired(i)
    BY <1>4 DEF ItemExpires, HolderStalls
  <2>2. UNCHANGED <<work, risks, action, paired, executor, owner, grant, effects>>
    BY <1>4 DEF ItemExpires, HolderStalls
  <2>3. [items[i] EXCEPT !.live = FALSE] \in ActionItems
    <3>1. items[i] \in ActionItems
      BY DEF RowsTyped
    <3> QED
      BY <3>1 DEF ActionItems
  <2>4. items' = [items EXCEPT ![i] = [items[i] EXCEPT !.live = FALSE]]
    BY <2>1 DEF Expired
  <2>5. items' \in Seq(ActionItems) /\ DOMAIN items' = DOMAIN items
    BY <2>3, <2>4 DEF RowsTyped
  <2> QED
    BY <2>2, <2>5 DEF RowsTyped, ThreadsTyped, RestTyped
<1> QED
  BY <1>1, <1>2, <1>3, <1>4 DEF EnvironmentStep

(* The typing invariant is inductive. *)
LEMMA TypeNext == TypeInv /\ [ActionsNext]_actionVars => TypeInv'
<1> SUFFICES ASSUME TypeInv, [ActionsNext]_actionVars PROVE TypeInv'
  OBVIOUS
<1>1. CASE \E e \in Executors : ExecutorStep(e)
  BY <1>1, FrameStepsTyped, ItemStepsTyped, CallStepsTyped DEF ExecutorStep
<1>2. CASE UserCommand
  BY <1>2, CommandsTyped
<1>3. CASE EnvironmentStep
  BY <1>3, EnvironmentTyped
<1>4. CASE UNCHANGED actionVars
  BY <1>4 DEF actionVars, TypeInv, RowsTyped, ThreadsTyped, RestTyped
<1> QED
  BY <1>1, <1>2, <1>3, <1>4 DEF ActionsNext, EnvironmentStep

(* Rows, items and goroutines keep their types, however many calls a model  *)
(* answers and however often its executors are lost (repo.RunRepo,          *)
(* model.RunAction).                                                        *)
THEOREM ActionsTyped == ActionsSpec => []ActionsTypeOK
<1>1. ActionsSpec => []TypeInv
  BY TypeInit, TypeNext, PTL DEF ActionsSpec
<1> QED
  BY <1>1, TypeInvTyped, PTL

-----------------------------------------------------------------------------
(* A write takes effect at most once                                        *)
(*                                                                          *)
(* The row of a write is claimed by the step that makes it "executing", and *)
(* a row of a write never becomes claimable again.  So at most one goroutine*)
(* is ever between its claim and the end of its call.                       *)

Preclaim == {"absent", "pending", "approved", "denied", "revoked", "expired"}
AtCall(e, c) == executor[e].pc \in {"check", "call"} /\ executor[e].call = c

(* A write that was not claimed had no effect, one whose call is still ahead*)
(* neither, and a refused one is never claimed.                             *)
WriteInv == \A c \in 1 .. Calls : risks[c] = "write" =>
    /\ action[c].status \in Preclaim
           => effects[c] = 0 /\ \A e \in Executors : ~AtCall(e, c)
    /\ \A e \in Executors : AtCall(e, c) => effects[c] = 0
    /\ \A e, f \in Executors : AtCall(e, c) /\ AtCall(f, c) => e = f
    /\ effects[c] <= 1
    /\ action[c].refused => action[c].status \in {"denied", "revoked"}

(* What a step leaves of the rows of writes. *)
RowKept(c) ==
    /\ action'[c].status \in Preclaim => action[c].status \in Preclaim
    /\ action'[c].refused => action'[c].status \in {"denied", "revoked"}
NobodyStarts == \A e \in Executors, c \in 1 .. Calls : AtCall(e, c)' => AtCall(e, c)

(* Steps that start no call and claim no row. *)
LEMMA QuietStep ==
  ASSUME WriteInv, UNCHANGED <<risks, effects>>, NobodyStarts,
         \A c \in 1 .. Calls : risks[c] = "write" => RowKept(c)
  PROVE  WriteInv'
  BY DEF WriteInv, RowKept, NobodyStarts

(* An unchanged row is kept. *)
LEMMA SameRow ==
  ASSUME WriteInv, NEW c \in 1 .. Calls, risks[c] = "write", action'[c] = action[c]
  PROVE  RowKept(c)
  BY DEF WriteInv, RowKept

(* A goroutine that goes anywhere but to its call starts none. *)
LEMMA Elsewhere ==
  ASSUME ThreadsTyped, NEW e \in Executors, NEW t, t.pc \notin {"check", "call"},
         executor' = [executor EXCEPT ![e] = t]
  PROVE  NobodyStarts
  BY DEF ThreadsTyped, NobodyStarts, AtCall

(* Leaving, or going on to another point, starts no call. *)
LEMMA LeaveElsewhere ==
  ASSUME ThreadsTyped, NEW e \in Executors, NEW err, Leave(e, err)
  PROVE  NobodyStarts
<1> DEFINE t(r) == [r EXCEPT !.pc = "post", !.err = err, !.item = executor[e].item,
                             !.generation = executor[e].generation]
<1>1. executor' = [executor EXCEPT ![e] = t(AtRest)]
  BY DEF Leave
<1>2. ASSUME NEW r \in Threads PROVE t(r).pc = "post"
  BY DEF Threads
<1> HIDE DEF t
<1>3. t(AtRest).pc = "post"
  BY <1>2, AtRestTyped
<1> QED
  BY <1>1, <1>3, Elsewhere

(* Changing the point, and an outcome with it, starts no call either. *)
LEMMA GoElsewhere ==
  ASSUME ThreadsTyped, NEW e \in Executors, NEW pc, pc \notin {"check", "call"}, NEW x,
         \/ StepTo(e, pc)
         \/ executor' = [executor EXCEPT ![e].pc = pc, ![e].failed = x]
         \/ executor' = [executor EXCEPT ![e].pc = pc, ![e].err = x]
         \/ executor' = [executor EXCEPT ![e].pc = pc, ![e].generation = 0]
  PROVE  NobodyStarts
<1>1. PICK t : executor' = [executor EXCEPT ![e] = t] /\ t.pc = pc
  <2>1. executor[e] \in Threads
    BY DEF ThreadsTyped
  <2> DEFINE t1 == [executor[e] EXCEPT !.pc = pc]
             t2 == [executor[e] EXCEPT !.pc = pc, !.failed = x]
             t3 == [executor[e] EXCEPT !.pc = pc, !.err = x]
             t4 == [executor[e] EXCEPT !.pc = pc, !.generation = 0]
  <2>2. t1.pc = pc /\ t2.pc = pc /\ t3.pc = pc /\ t4.pc = pc
    BY <2>1 DEF Threads
  <2>3. \/ executor' = [executor EXCEPT ![e] = t1] \/ executor' = [executor EXCEPT ![e] = t2]
        \/ executor' = [executor EXCEPT ![e] = t3] \/ executor' = [executor EXCEPT ![e] = t4]
    BY DEF StepTo
  <2> HIDE DEF t1, t2, t3, t4
  <2> QED
    BY <2>2, <2>3
<1> QED
  BY <1>1, Elsewhere

(* The frame of an execution touches neither calls nor rows of actions. *)
LEMMA FrameKeepsWrites ==
  ASSUME TypeInv, WriteInv, NEW e \in Executors,
         \/ ClaimItem(e) \/ EnterWork(e) \/ RestartWork(e) \/ NextCall(e) \/ LeaveWork(e)
         \/ ConfirmStopped(e) \/ FailWork(e) \/ ReleaseItem(e)
  PROVE  WriteInv'
<1>1. UNCHANGED <<risks, effects, action>>
  BY DEF ClaimItem, EnterWork, RestartWork, NextCall, LeaveWork, ConfirmStopped, FailWork,
         ReleaseItem
<1>2. NobodyStarts
  <2> USE DEF TypeInv
  <2>1. executor[e] \in Threads
    BY DEF ThreadsTyped
  <2>2. CASE ClaimItem(e)
    <3> DEFINE t(r, i, g) == [r EXCEPT !.pc = "enter", !.item = i, !.generation = g]
    <3>1. \E i, g : executor' = [executor EXCEPT ![e] = t(AtRest, i, g)]
      <4>1. PICK i \in DOMAIN items :
               LET fresh == work.status \in {"running", "stopping"}
                   g == IF fresh THEN work.generation + 1 ELSE items[i].generation
               IN executor' = [executor EXCEPT ![e] =
                       [AtRest EXCEPT !.pc = "enter", !.item = i, !.generation = g]]
        BY <2>2, Zenon DEF ClaimItem
      <4> DEFINE fresh == work.status \in {"running", "stopping"}
                 g == IF fresh THEN work.generation + 1 ELSE items[i].generation
      <4>2. executor' = [executor EXCEPT ![e] =
                       [AtRest EXCEPT !.pc = "enter", !.item = i, !.generation = g]]
        BY <4>1
      <4> HIDE DEF g
      <4> QED
        BY <4>2, Zenon
    <3>2. ASSUME NEW r \in Threads, NEW i, NEW g PROVE t(r, i, g).pc = "enter"
      BY DEF Threads
    <3> HIDE DEF t
    <3> QED
      BY <3>1, <3>2, AtRestTyped, Elsewhere
  <2>3. CASE NextCall(e)
    <3>1. CASE \E err : Leave(e, err)
      BY <3>1, LeaveElsewhere
    <3>2. CASE ~\E err : Leave(e, err)
      <4> DEFINE c == CHOOSE d \in Unpaired : \A b \in Unpaired : d <= b
                 t == TakenUp(executor[e], c, work.input)
      <4>1. executor' = [executor EXCEPT ![e] = t]
        BY <2>3, <3>2 DEF NextCall, TakenUp
      <4> HIDE DEF c
      <4>2. t.pc = "prepare"
        BY <2>1 DEF TakenUp, Threads
      <4> HIDE DEF t
      <4> QED
        BY <4>1, <4>2, Elsewhere
    <3> QED
      BY <3>1, <3>2
  <2>4. CASE ReleaseItem(e)
    BY <2>4, AtRestTyped, Elsewhere DEF ReleaseItem
  <2>5. CASE EnterWork(e)
    <3>1. \/ \E err : Leave(e, err)
          \/ \E pc, x : /\ pc \notin {"check", "call"}
                        /\ \/ StepTo(e, pc)
                           \/ executor' = [executor EXCEPT ![e].pc = pc, ![e].err = x]
                           \/ executor' = [executor EXCEPT ![e].pc = pc, ![e].generation = 0]
      BY <2>5 DEF EnterWork, StepTo
    <3> QED
      BY <3>1, LeaveElsewhere, GoElsewhere
  <2>6. CASE RestartWork(e)
    <3>1. (\E err : Leave(e, err)) \/ StepTo(e, "agent")
      BY <2>6 DEF RestartWork
    <3> QED
      BY <3>1, LeaveElsewhere, GoElsewhere
  <2>7. CASE LeaveWork(e) \/ ConfirmStopped(e) \/ FailWork(e)
    <3>1. \E pc, x : /\ pc \notin {"check", "call"}
                     /\ executor' = [executor EXCEPT ![e].pc = pc, ![e].err = x]
      <4>1. CASE LeaveWork(e)
        BY <4>1 DEF LeaveWork
      <4>2. CASE ConfirmStopped(e)
        BY <4>2 DEF ConfirmStopped
      <4>3. CASE FailWork(e)
        <5> DEFINE x == IF HoldsLease(executor[e].generation) THEN "none" ELSE "aborted"
        <5>1. executor' = [executor EXCEPT ![e].pc = "finish", ![e].err = x]
          BY <4>3 DEF FailWork
        <5> HIDE DEF x
        <5> QED
          BY <5>1
      <4> QED
        BY <2>7, <4>1, <4>2, <4>3
    <3> QED
      BY <3>1, GoElsewhere
  <2> QED
    BY <2>2, <2>3, <2>4, <2>5, <2>6, <2>7
<1> QED
  BY <1>1, <1>2, QuietStep, SameRow

(* A rebound row that is claimable was so before, and keeps a refusal.      *)
LEMMA ReboundKept ==
  ASSUME TypeInv, WriteInv, NEW c \in 1 .. Calls, risks[c] = "write"
  PROVE  /\ Rebound(c).status \in Preclaim => action[c].status \in Preclaim
         /\ Rebound(c).refused => Rebound(c).status \in {"denied", "revoked"}
<1>1. action[c] \in Rows
  BY DEF TypeInv, RowsTyped
<1>2. Rebound(c).refused = action[c].refused
      /\ (Rebound(c).status = action[c].status
          \/ action[c].status \in {"pending", "approved"})
  BY <1>1 DEF Rebound, Rows
<1> QED
  BY <1>2 DEF WriteInv, Preclaim

(* Preparing a call creates its row, or rebinds the one it had. *)
LEMMA PrepareKeepsWrites ==
  ASSUME TypeInv, WriteInv, NEW e \in Executors, PrepareAction(e)
  PROVE  WriteInv'
<1> DEFINE c == executor[e].call
<1>0. c \in 1 .. Calls /\ ThreadsTyped /\ action \in [1 .. Calls -> Rows]
  BY DEF TypeInv, ThreadsTyped, RowsTyped, PrepareAction, Calling
<1>1. UNCHANGED <<risks, effects>>
  BY DEF PrepareAction
<1>2. NobodyStarts
  <2>1. (\E err : Leave(e, err)) \/ StepTo(e, "claim")
    BY DEF PrepareAction
  <2> QED
    BY <1>0, <2>1, LeaveElsewhere, GoElsewhere
<1>3. ASSUME NEW d \in 1 .. Calls, risks[d] = "write" PROVE RowKept(d)
  <2>1. CASE action'[d] = action[d]
    BY <1>3, <2>1, SameRow
  <2>2. CASE action'[d] # action[d]
    <3>1. /\ d = c
          /\ \/ action[d].status # "absent" /\ action'[d] = Rebound(d)
             \/ action[d].status = "absent" /\ action'[d] = NewAction(d)
      BY <1>0, <2>2 DEF PrepareAction
    <3>2. NewAction(d).refused = FALSE
      BY DEF NewAction, Absent
    <3> QED
      BY <1>3, <3>1, <3>2, ReboundKept DEF RowKept, Preclaim
  <2> QED
    BY <2>1, <2>2
<1> QED
  BY <1>1, <1>2, <1>3, QuietStep

(* The claim: the row was claimable, so nobody was at its call and it had   *)
(* no effect; now it is executing and its claimant is on the way.           *)
LEMMA ClaimKeepsWrites ==
  ASSUME TypeInv, WriteInv, NEW e \in Executors, ClaimAction(e)
  PROVE  WriteInv'
<1> DEFINE c == executor[e].call
<1>0. /\ c \in 1 .. Calls /\ ThreadsTyped /\ action \in [1 .. Calls -> Rows]
      /\ executor[e] \in Threads /\ executor[e].pc = "claim"
  BY DEF TypeInv, ThreadsTyped, RowsTyped, ClaimAction, Calling
<1>1. UNCHANGED <<risks, effects>>
  BY DEF ClaimAction
<1>2. ASSUME NEW r \in Rows, NEW st PROVE [r EXCEPT !.status = st].refused = r.refused
                                      /\ [r EXCEPT !.status = st].status = st
  BY DEF Rows
<1>3. Rebound(c) \in Rows
  BY <1>0, ReboundTyped DEF TypeInv
<1>4. CASE ~StepTo(e, "check")
  <2>1. (\E err : Leave(e, err)) \/ \E x : PairAs(e, x)
    BY <1>4 DEF ClaimAction
  <2>2. NobodyStarts
    BY <1>0, <2>1, LeaveElsewhere, GoElsewhere DEF PairAs
  <2>3. ASSUME NEW d \in 1 .. Calls, risks[d] = "write" PROVE RowKept(d)
    <3>1. \/ action'[d] = action[d]
          \/ d = c /\ action'[d] = Rebound(c)
      BY <1>0, <1>4 DEF ClaimAction
    <3> QED
      BY <2>3, <3>1, SameRow, ReboundKept DEF RowKept
  <2> QED
    BY <1>1, <2>2, <2>3, QuietStep
<1>5. CASE StepTo(e, "check")
  <2>1. executor' = [executor EXCEPT ![e] = [executor[e] EXCEPT !.pc = "check"]]
    BY <1>5 DEF StepTo
  <2>2. \A err, x : ~Leave(e, err) /\ ~PairAs(e, x)
    <3>1. executor'[e].pc = "check"
      BY <1>0, <2>1 DEF ThreadsTyped, Threads
    <3>2. ASSUME NEW err, Leave(e, err) PROVE FALSE
      <4> DEFINE t(r) == [r EXCEPT !.pc = "post", !.err = err, !.item = executor[e].item,
                                   !.generation = executor[e].generation]
      <4>1. executor'[e] = t(AtRest)
        BY <1>0, <3>2 DEF Leave, ThreadsTyped
      <4>2. ASSUME NEW r \in Threads PROVE t(r).pc = "post"
        BY DEF Threads
      <4> HIDE DEF t
      <4> QED
        BY <3>1, <4>1, <4>2, AtRestTyped
    <3>3. ASSUME NEW x, PairAs(e, x) PROVE FALSE
      <4> DEFINE t == [executor[e] EXCEPT !.pc = "pair", !.failed = x]
      <4>1. executor'[e] = t
        BY <1>0, <3>3 DEF PairAs, ThreadsTyped
      <4>2. t.pc = "pair"
        BY <1>0 DEF Threads
      <4> QED
        BY <3>1, <4>1, <4>2
    <3> QED
      BY <3>2, <3>3
  <2>3. /\ action' = [action EXCEPT ![c] = [Rebound(c) EXCEPT !.status = "executing"]]
        /\ action[c].status \notin {"executing", "unknown"}
        /\ Rebound(c).status \notin {"pending", "expired"} /\ ~Answered(Rebound(c))
    BY <2>2 DEF ClaimAction
  <2>4. action'[c].status = "executing" /\ action'[c].refused = Rebound(c).refused
    BY <1>0, <1>2, <1>3, <2>3
  <2>5. \A d \in 1 .. Calls : d # c => action'[d] = action[d]
    BY <1>0, <2>3
  <2>6. Rebound(c).status \in {"absent", "approved"}
    BY <1>3, <2>3 DEF Rows, ActionStatuses, Answered, Rebound
  <2>7. \A f \in Executors, d \in 1 .. Calls :
          AtCall(f, d)' <=> IF f = e THEN d = c ELSE AtCall(f, d)
    BY <1>0, <2>1 DEF AtCall, ThreadsTyped, Threads
  <2>8. risks[c] = "write" => /\ action[c].status \in Preclaim
                              /\ ~Rebound(c).refused
    BY <1>0, <2>6, ReboundKept DEF Preclaim
  <2> QED
    BY <1>0, <1>1, <2>4, <2>5, <2>7, <2>8 DEF WriteInv, Preclaim
<1> QED
  BY <1>4, <1>5

(* The last check lets through only who holds the claim already; the call   *)
(* itself is made by the only one, and once.                                *)
LEMMA CallKeepsWrites ==
  ASSUME TypeInv, WriteInv, NEW e \in Executors, CheckBeforeCall(e) \/ CallTool(e)
  PROVE  WriteInv'
<1> DEFINE c == executor[e].call
<1>0. /\ c \in 1 .. Calls /\ ThreadsTyped /\ executor[e] \in Threads
      /\ AtCall(e, c) /\ effects \in [1 .. Calls -> Nat]
  BY DEF TypeInv, ThreadsTyped, RestTyped, CheckBeforeCall, CallTool, Calling, AtCall
<1>1. UNCHANGED <<risks, action>>
  BY DEF CheckBeforeCall, CallTool
<1>2. CASE CheckBeforeCall(e)
  <2>1. PICK pc, x : executor' = [executor EXCEPT ![e].pc = pc, ![e].failed = x]
    BY <1>2 DEF CheckBeforeCall
  <2> DEFINE t == [executor[e] EXCEPT !.pc = pc, !.failed = x]
  <2>2. t.call = c
    BY <1>0 DEF Threads
  <2>3. executor' = [executor EXCEPT ![e] = t]
    BY <2>1
  <2> HIDE DEF t
  <2>4. NobodyStarts
    BY <1>0, <2>2, <2>3 DEF NobodyStarts, AtCall, ThreadsTyped
  <2> QED
    BY <1>1, <1>2, <2>4, QuietStep, SameRow DEF CheckBeforeCall
<1>3. CASE CallTool(e)
  <2>1. PICK x : executor' = [executor EXCEPT ![e].pc = "receipt", ![e].failed = x]
    BY <1>3 DEF CallTool
  <2> DEFINE t == [executor[e] EXCEPT !.pc = "receipt", !.failed = x]
  <2>2. t.pc = "receipt"
    BY <1>0 DEF Threads
  <2>3. executor' = [executor EXCEPT ![e] = t]
    BY <2>1
  <2> HIDE DEF t
  <2>4. NobodyStarts
    BY <1>0, <2>2, <2>3, Elsewhere
  <2>5. \A f \in Executors, d \in 1 .. Calls : AtCall(f, d)' => f # e
    BY <1>0, <2>2, <2>3 DEF AtCall, ThreadsTyped
  <2>6. effects' = effects \/ effects' = [effects EXCEPT ![c] = effects[c] + 1]
    BY <1>3 DEF CallTool
  <2>7. CASE effects' = effects
    BY <1>1, <2>4, <2>7, QuietStep, SameRow
  <2>8. CASE effects' = [effects EXCEPT ![c] = effects[c] + 1]
    <3>1. /\ effects'[c] = effects[c] + 1
          /\ \A d \in 1 .. Calls : d # c => effects'[d] = effects[d]
      BY <1>0, <2>8
    <3>2. ASSUME NEW d \in 1 .. Calls, risks[d] = "write"
          PROVE  /\ action[d].status \in Preclaim
                      => effects'[d] = 0 /\ \A f \in Executors : ~AtCall(f, d)'
                 /\ \A f \in Executors : AtCall(f, d)' => effects'[d] = 0
                 /\ \A f, g \in Executors : AtCall(f, d)' /\ AtCall(g, d)' => f = g
                 /\ effects'[d] <= 1
                 /\ action[d].refused => action[d].status \in {"denied", "revoked"}
      <4>1. CASE d = c
        <5>0. /\ action[c].status \in Preclaim => \A f \in Executors : ~AtCall(f, c)
              /\ \A f \in Executors : AtCall(f, c) => effects[c] = 0
              /\ \A f, g \in Executors : AtCall(f, c) /\ AtCall(g, c) => f = g
          BY <1>0, <3>2, <4>1, Zenon DEF WriteInv
        <5>1. action[c].status \notin Preclaim /\ effects[c] = 0
          BY <1>0, <5>0, Zenon
        <5>2. \A f \in Executors : AtCall(f, c) => f = e
          BY <1>0, <5>0, Zenon
        <5>3. \A f \in Executors : ~AtCall(f, d)'
          BY <2>4, <2>5, <4>1, <5>2 DEF NobodyStarts
        <5>4. effects'[c] = 1
          BY <3>1, <5>1
        <5> QED
          BY <3>2, <4>1, <5>1, <5>3, <5>4 DEF WriteInv
      <4>2. CASE d # c
        BY <2>4, <3>1, <3>2, <4>2 DEF WriteInv, NobodyStarts
      <4> QED
        BY <4>1, <4>2
    <3> QED
      BY <1>1, <3>2 DEF WriteInv
  <2> QED
    BY <2>6, <2>7, <2>8
<1> QED
  BY <1>2, <1>3

(* The receipt closes an executing row; the pairing writes no row. *)
LEMMA ReceiptKeepsWrites ==
  ASSUME TypeInv, WriteInv, NEW e \in Executors, RecordOutcome(e) \/ PairResult(e)
  PROVE  WriteInv'
<1> DEFINE c == executor[e].call
<1>0. c \in 1 .. Calls /\ ThreadsTyped /\ action \in [1 .. Calls -> Rows]
  BY DEF TypeInv, ThreadsTyped, RowsTyped, RecordOutcome, PairResult, Calling
<1>1. UNCHANGED <<risks, effects>>
  BY DEF RecordOutcome, PairResult
<1>2. NobodyStarts
  <2>1. (\E err : Leave(e, err)) \/ StepTo(e, "pair") \/ StepTo(e, "agent")
    BY DEF RecordOutcome, PairResult
  <2> QED
    BY <1>0, <2>1, LeaveElsewhere, GoElsewhere
<1>3. ASSUME NEW d \in 1 .. Calls, risks[d] = "write" PROVE RowKept(d)
  <2>1. CASE action'[d] = action[d]
    BY <1>3, <2>1, SameRow
  <2>2. CASE action'[d] # action[d]
    <3>1. RecordOutcome(e) /\ d = c
      BY <1>0, <2>2 DEF RecordOutcome, PairResult
    <3>2. PICK st \in {"succeeded", "unknown"} : action'[d] = [action[d] EXCEPT !.status = st]
      BY <1>0, <1>3, <2>2, <3>1 DEF RecordOutcome
    <3>3. action[d].status = "executing"
      BY <2>2, <3>1 DEF RecordOutcome
    <3>4. action'[d].status = st /\ action'[d].refused = action[d].refused
      BY <1>0, <3>2 DEF Rows
    <3> QED
      BY <1>3, <3>3, <3>4 DEF RowKept, WriteInv, Preclaim
  <2> QED
    BY <2>1, <2>2
<1> QED
  BY <1>1, <1>2, <1>3, QuietStep

(* Users decide only on a row that waits for a decision. *)
LEMMA CommandsKeepWrites ==
  ASSUME TypeInv, WriteInv, UserCommand
  PROVE  WriteInv'
<1>0. action \in [1 .. Calls -> Rows]
  BY DEF TypeInv, RowsTyped
<1>1. UNCHANGED <<risks, effects, executor>>
  BY DEF UserCommand, DecideAction, GrantPermission, RevokePermission, StopWork, AddInput,
         ResumeWork, TakeOverWork
<1>2. NobodyStarts
  BY <1>1 DEF NobodyStarts, AtCall
<1>3. ASSUME NEW d \in 1 .. Calls, risks[d] = "write" PROVE RowKept(d)
  <2>1. CASE action'[d] = action[d]
    BY <1>3, <2>1, SameRow
  <2>2. CASE action'[d] # action[d]
    <3>1. PICK op \in DOMAIN Decisions : DecideAction(d, op)
      BY ZenonT(60), <1>0, <2>2 DEF UserCommand, DecideAction, GrantPermission, RevokePermission,
                        StopWork, AddInput, ResumeWork, TakeOverWork
    <3>2. action[d].status \in Preclaim
      BY <3>1 DEF DecideAction, Preclaim
    <3>3. action'[d] = [action[d] EXCEPT !.status = Decisions[op], !.approver = owner,
                                         !.refused = op # "approve"]
      BY <1>0, <3>1 DEF DecideAction
    <3>4. ASSUME NEW r \in Rows, NEW st, NEW o, NEW b
          PROVE  LET q == [r EXCEPT !.status = st, !.approver = o, !.refused = b]
                 IN q.status = st /\ q.refused = b
      BY DEF Rows
    <3>5. action'[d].status = Decisions[op] /\ action'[d].refused = (op # "approve")
      BY <1>0, <3>3, <3>4
    <3>6. op # "approve" => Decisions[op] \in {"denied", "revoked"}
      BY DEF Decisions
    <3> QED
      BY <3>2, <3>5, <3>6 DEF RowKept
  <2> QED
    BY <2>1, <2>2
<1> QED
  BY <1>1, <1>2, <1>3, QuietStep

(* Recovery never gives a write back to be claimed; the rest of the         *)
(* environment changes no decision.                                         *)
LEMMA EnvironmentKeepsWrites ==
  ASSUME TypeInv, WriteInv, EnvironmentStep
  PROVE  WriteInv'
<1>0. action \in [1 .. Calls -> Rows] /\ ThreadsTyped
  BY DEF TypeInv, RowsTyped
<1>1. UNCHANGED <<risks, effects>>
  BY DEF EnvironmentStep, ReconcileActions, RecoverActions, MarkLost, SuspendForTakeover,
         ExecutorCrashes, ReceiptFails, OwnerChanges, ControllerLeaves, TimePasses,
         ItemExpires, HolderStalls
<1>2. NobodyStarts
  <2>1. CASE executor' = executor
    BY <2>1 DEF NobodyStarts, AtCall
  <2>2. CASE executor' # executor
    <3>1. PICK e \in Executors : ExecutorCrashes(e) \/ ReceiptFails(e)
      BY <2>2 DEF EnvironmentStep, ReconcileActions, RecoverActions, MarkLost,
                  SuspendForTakeover, OwnerChanges, ControllerLeaves, TimePasses,
                  ItemExpires, HolderStalls
    <3>2. CASE ExecutorCrashes(e)
      BY <1>0, <3>2, AtRestTyped, Elsewhere DEF ExecutorCrashes
    <3>3. CASE ReceiptFails(e)
      BY <1>0, <3>3, LeaveElsewhere DEF ReceiptFails
    <3> QED
      BY <3>1, <3>2, <3>3
  <2> QED
    BY <2>1, <2>2
<1>3. ASSUME NEW d \in 1 .. Calls, risks[d] = "write" PROVE RowKept(d)
  <2>1. CASE action'[d] = action[d]
    BY <1>3, <2>1, SameRow
  <2>2. CASE action'[d] # action[d]
    <3>1. RecoverActions \/ TimePasses
      BY <2>2 DEF EnvironmentStep, ReconcileActions, MarkLost, SuspendForTakeover,
                  ExecutorCrashes, ReceiptFails, OwnerChanges, ControllerLeaves,
                  ItemExpires, HolderStalls
    <3>2. CASE RecoverActions
      <4>1. action[d].status = "executing"
            /\ action'[d] = [action[d] EXCEPT !.status = "unknown"]
        BY <1>3, <2>2, <3>2 DEF RecoverActions, ActionsAfterRecovery, Recovered, Orphan
      <4>2. action'[d].status = "unknown" /\ action'[d].refused = action[d].refused
        BY <1>0, <4>1 DEF Rows
      <4> QED
        BY <1>3, <4>1, <4>2 DEF RowKept, WriteInv, Preclaim
    <3>3. CASE TimePasses
      <4>1. action'[d] = [action[d] EXCEPT !.late = TRUE]
        BY <1>0, <2>2, <3>3 DEF TimePasses
      <4>2. action'[d].status = action[d].status /\ action'[d].refused = action[d].refused
        BY <1>0, <4>1 DEF Rows
      <4> QED
        BY <1>3, <4>2 DEF RowKept, WriteInv
    <3> QED
      BY <3>1, <3>2, <3>3
  <2> QED
    BY <2>1, <2>2
<1> QED
  BY <1>1, <1>2, <1>3, QuietStep

(* The invariant on writes is inductive. *)
LEMMA WritesNext == TypeInv /\ WriteInv /\ [ActionsNext]_actionVars => WriteInv'
<1> SUFFICES ASSUME TypeInv, WriteInv, [ActionsNext]_actionVars PROVE WriteInv'
  OBVIOUS
<1>1. CASE \E e \in Executors : ExecutorStep(e)
  BY <1>1, FrameKeepsWrites, PrepareKeepsWrites, ClaimKeepsWrites, CallKeepsWrites,
     ReceiptKeepsWrites DEF ExecutorStep
<1>2. CASE UserCommand
  BY <1>2, CommandsKeepWrites
<1>3. CASE EnvironmentStep
  BY <1>3, EnvironmentKeepsWrites
<1>4. CASE UNCHANGED actionVars
  BY <1>4 DEF actionVars, WriteInv, AtCall
<1> QED
  BY <1>1, <1>2, <1>3, <1>4 DEF ActionsNext, EnvironmentStep

(* Nothing was claimed at the start. *)
LEMMA WritesInit == ActionsInit => WriteInv
<1> SUFFICES ASSUME ActionsInit PROVE WriteInv
  OBVIOUS
<1>1. \A e \in Executors : executor[e].pc = "idle"
  BY AtRestTyped DEF ActionsInit
<1>2. \A c \in 1 .. Calls : effects[c] = 0 /\ action[c].refused = FALSE
  BY DEF ActionsInit, Absent
<1> QED
  BY <1>1, <1>2 DEF WriteInv, AtCall

(* A write takes effect at most once, whatever happens to its executors     *)
(* (invokeAction, recoverActions).                                          *)
THEOREM WritesOnce == ActionsSpec => []WrittenOnce
<1>1. ActionsSpec => []TypeInv
  BY TypeInit, TypeNext, PTL DEF ActionsSpec
<1>2. ActionsSpec => []WriteInv
  BY <1>1, WritesInit, WritesNext, PTL DEF ActionsSpec
<1>3. WriteInv => WrittenOnce
  BY DEF WriteInv, WrittenOnce
<1> QED
  BY <1>2, <1>3, PTL

(* An accepted denial or revocation of a write holds for ever: no rebinding *)
(* and no executor that read the row before gets past it                    *)
(* (actionDecision, rebindAction).                                          *)
THEOREM RefusalsHold == ActionsSpec => []RefusalHolds
<1>1. ActionsSpec => []TypeInv
  BY TypeInit, TypeNext, PTL DEF ActionsSpec
<1>2. ActionsSpec => []WriteInv
  BY <1>1, WritesInit, WritesNext, PTL DEF ActionsSpec
<1>3. WriteInv => RefusalHolds
  BY DEF WriteInv, RefusalHolds, Preclaim
<1> QED
  BY <1>2, <1>3, PTL

-----------------------------------------------------------------------------
(* A write in flight keeps its scope, and an unknown one halts its run      *)

(* An executing write was permitted for the inputs and the controller the   *)
(* run still has.                                                           *)
ScopeInv == \A c \in 1 .. Calls :
    Writes(c, {"executing"}) =>
        action[c].input = work.input /\ action[c].controller = work.controller
OpenInv == ScopeInv /\ UnknownHalts

(* The scope of the run does not move, and whatever is executing is in it.  *)
InScope(c) == action'[c].status = "executing" =>
    action'[c].input = work.input /\ action'[c].controller = work.controller
(* After the step the run is halted or over, or no write is unknown.        *)
StillHalted == Halted(work)' \/ Ended(work)' \/ ~UnresolvedWrite'

(* Both together keep the invariant. *)
LEMMA OpenStep ==
  ASSUME OpenInv, risks' = risks,
         work'.input = work.input, work'.controller = work.controller,
         \A c \in 1 .. Calls : risks[c] = "write" => InScope(c),
         StillHalted
  PROVE  OpenInv'
  BY DEF OpenInv, ScopeInv, Writes, InScope, StillHalted, UnknownHalts

(* Where the status stays and nothing becomes unknown, the run stays halted.*)
LEMMA NothingUnknown ==
  ASSUME OpenInv, risks' = risks, work'.status = work.status,
         \A c \in 1 .. Calls : risks[c] = "write" /\ action'[c].status = "unknown"
                                  => action[c].status = "unknown"
  PROVE  StillHalted
  BY DEF OpenInv, StillHalted, UnknownHalts, UnresolvedWrite, Writes, Halted, Ended

(* A row that is not touched stays in its scope. *)
LEMMA SameScope ==
  ASSUME OpenInv, NEW c \in 1 .. Calls, risks[c] = "write", action'[c] = action[c]
  PROVE  InScope(c)
  BY DEF OpenInv, ScopeInv, Writes, InScope

(* Parking halts; the other endings end.                                    *)
LEMMA Parked ==
  ASSUME work \in Works
  PROVE  /\ Halted(ParkUnknown(work)) \/ Ended(ParkUnknown(work))
         /\ Halted(ParkPending(work))
         /\ \A r \in {ParkUnknown(work), ParkPending(work)} :
               r.input = work.input /\ r.controller = work.controller
  BY DEF ParkUnknown, ParkPending, Halted, Ended, Works

(* The frame of an execution leaves a halted run halted or ends it.         *)
LEMMA FrameKeepsOpen ==
  ASSUME TypeInv, OpenInv, NEW e \in Executors,
         \/ ClaimItem(e) \/ EnterWork(e) \/ RestartWork(e) \/ NextCall(e) \/ LeaveWork(e)
         \/ ConfirmStopped(e) \/ FailWork(e) \/ ReleaseItem(e)
  PROVE  OpenInv'
<1>0. work \in Works
  BY DEF TypeInv, RowsTyped
<1>1. UNCHANGED <<risks, action>>
  BY DEF ClaimItem, EnterWork, RestartWork, NextCall, LeaveWork, ConfirmStopped, FailWork,
         ReleaseItem
<1>2. /\ work'.input = work.input /\ work'.controller = work.controller
      /\ work'.status = work.status \/ work'.status \in {"succeeded", "stopped", "failed"}
  <2>1. CASE ClaimItem(e)
    <3>1. \/ work' = work
          \/ work' = [work EXCEPT !.generation = work.generation + 1, !.holding = "accepted"]
          \/ work' = [work EXCEPT !.generation = work.generation + 1,
                                  !.holding = work.holding]
      BY <2>1 DEF ClaimItem
    <3> QED
      BY <1>0, <3>1 DEF Works
  <2>2. CASE EnterWork(e) \/ LeaveWork(e) \/ ReleaseItem(e)
    BY <2>2 DEF EnterWork, LeaveWork, ReleaseItem
  <2>3. CASE RestartWork(e) \/ NextCall(e) \/ ConfirmStopped(e) \/ FailWork(e)
    <3>1. \/ work' = work
          \/ work' = [work EXCEPT !.holding = "accepted"]
          \/ work' = [work EXCEPT !.status = "succeeded"]
          \/ \E st \in {"stopped", "failed"} :
               work' = [work EXCEPT !.status = st, !.stage = ""]
      BY <2>3 DEF RestartWork, NextCall, ConfirmStopped, FailWork
    <3> QED
      BY <1>0, <3>1 DEF Works
  <2> QED
    BY <2>1, <2>2, <2>3
<1>3. StillHalted
  <2>1. CASE work'.status = work.status
    BY <1>1, <2>1, NothingUnknown
  <2>2. CASE work'.status # work.status
    BY <1>2, <2>2 DEF StillHalted, Ended
  <2> QED
    BY <2>1, <2>2
<1> QED
  BY <1>1, <1>2, <1>3, OpenStep, SameScope

(* The steps of a call: the claim takes only a row of the present scope     *)
(* while no write is unknown, and the receipt halts the run with the write. *)
LEMMA CallKeepsOpen ==
  ASSUME TypeInv, OpenInv, NEW e \in Executors,
         \/ PrepareAction(e) \/ ClaimAction(e) \/ CheckBeforeCall(e) \/ CallTool(e)
         \/ RecordOutcome(e) \/ PairResult(e)
  PROVE  OpenInv'
<1> DEFINE c == executor[e].call
<1>0. /\ c \in 1 .. Calls /\ work \in Works /\ action \in [1 .. Calls -> Rows]
      /\ Rebound(c) \in Rows
  <2>1. c \in 1 .. Calls /\ work \in Works /\ action \in [1 .. Calls -> Rows]
    BY DEF TypeInv, ThreadsTyped, RowsTyped, PrepareAction, ClaimAction, CheckBeforeCall,
           CallTool, RecordOutcome, PairResult, Calling
  <2> QED
    BY <2>1, ReboundTyped DEF TypeInv
<1>1. risks' = risks
  BY DEF PrepareAction, ClaimAction, CheckBeforeCall, CallTool, RecordOutcome, PairResult
<1>2. /\ work' \in {work, ParkUnknown(work), ParkPending(work)}
      /\ work' # work => Halted(work)' \/ Ended(work)'
  <2>1. work' \in {work, ParkUnknown(work), ParkPending(work)}
    BY DEF PrepareAction, ClaimAction, CheckBeforeCall, CallTool, RecordOutcome, PairResult,
           WorkOnRebind
  <2> QED
    BY <1>0, <2>1, Parked
<1>3. work'.input = work.input /\ work'.controller = work.controller
  BY <1>0, <1>2, Parked
<1>4. ASSUME NEW r \in Rows, NEW st
      PROVE  /\ [r EXCEPT !.status = st].status = st
             /\ [r EXCEPT !.status = st].input = r.input
             /\ [r EXCEPT !.status = st].controller = r.controller
  BY DEF Rows
<1>5. /\ Rebound(c).input = action[c].input /\ Rebound(c).controller = action[c].controller
      /\ Rebound(c).status # action[c].status => Rebound(c).status \in {"expired", "revoked"}
  <2>1. action[c] \in Rows
    BY <1>0
  <2> QED
    BY <2>1 DEF Rebound, Rows
<1>6. NewAction(c).status \in {"approved", "pending"}
  BY DEF NewAction, Absent
<1>7. ASSUME NEW d \in 1 .. Calls, risks[d] = "write"
      PROVE  /\ InScope(d)
             /\ action'[d].status = "unknown"
                    => action[d].status = "unknown" \/ work' = ParkUnknown(work)
  <2>1. CASE action'[d] = action[d]
    BY <1>7, <2>1, SameScope
  <2>2. CASE action'[d] # action[d]
    <3>1. d = c /\ (PrepareAction(e) \/ ClaimAction(e) \/ RecordOutcome(e))
      BY <1>0, <2>2 DEF PrepareAction, ClaimAction, CheckBeforeCall, CallTool,
                        RecordOutcome, PairResult
    <3>2. CASE PrepareAction(e)
      <4>1. \/ action'[c] = Rebound(c) /\ action[c].status \notin {"executing", "unknown"}
            \/ action'[c] = NewAction(c)
        BY <1>0, <2>2, <3>1, <3>2 DEF PrepareAction, Rebindable
      <4> QED
        BY <1>5, <1>6, <3>1, <4>1 DEF InScope
    <3>3. CASE ClaimAction(e)
      <4>1. /\ Rebindable(action[c])
            /\ \/ action'[c] = Rebound(c)
               \/ action'[c] = [Rebound(c) EXCEPT !.status = "executing"]
        BY <1>0, <2>2, <3>1, <3>3 DEF ClaimAction
      <4>2. action[c].input = work.input /\ action[c].controller = work.controller
            /\ action[c].status \notin {"executing", "unknown"}
        BY <4>1 DEF Rebindable
      <4>3. /\ action'[c].input = action[c].input
            /\ action'[c].controller = action[c].controller
            /\ action'[c].status # "unknown"
        <5>1. CASE action'[c] = Rebound(c)
          BY <1>5, <4>2, <5>1
        <5>2. CASE action'[c] = [Rebound(c) EXCEPT !.status = "executing"]
          BY <1>0, <1>4, <1>5, <5>2
        <5> QED
          BY <4>1, <5>1, <5>2
      <4> QED
        BY <3>1, <4>2, <4>3 DEF InScope
    <3>4. CASE RecordOutcome(e)
      <4>1. \/ action'[c] = [action[c] EXCEPT !.status = "succeeded"]
            \/ /\ action'[c] = [action[c] EXCEPT !.status = "unknown"]
               /\ work' = ParkUnknown(work)
        <5>1. risks[c] # "read"
          BY <1>7, <3>1
        <5>2. /\ ~UNCHANGED action
              /\ RecordOutcome(e)
          BY <2>2, <3>4
        <5>3. PICK outcome \in {"succeeded", "unknown"} :
                 /\ action' = [action EXCEPT ![c].status = outcome]
                 /\ outcome = "unknown" => work' = ParkUnknown(work)
          BY <5>1, <5>2, Zenon DEF RecordOutcome
        <5> QED
          BY <1>0, <5>3
      <4>2. /\ action'[c].status # "executing"
            /\ action'[c].status = "unknown" => work' = ParkUnknown(work)
        <5>1. action[c] \in Rows
          BY <1>0
        <5>2. /\ [action[c] EXCEPT !.status = "succeeded"].status = "succeeded"
              /\ [action[c] EXCEPT !.status = "unknown"].status = "unknown"
          BY <5>1 DEF Rows
        <5> QED
          BY <4>1, <5>2
      <4> QED
        BY <3>1, <4>2 DEF InScope
    <3> QED
      BY <3>1, <3>2, <3>3, <3>4
  <2> QED
    BY <2>1, <2>2
<1>8. StillHalted
  <2>1. CASE work' = ParkUnknown(work)
    BY <1>0, <2>1, Parked DEF StillHalted
  <2>2. CASE work' # ParkUnknown(work)
    <3>1. CASE work' = work
      BY <1>1, <1>7, <2>2, <3>1, NothingUnknown
    <3>2. CASE work' # work
      BY <1>2, <3>2 DEF StillHalted
    <3> QED
      BY <3>1, <3>2
  <2> QED
    BY <2>1, <2>2
<1> QED
  BY <1>1, <1>3, <1>7, <1>8, OpenStep

(* An input, a resume and a takeover wait for the outcome of an open write, *)
(* a decision for that of an unknown one.                                   *)
LEMMA CommandsKeepOpen ==
  ASSUME TypeInv, OpenInv, UserCommand
  PROVE  OpenInv'
<1>0. work \in Works /\ action \in [1 .. Calls -> Rows]
  BY DEF TypeInv, RowsTyped
<1>1. risks' = risks
  BY DEF UserCommand, DecideAction, GrantPermission, RevokePermission, StopWork, AddInput,
         ResumeWork, TakeOverWork
<1>2. CASE AddInput \/ ResumeWork \/ TakeOverWork
  <2>1. ~PendingWrite /\ action' = action
    BY <1>2 DEF AddInput, ResumeWork, TakeOverWork
  <2> QED
    BY <1>1, <2>1 DEF OpenInv, ScopeInv, UnknownHalts, UnresolvedWrite, PendingWrite, Writes
<1>3. CASE StopWork \/ GrantPermission \/ RevokePermission
  <2>1. /\ action' = action
        /\ work' = work \/ work' = [work EXCEPT !.status = "stopping", !.stage = ""]
    BY <1>3 DEF StopWork, GrantPermission, RevokePermission
  <2>2. /\ work'.input = work.input /\ work'.controller = work.controller
        /\ work'.status = work.status \/ Halted(work)'
    BY <1>0, <2>1 DEF Works, Halted
  <2>3. StillHalted
    BY <1>1, <2>1, <2>2, NothingUnknown DEF StillHalted
  <2> QED
    BY <1>1, <2>1, <2>2, <2>3, OpenStep, SameScope
<1>4. CASE \E c \in 1 .. Calls, op \in DOMAIN Decisions : DecideAction(c, op)
  <2>1. PICK c \in 1 .. Calls, op \in DOMAIN Decisions : DecideAction(c, op)
    BY <1>4
  <2>2. work'.input = work.input /\ work'.controller = work.controller /\ ~UnresolvedWrite
    <3>1. work' = work \/ work' = [work EXCEPT !.status = "running", !.stage = ""]
      BY <2>1 DEF DecideAction
    <3>2. ~UnresolvedWrite
      BY <2>1 DEF DecideAction, AuthorityFence
    <3> QED
      BY <1>0, <3>1, <3>2 DEF Works
  <2>3. \A d \in 1 .. Calls : \/ action'[d] = action[d]
                              \/ action'[d].status \notin {"executing", "unknown"}
    <3>1. Decisions[op] \notin {"executing", "unknown"}
      BY DEF Decisions
    <3>2. ASSUME NEW r \in Rows, NEW st, NEW o, NEW b
          PROVE  [r EXCEPT !.status = st, !.approver = o, !.refused = b].status = st
      BY DEF Rows
    <3>3. action' = [action EXCEPT ![c] = [action[c] EXCEPT !.status = Decisions[op],
                        !.approver = owner, !.refused = op # "approve"]]
      BY <2>1 DEF DecideAction
    <3>4. action'[c].status = Decisions[op]
      <4> DEFINE r == [action[c] EXCEPT !.status = Decisions[op],
                        !.approver = owner, !.refused = op # "approve"]
      <4>1. action'[c] = r
        BY <1>0, <3>3
      <4>2. r.status = Decisions[op]
        BY <1>0, <3>2
      <4> QED
        BY <4>1, <4>2
    <3> QED
      BY <1>0, <3>1, <3>3, <3>4
  <2>4. \A d \in 1 .. Calls : risks[d] = "write" => InScope(d)
    BY <2>3, SameScope DEF InScope
  <2>5. StillHalted
    BY <1>1, <2>2, <2>3 DEF StillHalted, UnresolvedWrite, Writes
  <2> QED
    BY <1>1, <2>2, <2>4, <2>5, OpenStep
<1> QED
  BY <1>2, <1>3, <1>4 DEF UserCommand

(* Recovery parks the run in the transaction that gives a write up.         *)
LEMMA EnvironmentKeepsOpen ==
  ASSUME TypeInv, OpenInv, EnvironmentStep
  PROVE  OpenInv'
<1>0. work \in Works /\ action \in [1 .. Calls -> Rows]
  BY DEF TypeInv, RowsTyped
<1>1. CASE RecoverActions
  <2>1. risks' = risks /\ action' = ActionsAfterRecovery /\ work' = WorkAfterRecovery
    BY <1>1 DEF RecoverActions
  <2>2. work' = work \/ work' = ParkUnknown(work)
    BY <2>1 DEF WorkAfterRecovery
  <2>3. work'.input = work.input /\ work'.controller = work.controller
    BY <1>0, <2>2, Parked
  <2>4. ASSUME NEW c \in 1 .. Calls, risks[c] = "write" PROVE InScope(c)
    <3>1. \/ action'[c] = action[c]
          \/ action'[c] = [action[c] EXCEPT !.status = "unknown"]
      BY <2>1, <2>4 DEF ActionsAfterRecovery, Recovered
    <3>2. [action[c] EXCEPT !.status = "unknown"].status = "unknown"
      BY <1>0 DEF Rows
    <3> QED
      BY <2>4, <3>1, <3>2, SameScope DEF InScope
  <2>5. StillHalted
    <3>1. CASE work' = ParkUnknown(work)
      BY <1>0, <3>1, Parked DEF StillHalted
    <3>2. CASE work' # ParkUnknown(work)
      <4>1. ~UnresolvedWrite'
        BY <2>1, <3>2 DEF WorkAfterRecovery, UnresolvedWrite, Writes
      <4> QED
        BY <4>1 DEF StillHalted
    <3> QED
      BY <3>1, <3>2
  <2> QED
    BY <2>1, <2>3, <2>4, <2>5, OpenStep
<1>2. CASE ~RecoverActions
  <2>1. risks' = risks
    BY <1>2 DEF EnvironmentStep, ReconcileActions, MarkLost, SuspendForTakeover,
                ExecutorCrashes, ReceiptFails, OwnerChanges, ControllerLeaves, TimePasses,
                ItemExpires, HolderStalls
  <2>2. /\ work'.input = work.input /\ work'.controller = work.controller
        /\ work'.status = work.status \/ Halted(work)'
    <3>1. \/ work' = work
          \/ work' = [work EXCEPT !.holding = "lost"]
          \/ work' = [work EXCEPT !.member = FALSE]
          \/ work' = [work EXCEPT !.status = "waiting_authorization",
                        !.stage = "awaiting_takeover", !.generation = work.generation + 1]
      BY <1>2 DEF EnvironmentStep, ReconcileActions, MarkLost, SuspendForTakeover,
                  ExecutorCrashes, ReceiptFails, OwnerChanges, ControllerLeaves,
                  TimePasses, ItemExpires, HolderStalls
    <3> QED
      BY <1>0, <3>1 DEF Works, Halted
  <2>3. ASSUME NEW d \in 1 .. Calls
        PROVE  \/ action'[d] = action[d]
               \/ action'[d] = [action[d] EXCEPT !.late = TRUE]
    BY <1>0, <1>2 DEF EnvironmentStep, ReconcileActions, MarkLost, SuspendForTakeover,
                      ExecutorCrashes, ReceiptFails, OwnerChanges, ControllerLeaves,
                      TimePasses, ItemExpires, HolderStalls
  <2>4. ASSUME NEW d \in 1 .. Calls
        PROVE  /\ action'[d].status = action[d].status /\ action'[d].input = action[d].input
               /\ action'[d].controller = action[d].controller
    <3>1. ASSUME NEW r \in Rows
          PROVE  /\ [r EXCEPT !.late = TRUE].status = r.status
                 /\ [r EXCEPT !.late = TRUE].input = r.input
                 /\ [r EXCEPT !.late = TRUE].controller = r.controller
      BY DEF Rows
    <3>2. action[d] \in Rows
      BY <1>0
    <3> QED
      BY <2>3, <3>1, <3>2
  <2>5. \A d \in 1 .. Calls : risks[d] = "write" => InScope(d)
    BY <2>4 DEF InScope, OpenInv, ScopeInv, Writes
  <2>6. StillHalted
    BY <2>1, <2>2, <2>4, NothingUnknown DEF StillHalted
  <2> QED
    BY <2>1, <2>2, <2>5, <2>6, OpenStep
<1> QED
  BY <1>1, <1>2

(* The invariant on open writes is inductive. *)
LEMMA OpenNext == TypeInv /\ OpenInv /\ [ActionsNext]_actionVars => OpenInv'
<1> SUFFICES ASSUME TypeInv, OpenInv, [ActionsNext]_actionVars PROVE OpenInv'
  OBVIOUS
<1>1. CASE \E e \in Executors : ExecutorStep(e)
  BY <1>1, FrameKeepsOpen, CallKeepsOpen DEF ExecutorStep
<1>2. CASE UserCommand
  BY <1>2, CommandsKeepOpen
<1>3. CASE EnvironmentStep
  BY <1>3, EnvironmentKeepsOpen
<1>4. CASE UNCHANGED actionVars
  BY <1>4 DEF actionVars, OpenInv, ScopeInv, UnknownHalts, UnresolvedWrite, Writes,
              Halted, Ended
<1> QED
  BY <1>1, <1>2, <1>3, <1>4 DEF ActionsNext, EnvironmentStep

(* No write is open at the start. *)
LEMMA OpenInit == ActionsInit => OpenInv
<1> SUFFICES ASSUME ActionsInit PROVE OpenInv
  OBVIOUS
<1>1. \A c \in 1 .. Calls : action[c].status = "absent"
  BY DEF ActionsInit, Absent
<1> QED
  BY <1>1 DEF OpenInv, ScopeInv, UnknownHalts, UnresolvedWrite, Writes

(* No input and no takeover slips in between the claim of a write and its   *)
(* receipt (pendingExternalWrite, Control).                                 *)
THEOREM WritesKeepTheirScope == ActionsSpec => []WriteKeepsItsScope
<1>1. ActionsSpec => []TypeInv
  BY TypeInit, TypeNext, PTL DEF ActionsSpec
<1>2. ActionsSpec => []OpenInv
  BY <1>1, OpenInit, OpenNext, PTL DEF ActionsSpec
<1>3. TypeInv /\ OpenInv => WriteKeepsItsScope
  BY DEF TypeInv, ThreadsTyped, Calling, OpenInv, ScopeInv, Writes, WriteKeepsItsScope
<1> QED
  BY <1>1, <1>2, <1>3, PTL

(* A run with a write of unknown outcome is parked for a human, being       *)
(* stopped, or over: whoever finds the outcome unknown halts it in the same *)
(* transaction, and no command, decision or recovery sets it going again    *)
(* (actionOutcomeUnknown, actionAuthorityFence).                            *)
THEOREM UnknownWritesHalt == ActionsSpec => []UnknownHalts
<1>1. ActionsSpec => []TypeInv
  BY TypeInit, TypeNext, PTL DEF ActionsSpec
<1>2. ActionsSpec => []OpenInv
  BY <1>1, OpenInit, OpenNext, PTL DEF ActionsSpec
<1>3. OpenInv => UnknownHalts
  BY DEF OpenInv
<1> QED
  BY <1>2, <1>3, PTL

-----------------------------------------------------------------------------
(* An approved action is pursued                                            *)
(*                                                                          *)
(* A running run always has an item that will be executed.  It cannot be    *)
(* one whose holder is about to drain it, so the invariant says which       *)
(* holders are: one that confirms a stop, one that leaves without an error, *)
(* and one of an earlier generation, which leaves as if it had done its     *)
(* work.  A call whose decision is still open is one such leave; it parks   *)
(* the run unless a decision on another call has already woken an executor. *)

Serving == Calling \cup {"restart", "agent"}
Drains(e) ==
    \/ executor[e].pc = "confirm"
    \/ executor[e].pc \in {"finish", "post"} /\ executor[e].err = "none"
    \/ /\ executor[e].pc \in {"post"} \cup Serving
       /\ executor[e].generation # work.generation
Secured(i) ==
    /\ ~items[i].done
    /\ \A e \in Executors : items[i].holder = e /\ executor[e].item = i => ~Drains(e)
Free(i) == ~items[i].done /\ items[i].holder = 0

Pursued == work.status = "running" => \E i \in DOMAIN items : Secured(i)
(* A decision that is still open while the run is running: another one woke *)
(* an executor, which has not come yet.                                     *)
OpenDecision(c) == /\ work.status = "running" /\ action[c].status = "pending"
                   /\ action[c].generation = work.generation
PendingWoken == (\E c \in 1 .. Calls : OpenDecision(c)) => \E i \in DOMAIN items : Free(i)
RowsBehind == \A c \in 1 .. Calls : action[c].generation <= work.generation
PursueInv == RowsBehind /\ Pursued /\ PendingWoken

(* What a step leaves of the goroutines and of the open decisions. *)
NoneDrains == \A e \in Executors :
    Drains(e)' => Drains(e) /\ executor'[e].item = executor[e].item
NoneAsks == \A c \in 1 .. Calls : OpenDecision(c)' => OpenDecision(c)
RowsFollow == /\ work'.generation \in Nat /\ work.generation <= work'.generation
              /\ \A c \in 1 .. Calls : \/ action'[c].generation = action[c].generation
                                       \/ action'[c].generation = work'.generation

(* A free item is a secured one, whatever the goroutines do. *)
LEMMA FreeIsSecured == \A i : Free(i) => Secured(i)
  BY DEF Free, Secured, Executors

(* Rows stay behind the run when its generation only grows. *)
LEMMA FollowStep ==
  ASSUME RowsTyped, RowsBehind, RowsFollow
  PROVE  RowsBehind'
<1>1. work.generation \in Nat /\ \A c \in 1 .. Calls : action[c].generation \in Nat
  BY DEF RowsTyped, Works, Rows
<1> QED
  BY <1>1 DEF RowsBehind, RowsFollow

(* A step that changes no item, makes none a drained one and asks for no    *)
(* decision keeps an item for the running run.                              *)
LEMMA KeptStep ==
  ASSUME RowsTyped, PursueInv, RowsFollow, items' = items,
         work'.status = "running" => work.status = "running" /\ NoneDrains /\ NoneAsks
  PROVE  PursueInv'
<1>1. RowsBehind'
  BY FollowStep DEF PursueInv
<1>2. Pursued'
  BY DEF PursueInv, Pursued, NoneDrains, Secured
<1>3. PendingWoken'
  <2>1. ASSUME NEW c \in 1 .. Calls, OpenDecision(c)' PROVE OpenDecision(c)
    BY <2>1 DEF OpenDecision, NoneAsks
  <2> QED
    BY <2>1 DEF PursueInv, PendingWoken, Free
<1> QED
  BY <1>1, <1>2, <1>3 DEF PursueInv

(* Waking an executor gives the run an item that nobody holds. *)
LEMMA WokenStep ==
  ASSUME RowsTyped, PursueInv, RowsFollow, items' = WakeExecutor
  PROVE  PursueInv'
<1>1. RowsBehind'
  BY FollowStep DEF PursueInv
<1>2. PICK n \in DOMAIN items' : items'[n] = NewWake
  <2>1. items'[Len(items) + 1] = NewWake /\ Len(items) + 1 \in DOMAIN items'
    BY DEF RowsTyped, WakeExecutor
  <2> QED
    BY <2>1
<1>3. NewWake.done = FALSE /\ NewWake.holder = 0 /\ 0 \notin Executors
  BY DEF NewWake, Executors
<1>4. Free(n)' /\ Secured(n)'
  BY <1>2, <1>3 DEF Free, Secured
<1> QED
  BY <1>1, <1>2, <1>4 DEF PursueInv, Pursued, PendingWoken

(* A goroutine that is replaced by one that drains nothing new. *)
LEMMA ThreadDrains ==
  ASSUME ThreadsTyped, NEW e \in Executors, NEW t,
         executor' = [executor EXCEPT ![e] = t], work'.generation = work.generation,
         \/ t.pc = "idle"
         \/ /\ t.item = executor[e].item
            /\ t.pc # "confirm"
            /\ \/ t.pc \notin {"finish", "post"} \cup Serving
               \/ t.pc = "finish" /\ (t.err = "none" => Drains(e))
               \/ t.pc = "post" /\ (t.err = "none" => Drains(e))
                  /\ (t.generation # work.generation => Drains(e))
               \/ t.pc \in Serving /\ (t.generation # work.generation => Drains(e))
  PROVE  NoneDrains
<1>1. executor'[e] = t /\ \A f \in Executors \ {e} : executor'[f] = executor[f]
  BY DEF ThreadsTyped
<1>2. \A f \in Executors \ {e} : Drains(f)' => Drains(f)
  BY <1>1 DEF Drains
<1>3. Drains(e)' => Drains(e) /\ executor'[e].item = executor[e].item
  BY <1>1 DEF Drains, Serving, Calling
<1> QED
  BY <1>1, <1>2, <1>3 DEF NoneDrains

(* Leaving with an error drains nothing, unless the executor is superseded. *)
LEMMA LeaveDrains ==
  ASSUME ThreadsTyped, NEW e \in Executors, NEW err, Leave(e, err),
         work'.generation = work.generation,
         err = "none" => Drains(e),
         executor[e].generation # work.generation => Drains(e)
  PROVE  NoneDrains
<1> DEFINE t(r) == [r EXCEPT !.pc = "post", !.err = err, !.item = executor[e].item,
                             !.generation = executor[e].generation]
<1>1. executor' = [executor EXCEPT ![e] = t(AtRest)]
  BY DEF Leave
<1>2. ASSUME NEW r \in Threads
      PROVE  /\ t(r).pc = "post" /\ t(r).err = err /\ t(r).item = executor[e].item
             /\ t(r).generation = executor[e].generation
  BY DEF Threads
<1> HIDE DEF t
<1>3. /\ t(AtRest).pc = "post" /\ t(AtRest).err = err /\ t(AtRest).item = executor[e].item
      /\ t(AtRest).generation = executor[e].generation
  BY <1>2, AtRestTyped
<1> QED
  BY <1>1, <1>3, ThreadDrains

(* Going on drains nothing either. *)
LEMMA GoDrains ==
  ASSUME ThreadsTyped, NEW e \in Executors, NEW pc \in Serving, NEW failed,
         \/ StepTo(e, pc)
         \/ executor' = [executor EXCEPT ![e].pc = pc, ![e].failed = failed],
         work'.generation = work.generation,
         executor[e].generation # work.generation => Drains(e)
  PROVE  NoneDrains
<1> DEFINE t1 == [executor[e] EXCEPT !.pc = pc]
           t2 == [executor[e] EXCEPT !.pc = pc, !.failed = failed]
<1>1. /\ t1.pc = pc /\ t1.item = executor[e].item /\ t1.generation = executor[e].generation
      /\ t2.pc = pc /\ t2.item = executor[e].item /\ t2.generation = executor[e].generation
  <2>1. executor[e] \in Threads
    BY DEF ThreadsTyped
  <2> QED
    BY <2>1 DEF Threads
<1>2. executor' = [executor EXCEPT ![e] = t1] \/ executor' = [executor EXCEPT ![e] = t2]
  BY DEF StepTo
<1>3. pc \notin {"confirm", "finish", "post"}
  BY DEF Serving, Calling
<1> HIDE DEF t1, t2
<1> QED
  BY <1>1, <1>2, <1>3, ThreadDrains

(* An executor that finishes with an error, or was about to drain its item. *)
LEMMA FinishDrains ==
  ASSUME ThreadsTyped, NEW e \in Executors, NEW pc \in {"finish", "fail"}, NEW err,
         executor' = [executor EXCEPT ![e].pc = pc, ![e].err = err],
         work'.generation = work.generation, err = "none" /\ pc = "finish" => Drains(e)
  PROVE  NoneDrains
<1> DEFINE t == [executor[e] EXCEPT !.pc = pc, !.err = err]
<1>1. t.pc = pc /\ t.err = err /\ t.item = executor[e].item
  <2>1. executor[e] \in Threads
    BY DEF ThreadsTyped
  <2> QED
    BY <2>1 DEF Threads
<1>2. executor' = [executor EXCEPT ![e] = t]
  OBVIOUS
<1>3. pc \notin {"confirm", "post"} \cup Serving
  BY DEF Serving, Calling
<1> HIDE DEF t
<1> QED
  BY <1>1, <1>2, <1>3, ThreadDrains

(* The frame of an execution drains the item of a running run only when the *)
(* executor was superseded; then it leaves that of its successor alone.     *)
LEMMA FramePursues ==
  ASSUME TypeInv, PursueInv, NEW e \in Executors,
         \/ EnterWork(e) \/ RestartWork(e) \/ NextCall(e) \/ LeaveWork(e)
         \/ ConfirmStopped(e) \/ FailWork(e)
  PROVE  PursueInv'
<1>0. work \in Works /\ executor[e] \in Threads /\ RowsTyped /\ ThreadsTyped
  BY DEF TypeInv, RowsTyped, ThreadsTyped
<1>1. items' = items /\ action' = action
  BY DEF EnterWork, RestartWork, NextCall, LeaveWork, ConfirmStopped, FailWork
<1>2. /\ work'.generation = work.generation
      /\ \/ work'.status = work.status
         \/ work'.status \in {"succeeded", "stopped", "failed"}
  <2>1. \/ work' = work
        \/ work' = [work EXCEPT !.holding = "accepted"]
        \/ work' = [work EXCEPT !.status = "succeeded"]
        \/ \E st \in {"stopped", "failed"} :
             work' = [work EXCEPT !.status = st, !.stage = ""]
    BY DEF EnterWork, RestartWork, NextCall, LeaveWork, ConfirmStopped, FailWork
  <2> QED
    BY <1>0, <2>1 DEF Works
<1>3. RowsFollow
  <2>1. work.generation \in Nat
    BY <1>0 DEF Works
  <2> QED
    BY <1>1, <1>2, <2>1 DEF RowsFollow
<1>4. ASSUME work'.status = "running"
      PROVE  work.status = "running" /\ NoneAsks /\ NoneDrains
  <2>1. work.status = "running" /\ NoneAsks
    BY <1>1, <1>2, <1>4 DEF NoneAsks, OpenDecision
  <2> SUFFICES NoneDrains
    BY <2>1
  <2>2. ~Ended(work) /\ \A g : Refused(g) # "none"
    BY <2>1 DEF Ended, Refused
  <2>3. executor[e].pc \in Serving /\ executor[e].generation # work.generation => Drains(e)
    BY DEF Drains
  <2>4. CASE EnterWork(e)
    <3>1. \/ executor' = [executor EXCEPT ![e].pc = "finish", ![e].err = "aborted"]
          \/ /\ executor[e].generation = work.generation
             /\ Leave(e, "failed") \/ StepTo(e, "restart") \/ StepTo(e, "agent")
      BY <1>0, <2>1, <2>2, <2>4 DEF EnterWork
    <3>2. /\ "aborted" # "none" /\ "failed" # "none" /\ "finish" \in {"finish", "fail"}
          /\ "restart" \in Serving /\ "agent" \in Serving
      BY DEF Serving
    <3>3. CASE executor' = [executor EXCEPT ![e].pc = "finish", ![e].err = "aborted"]
      BY <1>0, <1>2, <3>2, <3>3, FinishDrains
    <3>4. CASE executor[e].generation = work.generation /\ Leave(e, "failed")
      BY <1>0, <1>2, <3>2, <3>4, LeaveDrains
    <3>5. CASE /\ executor[e].generation = work.generation
               /\ StepTo(e, "restart") \/ StepTo(e, "agent")
      BY <1>0, <1>2, <3>2, <3>5, GoDrains
    <3> QED
      BY <3>1, <3>3, <3>4, <3>5
  <2>5. CASE RestartWork(e)
    <3>1. executor[e].pc \in Serving
      BY <2>5 DEF RestartWork, Serving
    <3>2. StepTo(e, "agent") \/ Leave(e, Refused(executor[e].generation))
      BY <2>5 DEF RestartWork
    <3> QED
      BY <1>0, <1>2, <2>2, <2>3, <3>1, <3>2, LeaveDrains, GoDrains DEF Serving
  <2>6. CASE NextCall(e)
    <3>1. executor[e].pc \in Serving
      BY <2>6 DEF NextCall, Serving
    <3>2. CASE \E err : err # "none" /\ Leave(e, err)
      BY <1>0, <1>2, <2>3, <3>1, <3>2, LeaveDrains
    <3>3. CASE ~\E err : err # "none" /\ Leave(e, err)
      <4>1. ~(work' = [work EXCEPT !.status = "succeeded"])
        BY <1>0, <1>4 DEF Works
      <4>2. PICK c, n : executor' = [executor EXCEPT ![e].pc = "prepare", ![e].call = c,
                                        ![e].input = n, ![e].failed = FALSE]
        BY <2>2, <2>6, <3>3, <4>1 DEF NextCall
      <4> DEFINE t == TakenUp(executor[e], c, n)
      <4>3. executor' = [executor EXCEPT ![e] = t]
        BY <4>2 DEF TakenUp
      <4>4. t.pc = "prepare" /\ t.item = executor[e].item
            /\ t.generation = executor[e].generation
        BY <1>0 DEF TakenUp, Threads
      <4> HIDE DEF t
      <4> QED
        BY <1>0, <1>2, <2>3, <3>1, <4>3, <4>4, ThreadDrains DEF Serving, Calling
    <3> QED
      BY <3>2, <3>3
  <2>7. CASE LeaveWork(e)
    <3>0. \E pc \in {"finish", "fail"} : \E err :
            /\ executor' = [executor EXCEPT ![e].pc = pc, ![e].err = err]
            /\ err = "none" => \/ executor[e].generation # work.generation
                               \/ executor[e].err = "none"
      BY <2>1, <2>2, <2>7 DEF LeaveWork
    <3>1. PICK pc \in {"finish", "fail"} : \E err :
            /\ executor' = [executor EXCEPT ![e].pc = pc, ![e].err = err]
            /\ err = "none" => \/ executor[e].generation # work.generation
                               \/ executor[e].err = "none"
      BY <3>0
    <3>2. PICK err :
            /\ executor' = [executor EXCEPT ![e].pc = pc, ![e].err = err]
            /\ err = "none" => \/ executor[e].generation # work.generation
                               \/ executor[e].err = "none"
      BY <3>1
    <3>3. err = "none" => Drains(e)
      BY <2>7, <3>2 DEF LeaveWork, Drains
    <3> QED
      BY <1>0, <1>2, <3>1, <3>2, <3>3, FinishDrains
  <2>8. CASE ConfirmStopped(e)
    <3>1. executor' = [executor EXCEPT ![e].pc = "finish", ![e].err = "none"] /\ Drains(e)
      BY <2>8 DEF ConfirmStopped, Drains
    <3> QED
      BY <1>0, <1>2, <3>1, FinishDrains
  <2>9. CASE FailWork(e)
    <3>1. ~HoldsLease(executor[e].generation)
      <4>1. ~(work' = [work EXCEPT !.status = "failed", !.stage = ""])
        BY <1>0, <1>4 DEF Works
      <4> QED
        BY <2>2, <2>9, <4>1 DEF FailWork
    <3>2. executor' = [executor EXCEPT ![e].pc = "finish", ![e].err = "aborted"]
      BY <2>9, <3>1 DEF FailWork
    <3>3. "aborted" # "none" /\ "finish" \in {"finish", "fail"}
      OBVIOUS
    <3> QED
      BY <1>0, <1>2, <3>2, <3>3, FinishDrains
  <2> QED
    BY <2>4, <2>5, <2>6, <2>7, <2>8, <2>9
<1> QED
  BY <1>0, <1>1, <1>3, <1>4, KeptStep

(* The one that claims an item of a running run holds it under the new      *)
(* generation, for which no decision is open yet.                           *)
LEMMA ClaimPursues ==
  ASSUME TypeInv, PursueInv, NEW e \in Executors, ClaimItem(e)
  PROVE  PursueInv'
<1>0. work \in Works /\ work.generation \in Nat /\ RowsTyped /\ ThreadsTyped
      /\ \A c \in 1 .. Calls : action[c].generation \in Nat
  BY DEF TypeInv, RowsTyped, Works, Rows
<1>1. action' = action /\ executor[e].pc = "idle"
  BY DEF ClaimItem
<1>2. CASE work.status \notin {"running", "stopping"}
  <2>1. work' = work
    BY <1>2 DEF ClaimItem
  <2> QED
    BY <1>0, <1>1, <1>2, <2>1 DEF PursueInv, RowsBehind, Pursued, PendingWoken, OpenDecision
<1>3. CASE work.status \in {"running", "stopping"}
  <2>1. PICK i \in DOMAIN items :
          /\ ~items[i].done
          /\ work'.generation = work.generation + 1
          /\ items' = [items EXCEPT ![i].holder = e, ![i].live = TRUE,
                                    ![i].generation = work.generation + 1]
          /\ executor' = [executor EXCEPT ![e] = [AtRest EXCEPT !.pc = "enter",
                                !.item = i, !.generation = work.generation + 1]]
    BY <1>0, <1>3 DEF ClaimItem, Works
  <2>2. RowsBehind' /\ \A c \in 1 .. Calls : ~OpenDecision(c)'
    <3>1. \A c \in 1 .. Calls : action[c].generation <= work.generation
      BY DEF PursueInv, RowsBehind
    <3>2. \A c \in 1 .. Calls : /\ action'[c].generation <= work'.generation
                                /\ action'[c].generation # work'.generation
      BY <1>0, <1>1, <2>1, <3>1
    <3> QED
      BY <3>2 DEF RowsBehind, OpenDecision
  <2>3. Secured(i)'
    <3>1. ~items'[i].done /\ items'[i].holder = e
      <4> DEFINE row == [items[i] EXCEPT !.holder = e, !.live = TRUE,
                                         !.generation = work.generation + 1]
      <4>1. items'[i] = row
        BY <2>1
      <4>2. items[i] \in ActionItems
        BY <1>0 DEF RowsTyped
      <4> QED
        BY <2>1, <4>1, <4>2 DEF ActionItems
    <3>2. executor'[e].pc = "enter"
      <4> DEFINE t(r) == [r EXCEPT !.pc = "enter", !.item = i,
                                   !.generation = work.generation + 1]
      <4>1. executor'[e] = t(AtRest)
        BY <1>0, <2>1 DEF ThreadsTyped
      <4>2. \A r \in Threads : t(r).pc = "enter"
        BY DEF Threads
      <4> HIDE DEF t
      <4> QED
        BY <4>1, <4>2, AtRestTyped
    <3>3. ~Drains(e)'
      BY <3>2 DEF Drains, Serving, Calling
    <3> QED
      BY <3>1, <3>3 DEF Secured
  <2>4. i \in DOMAIN items'
    BY <2>1
  <2> QED
    BY <2>2, <2>3, <2>4 DEF PursueInv, Pursued, PendingWoken
<1> QED
  BY <1>2, <1>3

(* A holder that gives its item back without having drained it leaves it    *)
(* for the next; one that is no longer the holder leaves it alone.          *)
LEMMA ReleasePursues ==
  ASSUME TypeInv, PursueInv, NEW e \in Executors, ReleaseItem(e)
  PROVE  PursueInv'
<1> DEFINE j == executor[e].item
<1>0. RowsTyped /\ ThreadsTyped /\ j \in DOMAIN items /\ executor[e].pc = "finish"
  BY DEF TypeInv, ThreadsTyped, ReleaseItem
<1>1. UNCHANGED <<work, action>>
  BY DEF ReleaseItem
<1>2. executor'[e].pc = "idle" /\ \A f \in Executors \ {e} : executor'[f] = executor[f]
  BY <1>0, AtRestTyped DEF ReleaseItem, ThreadsTyped
<1>3. /\ DOMAIN items' = DOMAIN items
      /\ \A i \in DOMAIN items \ {j} : items'[i] = items[i]
      /\ items[j].holder # e => items'[j] = items[j]
      /\ items[j].holder = e
           => items'[j].holder = 0 /\ (executor[e].err # "none" => ~items'[j].done)
  <2>1. CASE items[j].holder # e
    BY <2>1 DEF ReleaseItem
  <2>2. CASE items[j].holder = e
    <3> DEFINE t(r) == [r EXCEPT !.generation = items[j].generation,
                                 !.done = (executor[e].err = "none")]
    <3>1. items' = [items EXCEPT ![j] = t(NewWake)]
      BY <2>2 DEF ReleaseItem
    <3>2. t(NewWake).holder = 0 /\ t(NewWake).done = (executor[e].err = "none")
      BY DEF NewWake
    <3> HIDE DEF t
    <3> QED
      BY <1>0, <2>2, <3>1, <3>2
  <2> QED
    BY <2>1, <2>2
<1>4. \A f \in Executors : Drains(f)' => f # e /\ Drains(f) /\ executor'[f] = executor[f]
  BY <1>1, <1>2 DEF Drains, Serving, Calling
<1>5. Pursued'
  <2> SUFFICES ASSUME work.status = "running" PROVE \E i \in DOMAIN items' : Secured(i)'
    BY <1>1 DEF Pursued
  <2>1. PICK i \in DOMAIN items : Secured(i)
    BY DEF PursueInv, Pursued
  <2>2. CASE i = j /\ items[j].holder = e
    <3>1. executor[e].err # "none"
      BY <1>0, <2>1, <2>2 DEF Secured, Drains
    <3>2. 0 \notin Executors
      BY DEF Executors
    <3> QED
      BY <1>0, <1>3, <2>2, <3>1, <3>2 DEF Secured
  <2>3. CASE ~(i = j /\ items[j].holder = e)
    <3>1. items'[i] = items[i]
      BY <1>3, <2>3
    <3> QED
      BY <1>3, <1>4, <2>1, <3>1 DEF Secured
  <2> QED
    BY <2>2, <2>3
<1>6. PendingWoken'
  <2> SUFFICES ASSUME NEW c \in 1 .. Calls, OpenDecision(c)
               PROVE  \E i \in DOMAIN items' : Free(i)'
    BY <1>1 DEF PendingWoken, OpenDecision
  <2>1. PICK i \in DOMAIN items : Free(i)
    BY DEF PursueInv, PendingWoken
  <2>2. 0 \notin Executors
    BY DEF Executors
  <2>3. items'[i] = items[i]
    BY <1>3, <2>1, <2>2 DEF Free
  <2> QED
    BY <1>3, <2>1, <2>3 DEF Free
<1>7. RowsBehind'
  BY <1>1 DEF PursueInv, RowsBehind
<1> QED
  BY <1>5, <1>6, <1>7 DEF PursueInv

(* What the steps of a call leave of the open decisions: a new one parks    *)
(* the run, and the row of an old one stays what it was.                    *)
LEMMA CallAsks ==
  ASSUME TypeInv, NEW e \in Executors,
         \/ PrepareAction(e) \/ ClaimAction(e) \/ CheckBeforeCall(e) \/ CallTool(e)
         \/ RecordOutcome(e) \/ PairResult(e)
  PROVE  /\ work'.generation = work.generation
         /\ work'.status = "running" => work' = work /\ NoneAsks
         /\ RowsFollow
<1> DEFINE c == executor[e].call
<1>0. /\ c \in 1 .. Calls /\ work \in Works /\ action \in [1 .. Calls -> Rows]
      /\ Rebound(c) \in Rows /\ work.generation \in Nat /\ NewAction(c) \in Rows
  <2>1. c \in 1 .. Calls /\ work \in Works /\ action \in [1 .. Calls -> Rows]
    BY DEF TypeInv, ThreadsTyped, RowsTyped, PrepareAction, ClaimAction, CheckBeforeCall,
           CallTool, RecordOutcome, PairResult, Calling
  <2> QED
    BY <2>1, ReboundTyped, NewActionTyped DEF TypeInv, Works
<1>1. /\ work'.generation = work.generation
      /\ work'.status = "running" => work' = work
  <2>1. work' \in {work, ParkUnknown(work), ParkPending(work)}
    BY DEF PrepareAction, ClaimAction, CheckBeforeCall, CallTool, RecordOutcome, PairResult,
           WorkOnRebind
  <2> QED
    BY <1>0, <2>1 DEF ParkUnknown, ParkPending, Ended, Works
<1>2. /\ Rebound(c).generation = work.generation
      /\ Rebound(c).status = "pending" => action[c].status = "pending"
      /\ NewAction(c).generation = work.generation
  <2>1. action[c] \in Rows
    BY <1>0
  <2> QED
    BY <1>0, <2>1 DEF Rebound, NewAction, Absent, Rows
<1>3. \A st : \A r \in Rows : /\ [r EXCEPT !.status = st].status = st
                              /\ [r EXCEPT !.status = st].generation = r.generation
  BY DEF Rows
<1>4. ASSUME NEW d \in 1 .. Calls
      PROVE  /\ \/ action'[d].generation = action[d].generation
                \/ action'[d].generation = work.generation
             /\ OpenDecision(d)' => OpenDecision(d)
  <2>1. CASE action'[d] = action[d]
    BY <1>1, <2>1 DEF OpenDecision
  <2>2. CASE action'[d] # action[d]
    <3>1. d = c /\ (PrepareAction(e) \/ ClaimAction(e) \/ RecordOutcome(e))
      BY <1>0, <2>2 DEF PrepareAction, ClaimAction, CheckBeforeCall, CallTool,
                        RecordOutcome, PairResult
    <3>2. CASE PrepareAction(e)
      <4>1. CASE action'[c] = Rebound(c) /\ work' = WorkOnRebind(c)
        <5>1. ParkPending(work).status # "running"
          BY <1>0, Parked DEF Halted
        <5> QED
          BY <1>1, <1>2, <3>1, <4>1, <5>1 DEF OpenDecision, WorkOnRebind
      <4>2. CASE /\ action'[c] = NewAction(c)
                 /\ NewAction(c).status = "pending" => work' = ParkPending(work)
        <5>1. ParkPending(work).status # "running"
          BY <1>0, Parked DEF Halted
        <5> QED
          BY <1>1, <1>2, <3>1, <4>2, <5>1 DEF OpenDecision
      <4> QED
        BY <1>0, <2>2, <3>1, <3>2, <4>1, <4>2 DEF PrepareAction
    <3>3. CASE ClaimAction(e)
      <4>1. \/ action'[c] = Rebound(c) /\ Answered(Rebound(c))
            \/ action'[c] = [Rebound(c) EXCEPT !.status = "executing"]
        BY <1>0, <2>2, <3>1, <3>3 DEF ClaimAction
      <4>2. action'[c].generation = work.generation /\ action'[c].status # "pending"
        <5>1. CASE action'[c] = Rebound(c) /\ Answered(Rebound(c))
          BY <1>2, <5>1 DEF Answered
        <5>2. CASE action'[c] = [Rebound(c) EXCEPT !.status = "executing"]
          BY <1>0, <1>2, <1>3, <5>2
        <5> QED
          BY <4>1, <5>1, <5>2
      <4> QED
        BY <3>1, <4>2 DEF OpenDecision
    <3>4. CASE RecordOutcome(e)
      <4>1. \E st \in {"succeeded", "failed", "unknown"} :
               action'[c] = [action[c] EXCEPT !.status = st]
        BY <1>0, <2>2, <3>1, <3>4 DEF RecordOutcome
      <4>2. action'[c].generation = action[c].generation /\ action'[c].status # "pending"
        <5>1. action[c] \in Rows
          BY <1>0
        <5> QED
          BY <1>3, <4>1, <5>1
      <4> QED
        BY <3>1, <4>2 DEF OpenDecision
    <3> QED
      BY <3>1, <3>2, <3>3, <3>4
  <2> QED
    BY <2>1, <2>2
<1>5. RowsFollow
  BY <1>0, <1>1, <1>4 DEF RowsFollow
<1> QED
  BY <1>1, <1>4, <1>5 DEF NoneAsks

(* The steps of a call drain no item but one: a call whose decision is open *)
(* leaves without an error, and then a free item is there.                  *)
LEMMA CallPursues ==
  ASSUME TypeInv, PursueInv, NEW e \in Executors,
         \/ PrepareAction(e) \/ ClaimAction(e) \/ CheckBeforeCall(e) \/ CallTool(e)
         \/ RecordOutcome(e) \/ PairResult(e)
  PROVE  PursueInv'
<1> DEFINE c == executor[e].call
<1>0. RowsTyped /\ ThreadsTyped /\ c \in 1 .. Calls /\ executor[e].pc \in Serving
  BY DEF TypeInv, ThreadsTyped, PrepareAction, ClaimAction, CheckBeforeCall, CallTool,
         RecordOutcome, PairResult, Calling, Serving
<1>1. /\ work'.generation = work.generation /\ RowsFollow
      /\ work'.status = "running" => work' = work /\ NoneAsks
  BY CallAsks
<1>2. items' = items
  BY DEF PrepareAction, ClaimAction, CheckBeforeCall, CallTool, RecordOutcome, PairResult
<1>3. executor[e].generation # work.generation => Drains(e)
  BY <1>0 DEF Drains
<1>4. CASE \/ \E err \in {"aborted", "failed"} : Leave(e, err)
           \/ \E failed : \E pc \in Serving :
                \/ StepTo(e, pc)
                \/ executor' = [executor EXCEPT ![e].pc = pc, ![e].failed = failed]
  <2>1. NoneDrains
    <3>1. CASE \E err \in {"aborted", "failed"} : Leave(e, err)
      <4>1. PICK err \in {"aborted", "failed"} : Leave(e, err)
        BY <3>1
      <4>2. err # "none"
        OBVIOUS
      <4> QED
        BY <1>0, <1>1, <1>3, <4>1, <4>2, LeaveDrains
    <3>2. CASE ~\E err \in {"aborted", "failed"} : Leave(e, err)
      BY <1>0, <1>1, <1>3, <1>4, <3>2, GoDrains
    <3> QED
      BY <3>1, <3>2
  <2> QED
    BY <1>0, <1>1, <1>2, <2>1, KeptStep
<1>5. CASE PrepareAction(e) /\ Leave(e, "none")
  <2>1. RowsBehind'
    BY <1>0, <1>1, FollowStep DEF PursueInv
  <2>2. ASSUME work'.status = "running"
        PROVE  OpenDecision(c)
    <3>1. \/ /\ Rebound(c).status = "pending" /\ work' = WorkOnRebind(c)
          \/ work' = ParkPending(work)
      <4>1. "none" # "aborted" /\ "none" # "failed"
        OBVIOUS
      <4>2. ASSUME NEW err, err # "none" PROVE ~Leave(e, err)
        <5> DEFINE t(r, x) == [r EXCEPT !.pc = "post", !.err = x, !.item = executor[e].item,
                                        !.generation = executor[e].generation]
        <5>1. \A x : \A r \in Threads : t(r, x).err = x
          BY DEF Threads
        <5>2. executor' = [executor EXCEPT ![e] = t(AtRest, "none")]
          BY <1>5 DEF Leave
        <5>3. Leave(e, err) => executor' = [executor EXCEPT ![e] = t(AtRest, err)]
          BY DEF Leave
        <5> HIDE DEF t
        <5> QED
          BY <1>0, <4>2, <5>1, <5>2, <5>3, AtRestTyped DEF ThreadsTyped
      <4>3. ~StepTo(e, "claim")
        <5> DEFINE t(r) == [r EXCEPT !.pc = "post", !.err = "none",
                              !.item = executor[e].item, !.generation = executor[e].generation]
                   u == [executor[e] EXCEPT !.pc = "claim"]
        <5>1. \A r \in Threads : t(r).pc = "post"
          BY DEF Threads
        <5>2. executor' = [executor EXCEPT ![e] = t(AtRest)]
          BY <1>5 DEF Leave
        <5>3. StepTo(e, "claim") => executor' = [executor EXCEPT ![e] = u]
          BY DEF StepTo
        <5>4. u.pc = "claim"
          BY <1>0 DEF ThreadsTyped, Threads
        <5> HIDE DEF t, u
        <5> QED
          BY <1>0, <5>1, <5>2, <5>3, <5>4, AtRestTyped DEF ThreadsTyped
      <4> QED
        BY <1>5, <4>1, <4>2, <4>3 DEF PrepareAction
    <3>2. work \in Works /\ action[c] \in Rows
      BY <1>0 DEF RowsTyped
    <3>3. ParkPending(work).status # "running"
      BY <3>2, Parked DEF Halted
    <3>4. Rebound(c).status = "pending" => action[c].status = "pending"
      BY <3>2 DEF Rebound, Rows
    <3> QED
      BY <1>1, <2>2, <3>1, <3>3, <3>4 DEF OpenDecision, WorkOnRebind
  <2>3. ASSUME work'.status = "running"
        PROVE  \E i \in DOMAIN items' : Free(i)'
    BY <1>0, <1>2, <2>2, <2>3 DEF PursueInv, PendingWoken, Free
  <2>4. Pursued'
    <3> SUFFICES ASSUME work'.status = "running"
                 PROVE  \E i \in DOMAIN items' : Secured(i)'
      BY DEF Pursued
    <3>1. PICK i \in DOMAIN items' : Free(i)'
      BY <2>3
    <3>2. 0 \notin Executors
      BY DEF Executors
    <3> QED
      BY <3>1, <3>2 DEF Free, Secured
  <2>5. PendingWoken'
    BY <2>3 DEF PendingWoken, OpenDecision
  <2> QED
    BY <2>1, <2>4, <2>5 DEF PursueInv
<1> QED
  <2>1. \A g : Refused(g) \in {"aborted", "failed"}
    BY DEF Refused
  <2>2. CASE PrepareAction(e) \/ ClaimAction(e) \/ RecordOutcome(e)
    BY <1>4, <1>5, <2>2 DEF PrepareAction, ClaimAction, RecordOutcome, PairAs, Serving,
                            Calling
  <2>3. CASE CallTool(e) \/ PairResult(e)
    BY <1>4, <2>1, <2>3 DEF CallTool, PairResult, Serving, Calling
  <2>4. CASE CheckBeforeCall(e)
    <3>1. executor' = [executor EXCEPT ![e].pc = IF Permitted(e) THEN "call" ELSE "receipt",
                                       ![e].failed = ~Permitted(e)]
      BY <2>4 DEF CheckBeforeCall
    <3>2. CASE Permitted(e)
      BY <1>4, <3>1, <3>2 DEF Serving, Calling
    <3>3. CASE ~Permitted(e)
      BY <1>4, <3>1, <3>3 DEF Serving, Calling
    <3> QED
      BY <3>2, <3>3
  <2> QED
    BY <2>2, <2>3, <2>4

(* A decision, a resume and a takeover of a parked run wake an executor in  *)
(* their own transaction; the other commands do not set a run going.        *)
LEMMA CommandsPursue ==
  ASSUME TypeInv, PursueInv, UserCommand
  PROVE  PursueInv'
<1>0. RowsTyped /\ work \in Works /\ work.generation \in Nat
      /\ work.generation + 1 \in Nat /\ action \in [1 .. Calls -> Rows]
  BY CountersTyped DEF TypeInv, RowsTyped
<1>1. executor' = executor
  BY DEF UserCommand, DecideAction, GrantPermission, RevokePermission, StopWork, AddInput,
         ResumeWork, TakeOverWork
<1>2. ASSUME NEW c \in 1 .. Calls
      PROVE  /\ action'[c].generation = action[c].generation
             /\ action'[c].status = "pending" => action[c].status = "pending"
  <2>1. CASE action' = action
    BY <2>1
  <2>2. CASE action' # action
    <3>1. PICK d \in 1 .. Calls, op \in DOMAIN Decisions : DecideAction(d, op)
      BY <2>2 DEF UserCommand, GrantPermission, RevokePermission, StopWork, AddInput,
                  ResumeWork, TakeOverWork
    <3> DEFINE row == [action[d] EXCEPT !.status = Decisions[op], !.approver = owner,
                                        !.refused = op # "approve"]
    <3>2. action' = [action EXCEPT ![d] = row]
      BY <3>1 DEF DecideAction
    <3>3. row.generation = action[d].generation /\ row.status = Decisions[op]
      BY <1>0 DEF Rows
    <3>4. Decisions[op] # "pending"
      BY DEF Decisions
    <3> HIDE DEF row
    <3> QED
      BY <1>0, <3>2, <3>3, <3>4
  <2> QED
    BY <2>1, <2>2
<1>3. /\ RowsFollow
      /\ \/ items' = WakeExecutor
         \/ /\ items' = items /\ work'.generation = work.generation
            /\ work'.status = "running" => work.status = "running"
  <2>1. /\ work'.generation \in {work.generation, work.generation + 1}
        /\ \/ items' = WakeExecutor
           \/ /\ items' = items /\ work'.generation = work.generation
              /\ work'.status = "running" => work.status = "running"
    <3>1. CASE \E c \in 1 .. Calls, op \in DOMAIN Decisions : DecideAction(c, op)
      BY <1>0, <3>1 DEF DecideAction, Works
    <3>2. CASE StopWork
      BY <1>0, <3>2 DEF StopWork, Works
    <3>3. CASE AddInput
      BY <1>0, <3>3 DEF AddInput, Works
    <3>4. CASE ResumeWork
      BY <1>0, <3>4 DEF ResumeWork, Works
    <3>5. CASE TakeOverWork
      BY <1>0, <3>5 DEF TakeOverWork, Ended, Works
    <3>6. CASE GrantPermission \/ RevokePermission
      BY <3>6 DEF GrantPermission, RevokePermission
    <3> QED
      BY <3>1, <3>2, <3>3, <3>4, <3>5, <3>6 DEF UserCommand
  <2>2. RowsFollow
    BY <1>0, <1>2, <2>1 DEF RowsFollow
  <2> QED
    BY <2>1, <2>2
<1>4. CASE items' = WakeExecutor
  BY <1>0, <1>3, <1>4, WokenStep
<1>5. CASE /\ items' = items /\ work'.generation = work.generation
           /\ work'.status = "running" => work.status = "running"
  <2>1. NoneDrains
    BY <1>1, <1>5 DEF NoneDrains, Drains
  <2>2. work'.status = "running" => NoneAsks
    BY <1>2, <1>5 DEF NoneAsks, OpenDecision
  <2> QED
    BY <1>0, <1>3, <1>5, <2>1, <2>2, KeptStep
<1> QED
  BY <1>3, <1>4, <1>5

(* Crashes and stalls leave the item to the next; recovery and the monitor  *)
(* set no run going.                                                        *)
LEMMA EnvironmentPursues ==
  ASSUME TypeInv, PursueInv, EnvironmentStep
  PROVE  PursueInv'
<1>0. RowsTyped /\ ThreadsTyped /\ work \in Works /\ work.generation \in Nat
      /\ work.generation + 1 \in Nat /\ action \in [1 .. Calls -> Rows]
  BY CountersTyped DEF TypeInv, RowsTyped
<1>1. /\ work'.generation \in {work.generation, work.generation + 1}
      /\ work'.status = "running"
           => work.status = "running" /\ work'.generation = work.generation
  <2>1. \/ work' = work \/ work' = ParkUnknown(work)
        \/ work' = [work EXCEPT !.holding = "lost"]
        \/ work' = [work EXCEPT !.member = FALSE]
        \/ work' = [work EXCEPT !.status = "waiting_authorization",
                      !.stage = "awaiting_takeover", !.generation = work.generation + 1]
    BY DEF EnvironmentStep, ReconcileActions, RecoverActions, WorkAfterRecovery, MarkLost,
           SuspendForTakeover, ExecutorCrashes, ReceiptFails, OwnerChanges,
           ControllerLeaves, TimePasses, ItemExpires, HolderStalls
  <2> QED
    BY <1>0, <2>1 DEF ParkUnknown, Works
<1>2. ASSUME NEW c \in 1 .. Calls
      PROVE  /\ action'[c].generation = action[c].generation
             /\ action'[c].status = "pending" => action[c].status = "pending"
  <2>1. \/ action'[c] = action[c]
        \/ action'[c] = [action[c] EXCEPT !.late = TRUE]
        \/ \E st \in {"approved", "unknown"} :
             action'[c] = [action[c] EXCEPT !.status = st]
    <3>1. CASE RecoverActions
      BY <3>1 DEF RecoverActions, ActionsAfterRecovery, Recovered
    <3>2. CASE TimePasses
      BY <1>0, <3>2 DEF TimePasses
    <3>3. CASE ~RecoverActions /\ ~TimePasses
      BY <3>3 DEF EnvironmentStep, ReconcileActions, MarkLost, SuspendForTakeover,
             ExecutorCrashes, ReceiptFails, OwnerChanges, ControllerLeaves, ItemExpires,
             HolderStalls
    <3> QED
      BY <3>1, <3>2, <3>3
  <2>2. action[c] \in Rows
    BY <1>0
  <2> QED
    BY <2>1, <2>2 DEF Rows
<1>3. RowsFollow
  BY <1>0, <1>1, <1>2 DEF RowsFollow
<1>4. work'.status = "running" => NoneAsks
  BY <1>1, <1>2 DEF NoneAsks, OpenDecision
<1>5. CASE \E i \in DOMAIN items : ItemExpires(i) \/ HolderStalls(i)
  <2>1. PICK i \in DOMAIN items : Expired(i)
    BY <1>5 DEF ItemExpires, HolderStalls
  <2>2. UNCHANGED <<work, action, executor>>
    BY <1>5 DEF ItemExpires, HolderStalls
  <2>3. DOMAIN items' = DOMAIN items /\ \A j \in DOMAIN items :
          items'[j].done = items[j].done /\ items'[j].holder = items[j].holder
    <3> DEFINE row == [items[i] EXCEPT !.live = FALSE]
    <3>1. items' = [items EXCEPT ![i] = row]
      BY <2>1 DEF Expired
    <3>2. row.done = items[i].done /\ row.holder = items[i].holder
      <4>1. items[i] \in ActionItems
        BY <1>0 DEF RowsTyped
      <4> QED
        BY <4>1 DEF ActionItems
    <3> HIDE DEF row
    <3> QED
      BY <3>1, <3>2
  <2>4. \A j \in DOMAIN items : /\ Secured(j) => Secured(j)'
                                /\ Free(j) => Free(j)'
    BY <2>2, <2>3 DEF Secured, Free, Drains
  <2>5. Pursued' /\ PendingWoken'
    BY <2>2, <2>3, <2>4 DEF PursueInv, Pursued, PendingWoken, OpenDecision
  <2> QED
    BY <2>2, <2>5 DEF PursueInv, RowsBehind
<1>6. CASE ~\E i \in DOMAIN items : ItemExpires(i) \/ HolderStalls(i)
  <2>1. items' = items
    BY <1>6 DEF EnvironmentStep, ReconcileActions, RecoverActions, MarkLost,
           SuspendForTakeover, ExecutorCrashes, ReceiptFails, OwnerChanges,
           ControllerLeaves, TimePasses
  <2>2. work'.status = "running" => NoneDrains
    <3> SUFFICES ASSUME work'.generation = work.generation PROVE NoneDrains
      BY <1>1
    <3>1. CASE \E e \in Executors : ExecutorCrashes(e)
      <4>1. PICK e \in Executors : ExecutorCrashes(e)
        BY <3>1
      <4>2. executor' = [executor EXCEPT ![e] = AtRest]
        BY <4>1 DEF ExecutorCrashes
      <4> QED
        BY <1>0, <4>2, AtRestTyped, ThreadDrains
    <3>2. CASE \E e \in Executors : ReceiptFails(e)
      <4>1. PICK e \in Executors : ReceiptFails(e)
        BY <3>2
      <4>2. Leave(e, "failed") /\ "failed" # "none"
            /\ (executor[e].generation # work.generation => Drains(e))
        BY <4>1 DEF ReceiptFails, Drains, Serving, Calling
      <4> QED
        BY <1>0, <4>2, LeaveDrains
    <3>3. CASE executor' = executor
      BY <3>3 DEF NoneDrains, Drains
    <3> QED
      BY <1>6, <3>1, <3>2, <3>3 DEF EnvironmentStep, ReconcileActions, RecoverActions,
         MarkLost, SuspendForTakeover, OwnerChanges, ControllerLeaves, TimePasses
  <2> QED
    BY <1>0, <1>1, <1>3, <1>4, <2>1, <2>2, KeptStep
<1> QED
  BY <1>5, <1>6

(* The invariant of the pursuit is inductive. *)
LEMMA PursueNext == TypeInv /\ PursueInv /\ [ActionsNext]_actionVars => PursueInv'
<1> SUFFICES ASSUME TypeInv, PursueInv, [ActionsNext]_actionVars PROVE PursueInv'
  OBVIOUS
<1>1. CASE \E e \in Executors : ExecutorStep(e)
  BY <1>1, FramePursues, ClaimPursues, ReleasePursues, CallPursues DEF ExecutorStep
<1>2. CASE UserCommand
  BY <1>2, CommandsPursue
<1>3. CASE EnvironmentStep
  BY <1>3, EnvironmentPursues
<1>4. CASE UNCHANGED actionVars
  BY <1>4 DEF actionVars, PursueInv, RowsBehind, Pursued, PendingWoken, OpenDecision,
              Secured, Free, Drains
<1> QED
  BY <1>1, <1>2, <1>3, <1>4 DEF ActionsNext, EnvironmentStep

(* A run that was just accepted has its first execute item. *)
LEMMA PursueInit == ActionsInit => PursueInv
<1> SUFFICES ASSUME ActionsInit PROVE PursueInv
  OBVIOUS
<1>1. \A c \in 1 .. Calls : action[c].status = "absent" /\ action[c].generation = 0
  BY DEF ActionsInit, Absent
<1>2. work.generation = 0
  BY DEF ActionsInit
<1>3. 1 \in DOMAIN items /\ items[1] = NewWake /\ 0 \notin Executors
  <2>1. items = <<NewWake>>
    BY DEF ActionsInit
  <2>2. 0 \notin Executors
    BY DEF Executors
  <2> QED
    BY <2>1, <2>2
<1>4. Secured(1)
  BY <1>3 DEF Secured, NewWake
<1> QED
  BY <1>1, <1>2, <1>3, <1>4 DEF PursueInv, RowsBehind, Pursued, PendingWoken, OpenDecision

(* An approved action is never forgotten: no executor, whichever decision,  *)
(* crash or takeover overtook it, drains the last item of a running run     *)
(* (execute, RunRepo.Claim, actionDecision).                                *)
THEOREM ApprovalsPursued == ActionsSpec => []ApprovedIsPursued
<1>1. ActionsSpec => []TypeInv
  BY TypeInit, TypeNext, PTL DEF ActionsSpec
<1>2. ActionsSpec => []PursueInv
  BY <1>1, PursueInit, PursueNext, PTL DEF ActionsSpec
<1>3. PursueInv => ApprovedIsPursued
  BY DEF PursueInv, Pursued, Secured, ApprovedIsPursued
<1> QED
  BY <1>2, <1>3, PTL

=============================================================================
