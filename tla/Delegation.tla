----------------------------- MODULE Delegation -----------------------------
(***************************************************************************)
(* A tree of runs: a bot's run delegates work to other bots, whose runs    *)
(* may delegate further.  The tree shares one budget, no chain repeats a   *)
(* bot, and a user's stop of a run reaches the runs below it.              *)
(*                                                                         *)
(* Every change of a run is one transaction under the advisory lock of its *)
(* tree.  Acceptance, reservation and stop decide from rows that they read *)
(* before they write, so they are two steps here: what they read, and what *)
(* they commit; one that refuses changes nothing and is not a step.  The   *)
(* other changes concern one row and are one step.                         *)
(***************************************************************************)
EXTENDS Naturals, FiniteSets, FiniteSetsExt

CONSTANTS Bots,
          External,      \* the bots that a third party's executor runs
          Unstoppable,   \* those of them whose executor cannot stop a run
          Sessions,      \* transactions at work at the same time
          RunCount,      \* bound: runs of the tree that may ever exist
          DepthLimit,    \* 3 in the code
          CountLimit,    \* 8 descendants in the code
          OutputLimit,   \* 16384 output tokens in the code, in units of a call
          MaxHalts,      \* bound: stops that users ask for
          MaxDepartures  \* bound: times a controller leaves

ASSUME DelegationAssumption ==
    /\ IsFiniteSet(Bots) /\ Bots /= {} /\ IsFiniteSet(Sessions)
    /\ Unstoppable \subseteq External /\ External \subseteq Bots
    /\ RunCount \in Nat \ {0}
    /\ {DepthLimit, CountLimit, OutputLimit, MaxHalts, MaxDepartures} \subseteq Nat

VARIABLES tree,      \* the rows of bot.runs; row 1 is the root
          barrier,   \* who holds the advisory lock of a tree
          session,   \* the transactions
          halted,    \* history: the runs a user has stopped
          resumed,   \* history: the runs a user has taken over
          occasions  \* what is left of the two bounds

treeVars == <<tree, barrier, session, halted, resumed, occasions>>

-----------------------------------------------------------------------------
(* Values *)

Members == 1 .. RunCount

Builtin(r) == tree[r].bot \notin External
SupportsStop(r) == tree[r].bot \notin Unstoppable

(* "running" stands for accepted, running and waiting_input; "completed"   *)
(* for a run whose executor is done and whose output is not published;     *)
(* "waiting" for waiting_authorization; "ended" for succeeded and failed.  *)
EndedStates == {"ended", "stopped"}
TreeRuns == [status: {"none", "running", "completed", "waiting", "stopping"} \cup EndedStates,
             stop: {"none", "requested", "rejected", "confirmed"},
             asked: BOOLEAN, bot: Bots,
             parent: 0 .. RunCount, depth: Nat, output: Nat, called: BOOLEAN]

Transactions == [op: {"none", "accept", "reserve", "stop"}, run: Members, bot: Bots,
                 below: SUBSET Members]

DelegationTypeOK ==
    /\ tree \in [Members -> TreeRuns]
    /\ barrier \in [Members -> SUBSET Sessions]
    /\ session \in [Sessions -> Transactions]
    /\ halted \subseteq Members /\ resumed \subseteq Members
    /\ occasions \in [halts: 0 .. MaxHalts, departures: 0 .. MaxDepartures]

Exists(r) == tree[r].status /= "none"
Children(r) == {c \in Members : Exists(c) /\ tree[c].parent = r}

(* A run with its ancestors, and the runs that have it as an ancestor.     *)
Chain[r \in Members] ==
    {r} \cup IF tree[r].parent \in 1 .. (r - 1) THEN Chain[tree[r].parent] ELSE {}
Below(r) == {d \in Members \ {r} : Exists(d) /\ r \in Chain[d]}

(* delegation_root_run_id; LockDelegationTree goes there from any run. *)
Root(r) == 1
Descendants(root) == {d \in Members \ {root} : Exists(d) /\ Root(d) = root}
Reserved(root) == MapThenSumSet(LAMBDA d : tree[d].output, Descendants(root))

NoTransaction == [op |-> "none", run |-> 1, bot |-> CHOOSE b \in Bots : TRUE,
                  below |-> {}]
NewRun(bot, parent, depth, output) ==
    [status |-> "running", stop |-> "none", asked |-> FALSE,
     bot |-> bot, parent |-> parent, depth |-> depth, output |-> output, called |-> FALSE]
NoRun == [NewRun(CHOOSE b \in Bots : TRUE, 0, 0, 0) EXCEPT !.status = "none"]

TreeInit ==
    /\ \E bot \in Bots :
          tree = [r \in Members |-> IF r = 1 THEN NewRun(bot, 0, 0, 0) ELSE NoRun]
    /\ barrier = [r \in Members |-> {}]
    /\ session = [s \in Sessions |-> NoTransaction]
    /\ halted = {} /\ resumed = {}
    /\ occasions = [halts |-> MaxHalts, departures |-> MaxDepartures]

-----------------------------------------------------------------------------
(* LockDelegationTree and the end of the transaction *)

(* Mutant: the lock of the run itself instead of its tree's. *)
OwnLock(r) == r
LockOf(r) == Root(r)

TreeFree(r) == barrier[LockOf(r)] = {}
Begins(s, r, transaction) ==
    /\ session[s].op = "none" /\ TreeFree(r)
    /\ barrier' = [barrier EXCEPT ![LockOf(r)] = {s}]
    /\ session' = [session EXCEPT ![s] = transaction]
Ends(s) ==
    /\ barrier' = [barrier EXCEPT ![LockOf(session[s].run)] = @ \ {s}]
    /\ session' = [session EXCEPT ![s] = NoTransaction]

Occasion(of) == occasions[of] > 0 /\ occasions' = [occasions EXCEPT ![of] = @ - 1]

(* A change of one row. *)
Changes(r, row) ==
    /\ TreeFree(r)
    /\ tree' = [tree EXCEPT ![r] = row]
    /\ UNCHANGED <<barrier, session, halted>>

-----------------------------------------------------------------------------
(* acceptDelegation *)

(* The source is at work and was not asked to stop, nor was the root. *)
SourceOpen(p) == tree[p].status = "running" /\ tree[p].stop = "none"
RootOpen(p) ==
    LET root == tree[Root(p)] IN
    root.status /= "stopping" /\ root.stop = "none" /\ ~root.asked
BudgetLeft(p) ==
    /\ tree[p].depth + 1 <= DepthLimit
    /\ Cardinality(Descendants(Root(p))) < CountLimit
    /\ Reserved(Root(p)) + 1 <= OutputLimit
MayDelegate(p, bot) ==
    /\ SourceOpen(p) /\ RootOpen(p)
    /\ \A a \in Chain[p] : tree[a].bot /= bot
    /\ BudgetLeft(p)

DelegateLooks(s, p, bot) ==
    /\ Exists(p) /\ MayDelegate(p, bot)
    /\ Begins(s, p, [NoTransaction EXCEPT !.op = "accept", !.run = p, !.bot = bot])
    /\ UNCHANGED <<tree, halted, resumed, occasions>>

(* The child reserves the output of its first call. *)
DelegateCommits(s) ==
    LET t == session[s] IN
    /\ t.op = "accept"
    /\ \E c \in Members :
          /\ ~Exists(c) /\ \A d \in 1 .. (c - 1) : Exists(d)
          /\ tree' = [tree EXCEPT ![c] = NewRun(t.bot, t.run, tree[t.run].depth + 1, 1)]
    /\ Ends(s)
    /\ UNCHANGED <<halted, resumed, occasions>>

(* ReserveDelegationOutput, before a call of the model; the first is paid. *)
ReserveLooks(s, r) ==
    /\ tree[r].status = "running" /\ r /= Root(r)
    /\ tree[r].called => Reserved(Root(r)) + 1 <= OutputLimit
    /\ Begins(s, r, [NoTransaction EXCEPT !.op = "reserve", !.run = r])
    /\ UNCHANGED <<tree, halted, resumed, occasions>>

ReserveCommits(s) ==
    LET t == session[s] IN
    /\ t.op = "reserve"
    /\ tree' = [tree EXCEPT ![t.run] =
                  [tree[t.run] EXCEPT !.called = TRUE,
                                      !.output = IF tree[t.run].called THEN @ + 1 ELSE @]]
    /\ Ends(s)
    /\ UNCHANGED <<halted, resumed, occasions>>

-----------------------------------------------------------------------------
(* Control "stop": requestDelegatedStops, then the run itself *)

(* requestRunStop.  A stop the executor was already asked for is not asked *)
(* again; only a stop from above makes a waiting run stop for it.          *)
Stopped(row, byUser) ==
    CASE row.status = "completed" -> row
      [] row.stop = "requested" ->
            IF byUser THEN row ELSE [row EXCEPT !.status = "stopping"]
      [] row.stop = "confirmed" -> [row EXCEPT !.status = "stopped"]
      [] OTHER -> [row EXCEPT !.status = "stopping", !.stop = "requested", !.asked = byUser]

StoppedFromAbove(r) ==
    IF tree[r].status \in EndedStates THEN tree[r]
    ELSE IF SupportsStop(r) THEN Stopped(tree[r], FALSE)
    ELSE [tree[r] EXCEPT !.stop = "rejected", !.asked = FALSE]
StoppedByUser(r) ==
    IF tree[r].status \in EndedStates THEN [tree[r] EXCEPT !.asked = TRUE]
    ELSE IF SupportsStop(r) THEN Stopped(tree[r], TRUE)
    ELSE [tree[r] EXCEPT !.stop = "rejected", !.asked = TRUE]

StopLooks(s, r) ==
    /\ Exists(r) /\ Occasion("halts")
    /\ Begins(s, r, [NoTransaction EXCEPT !.op = "stop", !.run = r, !.below = Below(r)])
    /\ UNCHANGED <<tree, halted, resumed>>

StopCommits(s) ==
    LET t == session[s] IN
    /\ t.op = "stop"
    /\ tree' = [r \in Members |->
                  IF r = t.run THEN StoppedByUser(r)
                  ELSE IF r \in t.below THEN StoppedFromAbove(r)
                  ELSE tree[r]]
    /\ halted' = halted \cup {t.run}
    /\ Ends(s)
    /\ UNCHANGED <<resumed, occasions>>

-----------------------------------------------------------------------------
(* The rest of a run's life *)

(* Completion is authoritative even when a stop was requested. *)
CompleteRun(r) ==
    /\ \/ tree[r].status = "running"
       \/ tree[r].status = "stopping" /\ ~Builtin(r)
    /\ Changes(r, [tree[r] EXCEPT !.status = "completed"])
    /\ UNCHANGED <<resumed, occasions>>

EndRun(r) ==
    /\ tree[r].status \in {"running", "completed"}
    /\ Changes(r, [tree[r] EXCEPT !.status = "ended"])
    /\ UNCHANGED <<resumed, occasions>>

(* A third party's executor may reject a stop; one that cannot stop may    *)
(* still turn out to have stopped.                                         *)
ConfirmStop(r) ==
    LET suspended == tree[r].status = "waiting" IN
    /\ tree[r].status \in {"stopping", "waiting", "running"}
    /\ tree[r].stop = "requested" \/ (tree[r].stop = "rejected" /\ ~Builtin(r))
    /\ Changes(r, [tree[r] EXCEPT !.stop = "confirmed",
                                  !.status = IF suspended THEN @ ELSE "stopped"])
    /\ UNCHANGED <<resumed, occasions>>

RejectStop(r) ==
    /\ tree[r].status \in {"stopping", "waiting"} /\ tree[r].stop = "requested"
    /\ ~Builtin(r)
    /\ Changes(r, [tree[r] EXCEPT !.stop = "rejected",
                                  !.status = IF @ = "waiting" THEN @ ELSE "running"])
    /\ UNCHANGED <<resumed, occasions>>

(* The controller leaves the conversation: the run waits, and a third      *)
(* party is asked to stop.                                                 *)
LoseController(r) ==
    /\ tree[r].status = "running" /\ Occasion("departures")
    /\ Changes(r, [tree[r] EXCEPT !.status = "waiting",
                     !.stop = IF Builtin(r) THEN @ ELSE "requested",
                     !.asked = Builtin(r) /\ @])
    /\ UNCHANGED resumed

TakeOver(r) ==
    /\ tree[r].status = "waiting"
    /\ Builtin(r) \/ tree[r].stop = "confirmed"
    /\ Changes(r, [tree[r] EXCEPT !.status = "running", !.stop = "none", !.asked = FALSE])
    /\ resumed' = resumed \cup {r}
    /\ UNCHANGED occasions

-----------------------------------------------------------------------------

TreeNext ==
    \/ \E s \in Sessions :
          \/ \E p \in Members, bot \in Bots : DelegateLooks(s, p, bot)
          \/ \E r \in Members : ReserveLooks(s, r) \/ StopLooks(s, r)
          \/ DelegateCommits(s) \/ ReserveCommits(s) \/ StopCommits(s)
    \/ \E r \in Members :
          \/ CompleteRun(r) \/ EndRun(r) \/ ConfirmStop(r) \/ RejectStop(r)
          \/ LoseController(r) \/ TakeOver(r)

DelegationSpec == TreeInit /\ [][TreeNext]_treeVars

-----------------------------------------------------------------------------
(* Properties *)

(* The limits hold for the tree as a whole, however its runs compete for   *)
(* what is left, and no bot ever waits for a run of its own.               *)
WithinBudget ==
    /\ Cardinality(Descendants(1)) <= CountLimit
    /\ Reserved(1) <= OutputLimit
    /\ \A r \in Members : Exists(r) =>
          /\ tree[r].depth <= DepthLimit
          /\ \A a, b \in Chain[r] : tree[a].bot = tree[b].bot => a = b

(* Below a run that a user has stopped nothing goes on that was not asked  *)
(* to stop as well, unless its output was already complete or somebody has *)
(* taken over, after it had stopped, the run it descends from.  In         *)
(* particular no child is accepted behind a stop.                          *)
StopReachesTree == \A r \in halted : \A d \in Below(r) :
    \/ tree[d].status \notin {"running", "waiting"}
    \/ tree[d].stop /= "none"
    \/ \E a \in Chain[d] : r \in Chain[a] /\ a \in resumed

(* A tree keeps to its budget and to the stops of its users.               *)
TreeHolds == WithinBudget /\ StopReachesTree
=============================================================================
