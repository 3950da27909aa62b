-------------------------- MODULE ThirdParty_proofs --------------------------
(***************************************************************************)
(* What holds of runs whose work is done elsewhere.  First a run of a      *)
(* third party's executor, for any number of generations, inputs, orders,  *)
(* updates and mishaps; then, from "A tree of delegated runs" on, a tree of *)
(* runs that bots delegate to each other, for any number of bots, runs and *)
(* transactions and any limits.                                            *)
(***************************************************************************)
EXTENDS ThirdParty, Delegation, FiniteSetTheorems, WellFoundedInduction, TLAPS

(* Types                                                                   *)

(* At most one update is under way, and every update that was accepted, or *)
(* may be, was paid for.                                                   *)
PostTyped ==
    /\ post = {} \/ \E u \in Updates : post = {u}
    /\ job.sequence + margin.reports <= MaxReports
    /\ post # {} => job.sequence + margin.reports < MaxReports

Typed ==
    /\ job \in Jobs /\ authority \in Authorities
    /\ errands \subseteq Errands /\ courier \subseteq Decided
    /\ contractor \in [Pieces -> Contractors]
    /\ handedOver \subseteq Pieces
    /\ margin \in [orders: 0 .. MaxOrders, reports: 0 .. MaxReports, mishaps: 0 .. MaxMishaps]
    /\ PostTyped

LEMMA TypedIsTyped == Typed => ThirdPartyTypeOK
<1> SUFFICES ASSUME Typed PROVE ThirdPartyTypeOK
  OBVIOUS
<1>1. post \subseteq Updates /\ Cardinality(post) <= 1
  <2>1. CASE post = {}
    BY <2>1, FS_EmptySet
  <2>2. CASE \E u \in Updates : post = {u}
    BY <2>2, FS_Singleton
  <2> QED
    BY <2>1, <2>2 DEF Typed, PostTyped
<1> QED
  BY <1>1 DEF Typed, ThirdPartyTypeOK

(* The bounds are numbers. *)
LEMMA Bounds ==
  /\ MaxGenerations \in Nat \ {0} /\ MaxInputs \in Nat \ {0}
  /\ MaxOrders \in Nat /\ MaxReports \in Nat /\ MaxMishaps \in Nat
  BY ThirdPartyAssumption

LEMMA Numbers ==
  ASSUME Typed
  PROVE  /\ job.generation \in Pieces /\ job.generation \in Nat
         /\ job.input \in Inputs /\ job.input \in Nat
         /\ job.sequence \in Nat /\ job.queued \in Nat /\ margin.reports \in Nat
         /\ job.control \in Orders /\ job.open \in BOOLEAN /\ job.acknowledged \in BOOLEAN
  BY Bounds DEF Typed, Jobs, Pieces, Inputs

LEMMA Paid ==
  ASSUME Typed, NEW bound \in {"orders", "mishaps"}, Uses(bound)
  PROVE  /\ margin' \in [orders: 0 .. MaxOrders, reports: 0 .. MaxReports,
                         mishaps: 0 .. MaxMishaps]
         /\ margin'.reports = margin.reports
  BY Bounds DEF Typed, Uses

(* An instruction is numbered. *)
LEMMA NumberedTyped ==
  ASSUME NEW j \in Jobs
  PROVE  /\ Numbered(j) \in Jobs /\ Numbered(j).queued = j.queued + 1
         /\ Numbered(j).generation = j.generation /\ Numbered(j).input = j.input
         /\ Numbered(j).control = j.control /\ Numbered(j).open = j.open
         /\ Numbered(j).acknowledged = j.acknowledged /\ Numbered(j).status = j.status
         /\ Numbered(j).executor = j.executor /\ Numbered(j).stop = j.stop
         /\ Numbered(j).sequence = j.sequence /\ Numbered(j).revoked = j.revoked
<1>1. j.queued \in Nat /\ j.queued + 1 \in Nat
  BY DEF Jobs
<1> QED
  BY <1>1 DEF Numbered, Jobs

(* What an instruction says. *)
LEMMA ErrandTyped ==
  ASSUME NEW j \in Jobs
  PROVE  /\ Errand(j) \in Errands /\ Errand(j).number = j.queued
         /\ Errand(j).generation = j.generation /\ Errand(j).input = j.input
         /\ Errand(j).order = j.control
  BY DEF Errand, Errands, Jobs

-----------------------------------------------------------------------------
(* Why the executor is told                                                *)
(*                                                                         *)
(* The instruction that counts is the newest: what was queued before it    *)
(* has a smaller number, and it says what the row says.  A delivery is     *)
(* dropped for good only after a look at the row; what it saw then stays   *)
(* so until there is a newer instruction.  While a run is open no stop was *)
(* delivered in its generation, so the version that the executor cites is  *)
(* the last one it was given.                                              *)

StopAwaited == job.stop \in {"requested", "unknown"}
Awaits == job.open /\ job.executor \in {"pending", "accepted"}
Told == contractor[job.generation].knows = job.input
Items == errands \cup {c.errand : c \in courier}

(* The row. *)
JobInv == ~Over =>
    /\ StopAwaited => /\ job.control = "stop"
                      /\ job.status \in {"stopping", "waiting_authorization"}
    /\ job.open => /\ job.control # "stop"
                   /\ job.status \notin {"stopping", "waiting_authorization"}
    /\ job.stop = "confirmed" => /\ job.status = "waiting_authorization"
                                 /\ job.executor = "stopped"

(* The instructions that are queued or under way. *)
ItemsInv == \A e \in Items :
    /\ e.number <= job.queued /\ (e.number = job.queued => e = Errand(job))
    /\ e.generation <= job.generation
    /\ e.generation = job.generation => e.input <= job.input /\ (job.open => e.order # "stop")

(* What the executor was given, and what it says of it. *)
WorkInv ==
    /\ \A g \in Pieces : /\ contractor[g].knows <= contractor[g].cites
                         /\ g > job.generation => contractor[g].cites = 0
    /\ contractor[job.generation].cites <= job.input
    /\ job.open => contractor[job.generation].knows = contractor[job.generation].cites
    /\ \A u \in post : /\ u.generation <= job.generation
                       /\ u.input <= contractor[u.generation].cites
                       /\ u.what = "stopped" => contractor[u.generation].state = "stopped"

(* The newest instruction is queued as long as it is needed. *)
ToldInv == ~Over =>
    /\ StopAwaited => Errand(job) \in errands
    /\ Awaits => Told \/ Errand(job) \in errands
    /\ job.open /\ job.acknowledged => Told
    /\ job.open /\ job.status = "waiting_input" => Told
    /\ job.open /\ job.executor # "pending" /\ job.control # "input" => Told
    /\ \A c \in courier : ~c.send /\ c.errand = Errand(job) => ~StopAwaited /\ (Awaits => Told)

(* A stop that is confirmed has happened. *)
HandoverInv ==
    /\ \A g \in handedOver : contractor[g].state = "stopped"
    /\ job.stop = "confirmed" => contractor[job.generation].state = "stopped"

HoldsInv == JobInv /\ ItemsInv /\ WorkInv /\ ToldInv /\ HandoverInv

(* What the run promises follows. *)
LEMMA InvHolds == Typed /\ HoldsInv => ExecutorHolds
<1> SUFFICES ASSUME Typed, HoldsInv PROVE ExecutorHolds
  OBVIOUS
<1>1. /\ Errand(job).generation = job.generation /\ Errand(job).input = job.input
      /\ Errand(job).order = job.control
  BY ErrandTyped DEF Typed
<1>2. ExecutorIsTold
  BY <1>1 DEF HoldsInv, JobInv, ToldInv, StopAwaited, Awaits, Told, ExecutorIsTold, IsCurrent
<1>3. HandoverAfterStop
  BY DEF HoldsInv, HandoverInv, HandoverAfterStop
<1> QED
  BY <1>2, <1>3 DEF ExecutorHolds

-----------------------------------------------------------------------------
(* Steps with and without a new instruction                                *)

(* The values that the invariants count with. *)
LEMMA Counted ==
  ASSUME Typed
  PROVE  /\ \A g \in Pieces : /\ g \in Nat /\ contractor[g] \in Contractors
                              /\ contractor[g].knows \in Nat /\ contractor[g].cites \in Nat
         /\ \A e \in Items : /\ e \in Errands /\ e.number \in Nat /\ e.input \in Nat
                             /\ e.generation \in Pieces /\ e.generation \in Nat
         /\ \A u \in post : /\ u \in Updates /\ u.generation \in Pieces /\ u.generation \in Nat
                            /\ u.input \in Nat
         /\ Items \subseteq Errands
<1>1. \A g \in Pieces : g \in Nat /\ contractor[g] \in Contractors
  BY Bounds DEF Typed, Pieces
<1>2. \A x \in Contractors : x.knows \in Nat /\ x.cites \in Nat
  BY Bounds DEF Contractors
<1>3. Items \subseteq Errands
  <2>1. \A c \in Decided : c.errand \in Errands
    BY DEF Decided
  <2> QED
    BY <2>1 DEF Typed, Items
<1>4. \A e \in Errands : /\ e.number \in Nat /\ e.input \in Nat
                         /\ e.generation \in Pieces /\ e.generation \in Nat
  BY Bounds DEF Errands, Pieces, Inputs
<1>5. post \subseteq Updates
  BY DEF Typed, PostTyped
<1>6. \A u \in Updates : u.generation \in Pieces /\ u.generation \in Nat /\ u.input \in Nat
  BY Bounds DEF Updates, Pieces, Inputs
<1> QED
  BY <1>1, <1>2, <1>3, <1>4, <1>5, <1>6

(* An instruction is queued: for the same generation, or for a new one.    *)
LEMMA Instructed ==
  ASSUME Typed, HoldsInv, Typed', ~Over,
         job'.queued = job.queued + 1,
         Errand(job)' \in errands', errands' \subseteq errands \cup {Errand(job)'},
         courier' \subseteq courier, contractor' = contractor, post' \subseteq post,
         job'.generation \in {job.generation, job.generation + 1},
         job'.input \in {job.input, job.input + 1},
         job'.open => /\ job'.control # "stop" /\ ~job'.acknowledged
                      /\ job'.status # "waiting_input"
                      /\ job'.executor # "pending" => job'.control = "input"
                      /\ job'.generation = job.generation => job.open
  PROVE  ItemsInv' /\ WorkInv' /\ ToldInv'
<1>1. /\ job.generation \in Nat /\ job.input \in Nat /\ job.queued \in Nat
      /\ job'.generation \in Pieces
  BY Numbers DEF Typed, Jobs
<1>2. /\ Errand(job)'.number = job'.queued /\ Errand(job)'.generation = job'.generation
      /\ Errand(job)'.input = job'.input /\ Errand(job)'.order = job'.control
  <2>1. job' \in Jobs
    BY DEF Typed
  <2> QED
    BY <2>1 DEF Errand
<1>3. Items' \subseteq Items \cup {Errand(job)'}
  BY DEF Items
<1>4. ItemsInv'
  <2>1. ASSUME NEW e \in Items
        PROVE  /\ e.number <= job'.queued /\ e.number # job'.queued
               /\ e.generation <= job'.generation
               /\ e.generation = job'.generation
                    => e.input <= job'.input /\ (job'.open => e.order # "stop")
    <3>1. /\ e.number \in Nat /\ e.input \in Nat /\ e.generation \in Nat
          /\ e.number <= job.queued /\ e.generation <= job.generation
          /\ e.generation = job.generation => e.input <= job.input /\ (job.open => e.order # "stop")
      BY Counted DEF HoldsInv, ItemsInv
    <3> QED
      BY <1>1, <3>1
  <2>2. ASSUME NEW e, e = Errand(job)'
        PROVE  /\ e.number <= job'.queued /\ e = Errand(job)'
               /\ e.generation <= job'.generation
               /\ e.generation = job'.generation
                    => e.input <= job'.input /\ (job'.open => e.order # "stop")
    BY <1>1, <1>2, <2>2
  <2> QED
    BY <1>3, <2>1, <2>2 DEF ItemsInv
<1>5. WorkInv'
  <2>1. /\ contractor[job.generation].cites <= job.input
        /\ \A g \in Pieces : /\ contractor[g].knows <= contractor[g].cites
                             /\ g > job.generation => contractor[g].cites = 0
        /\ job.open => contractor[job.generation].knows = contractor[job.generation].cites
    BY DEF HoldsInv, WorkInv
  <2>2. \A g \in Pieces : g \in Nat /\ contractor[g].knows \in Nat /\ contractor[g].cites \in Nat
    BY Counted
  <2>3. \A g \in Pieces : g > job'.generation => contractor[g].cites = 0
    BY <1>1, <2>1, <2>2
  <2>4. /\ contractor[job'.generation].cites <= job'.input
        /\ job'.open => contractor[job'.generation].knows = contractor[job'.generation].cites
    <3>1. CASE job'.generation = job.generation
      <4>1. job.generation \in Pieces
        BY Numbers
      <4> QED
        BY <1>1, <2>1, <2>2, <3>1, <4>1
    <3>2. CASE job'.generation = job.generation + 1
      <4>1. job'.generation > job.generation
        BY <1>1, <3>2
      <4>2. contractor[job'.generation].cites = 0 /\ contractor[job'.generation].knows = 0
        BY <1>1, <2>1, <2>2, <4>1
      <4> QED
        BY <1>1, <4>2
    <3> QED
      BY <3>1, <3>2
  <2>5. \A u \in post : /\ u.generation <= job'.generation
                        /\ u.input <= contractor[u.generation].cites
                        /\ u.what = "stopped" => contractor[u.generation].state = "stopped"
    <3>1. \A u \in post : u.generation \in Nat /\ u.generation <= job.generation
      BY Counted DEF HoldsInv, WorkInv
    <3> QED
      BY <1>1, <3>1 DEF HoldsInv, WorkInv
  <2> QED
    BY <2>1, <2>3, <2>4, <2>5 DEF WorkInv
<1>6. ToldInv'
  <2>1. \A c \in courier' : c.errand # Errand(job)'
    <3> SUFFICES ASSUME NEW c \in courier PROVE c.errand # Errand(job)'
      OBVIOUS
    <3>1. c.errand.number \in Nat /\ c.errand.number <= job.queued
      <4>1. c.errand \in Items
        BY DEF Items
      <4> QED
        BY <4>1, Counted DEF HoldsInv, ItemsInv
    <3> QED
      BY <1>1, <1>2, <3>1
  <2> QED
    BY <2>1 DEF ToldInv
<1> QED
  BY <1>4, <1>5, <1>6

(* No instruction is queued: what is dropped is not needed. *)
LEMMA Uninstructed ==
  ASSUME Typed, HoldsInv, ~Over,
         /\ job'.generation = job.generation /\ job'.input = job.input
         /\ job'.control = job.control /\ job'.queued = job.queued,
         errands' \subseteq errands, courier' \subseteq courier, contractor' = contractor,
         post' \subseteq post,
         job'.open => job.open,
         ~Over' => (StopAwaited' => StopAwaited) /\ (Awaits' => Awaits),
         ~Over' /\ Errand(job) \in errands /\ Errand(job) \notin errands'
            => ~StopAwaited' /\ (Awaits' => Told),
         ~Over' /\ job'.open =>
            \/ Told
            \/ /\ job'.acknowledged => job.acknowledged
               /\ job'.status = "waiting_input" => job.status = "waiting_input"
               /\ job'.executor # "pending" => job.executor # "pending"
  PROVE  ItemsInv' /\ WorkInv' /\ ToldInv'
<1>1. Errand(job)' = Errand(job) /\ Told' = Told
  BY DEF Errand, Told
<1>2. ItemsInv'
  <2>1. Items' \subseteq Items
    BY DEF Items
  <2> QED
    BY <1>1, <2>1 DEF HoldsInv, ItemsInv
<1>3. WorkInv'
  BY DEF HoldsInv, WorkInv
<1>4. ToldInv'
  <2>1. /\ StopAwaited => Errand(job) \in errands
        /\ Awaits => Told \/ Errand(job) \in errands
        /\ job.open /\ job.acknowledged => Told
        /\ job.open /\ job.status = "waiting_input" => Told
        /\ job.open /\ job.executor # "pending" /\ job.control # "input" => Told
        /\ \A c \in courier : ~c.send /\ c.errand = Errand(job) => ~StopAwaited /\ (Awaits => Told)
    BY DEF HoldsInv, ToldInv
  <2> SUFFICES ASSUME ~Over'
               PROVE  ToldInv'
    BY DEF ToldInv
  <2>2. /\ StopAwaited' => Errand(job) \in errands'
        /\ Awaits' => Told \/ Errand(job) \in errands'
        /\ job'.open /\ job'.acknowledged => Told
        /\ job'.open /\ job'.status = "waiting_input" => Told
        /\ job'.open /\ job'.executor # "pending" /\ job'.control # "input" => Told
        /\ \A c \in courier' : ~c.send /\ c.errand = Errand(job)
                                => ~StopAwaited' /\ (Awaits' => Told)
    <3>1. (StopAwaited' => StopAwaited) /\ (Awaits' => Awaits)
      OBVIOUS
    <3>2. /\ StopAwaited' => Errand(job) \in errands'
          /\ Awaits' => Told \/ Errand(job) \in errands'
      BY <2>1, <3>1
    <3>3. /\ job'.open /\ job'.acknowledged => Told
          /\ job'.open /\ job'.status = "waiting_input" => Told
          /\ job'.open /\ job'.executor # "pending" /\ job'.control # "input" => Told
      <4>1. \/ Told
            \/ /\ job'.acknowledged => job.acknowledged
               /\ job'.status = "waiting_input" => job.status = "waiting_input"
               /\ job'.executor # "pending" => job.executor # "pending"
            \/ ~job'.open
        OBVIOUS
      <4>2. job'.open => job.open
        OBVIOUS
      <4>3. job'.control = job.control
        OBVIOUS
      <4>4. job'.open /\ job'.acknowledged => Told
        BY <2>1, <4>1, <4>2
      <4>5. job'.open /\ job'.status = "waiting_input" => Told
        BY <2>1, <4>1, <4>2
      <4>6. job'.open /\ job'.executor # "pending" /\ job'.control # "input" => Told
        BY <2>1, <4>1, <4>2, <4>3
      <4> QED
        BY <4>4, <4>5, <4>6
    <3>4. \A c \in courier' : ~c.send /\ c.errand = Errand(job)
                              => ~StopAwaited' /\ (Awaits' => Told)
      BY <2>1, <3>1
    <3> QED
      BY <3>2, <3>3, <3>4
  <2> QED
    BY <1>1, <2>2 DEF ToldInv
<1> QED
  BY <1>2, <1>3, <1>4

-----------------------------------------------------------------------------
(* What the steps share                                                    *)

(* The types of a step that leaves the executor alone. *)
LEMMA Kept ==
  ASSUME Typed, job' \in Jobs, authority' \in Authorities,
         errands' \subseteq errands \cup {Errand(job')}, courier' \subseteq courier,
         contractor' = contractor, handedOver' \subseteq Pieces,
         margin' \in [orders: 0 .. MaxOrders, reports: 0 .. MaxReports,
                      mishaps: 0 .. MaxMishaps],
         margin'.reports = margin.reports,
         post' = post \/ post' = {},
         \/ job'.sequence <= job.sequence
         \/ post # {} /\ post' = {} /\ job'.sequence = job.sequence + 1
  PROVE  Typed'
<1>1. errands' \subseteq Errands
  BY ErrandTyped DEF Typed
<1>2. PostTyped'
  <2>1. /\ job.sequence \in Nat /\ margin.reports \in Nat /\ job'.sequence \in Nat
    BY Numbers, Bounds DEF Jobs
  <2>2. /\ job.sequence + margin.reports <= MaxReports
        /\ post # {} => job.sequence + margin.reports < MaxReports
        /\ post' = {} \/ \E u \in Updates : post' = {u}
    BY DEF Typed, PostTyped
  <2>3. /\ job'.sequence + margin.reports <= MaxReports
        /\ post' # {} => job'.sequence + margin.reports < MaxReports
    BY <2>1, <2>2, Bounds
  <2> QED
    BY <2>2, <2>3 DEF PostTyped
<1> QED
  BY <1>1, <1>2 DEF Typed

(* What a stop and a takeover have found stays so. *)
LEMMA HandoverKept ==
  ASSUME HoldsInv, contractor' = contractor, handedOver' = handedOver,
         job'.stop = "confirmed" => job.stop = "confirmed" /\ job'.generation = job.generation
  PROVE  HandoverInv'
  BY DEF HoldsInv, HandoverInv

-----------------------------------------------------------------------------
(* Control                                                                 *)

LEMMA InputGiven ==
  ASSUME Typed, HoldsInv, ~Over, GiveInput
  PROVE  Typed' /\ HoldsInv'
<1> DEFINE j == [job EXCEPT !.input = @ + 1, !.control = "input", !.acknowledged = FALSE,
                            !.status = IF @ = "waiting_input" THEN "running" ELSE @]
<1>1. /\ j \in Jobs /\ j.generation = job.generation /\ j.input = job.input + 1
      /\ j.queued = job.queued /\ j.sequence = job.sequence /\ j.open = job.open
      /\ j.control = "input" /\ ~j.acknowledged /\ j.stop = job.stop
      /\ j.executor = job.executor
      /\ j.status \in {"accepted", "running"}
  <2>1. job \in Jobs /\ job.input + 1 \in Inputs /\ job.status \in {"accepted", "running", "waiting_input"}
    BY Numbers, Bounds DEF Typed, GiveInput, Inputs
  <2> QED
    BY ZenonT(60), <2>1 DEF Jobs, Orders
<1>2. job' = Numbered(j) /\ errands' = errands \cup {Errand(job')}
  BY DEF GiveInput, Instruct
<1>3. /\ job' \in Jobs /\ job'.generation = job.generation /\ job'.input = job.input + 1
      /\ job'.queued = job.queued + 1 /\ job'.sequence = job.sequence /\ job'.open = job.open
      /\ job'.control = "input" /\ ~job'.acknowledged /\ job'.stop = job.stop
      /\ job'.executor = job.executor
      /\ job'.status \in {"accepted", "running"}
  <2> HIDE DEF j
  <2> QED
    BY <1>1, <1>2, NumberedTyped
<1>4. Typed'
  BY <1>2, <1>3, Kept, Paid, Numbers DEF GiveInput, Typed
<1>5. JobInv'
  <2>1. job.status \in {"accepted", "running", "waiting_input"} /\ ~StopAwaited /\ job.stop # "confirmed"
    BY DEF GiveInput, HoldsInv, JobInv
  <2> QED
    BY <1>3, <2>1 DEF JobInv, StopAwaited
<1>6. HandoverInv'
  BY <1>3, HandoverKept DEF GiveInput
<1>7. ItemsInv' /\ WorkInv' /\ ToldInv'
  BY <1>2, <1>3, <1>4, Instructed DEF GiveInput
<1> QED
  BY <1>4, <1>5, <1>6, <1>7 DEF HoldsInv

(* The row of a run that begins again. *)
LEMMA RenewedTyped ==
  ASSUME Typed, job.generation < MaxGenerations
  PROVE  /\ Renewed(job) \in Jobs /\ Renewed(job).generation = job.generation + 1
         /\ Renewed(job).input = job.input /\ Renewed(job).sequence = 0
         /\ Renewed(job).executor = "pending" /\ Renewed(job).status = "accepted"
         /\ Renewed(job).open /\ Renewed(job).control = "resume"
         /\ ~Renewed(job).acknowledged /\ Renewed(job).queued = job.queued
         /\ Renewed(job).stop = job.stop
<1>1. job \in Jobs
  BY DEF Typed
<1>2. job.generation + 1 \in Pieces
  BY Numbers, Bounds DEF Pieces
<1>3. 0 \in 0 .. MaxReports
  BY Bounds
<1>4. /\ "pending" \in {"pending", "accepted", "stop_rejected", "lost", "stopped", "completed"}
      /\ "accepted" \in {"accepted", "running", "waiting_input", "waiting_authorization",
                         "stopping", "stopped", "failed"}
      /\ "none" \in {"none", "live", "expired"} /\ "resume" \in Orders
  BY DEF Orders
<1>5. Renewed(job) \in Jobs
  BY <1>1, <1>2, <1>3, <1>4 DEF Renewed, Jobs
<1> QED
  BY <1>1, <1>5 DEF Renewed, Jobs

LEMMA Resumed ==
  ASSUME Typed, HoldsInv, ~Over, ResumeJob
  PROVE  Typed' /\ HoldsInv'
<1>1. /\ job' = Numbered(Renewed(job)) /\ errands' = errands \cup {Errand(job')}
      /\ job.generation < MaxGenerations
  BY DEF ResumeJob, Instruct
<1>2. /\ job' \in Jobs /\ job'.generation = job.generation + 1 /\ job'.input = job.input
      /\ job'.queued = job.queued + 1 /\ job'.sequence = 0 /\ job'.open
      /\ job'.control = "resume" /\ ~job'.acknowledged /\ job'.stop = job.stop
      /\ job'.executor = "pending" /\ job'.status = "accepted"
  BY <1>1, RenewedTyped, NumberedTyped
<1>3. Typed'
  BY <1>1, <1>2, Kept, Paid, Numbers DEF ResumeJob, Typed
<1>4. ~StopAwaited /\ job.stop # "confirmed"
  BY DEF ResumeJob, HoldsInv, JobInv
<1>5. JobInv'
  BY <1>2, <1>4 DEF JobInv, StopAwaited
<1>6. HandoverInv'
  BY <1>2, <1>4, HandoverKept DEF ResumeJob
<1>7. ItemsInv' /\ WorkInv' /\ ToldInv'
  BY <1>1, <1>2, <1>3, Instructed, Numbers DEF ResumeJob
<1> QED
  BY <1>3, <1>5, <1>6, <1>7 DEF HoldsInv

LEMMA TakenOver ==
  ASSUME Typed, HoldsInv, ~Over, TakeOverJob
  PROVE  Typed' /\ HoldsInv'
<1>1. CASE UNCHANGED <<job, errands, handedOver>>
  <2>1. Typed'
    <3>1. /\ job' \in Jobs /\ authority' \in Authorities /\ handedOver' \subseteq Pieces
          /\ job'.sequence <= job.sequence
      <4>1. authority' = "held"
        BY DEF TakeOverJob
      <4>2. job \in Jobs /\ handedOver \subseteq Pieces
        BY DEF Typed
      <4>3. job.sequence <= job.sequence
        BY Numbers
      <4> QED
        BY <1>1, <4>1, <4>2, <4>3 DEF Authorities
    <3>2. UNCHANGED <<courier, contractor, post>> /\ errands' = errands /\ Uses("orders")
      BY <1>1 DEF TakeOverJob
    <3> QED
      BY <3>1, <3>2, Kept, Paid
  <2>2. JobInv' /\ HandoverInv'
    BY <1>1, HandoverKept DEF TakeOverJob, HoldsInv, JobInv, Over, StopAwaited
  <2>3. ItemsInv' /\ WorkInv' /\ ToldInv'
    BY <1>1, Uninstructed DEF TakeOverJob, StopAwaited, Awaits
  <2> QED
    BY <2>1, <2>2, <2>3 DEF HoldsInv
<1>2. CASE ~ UNCHANGED <<job, errands, handedOver>>
  <2> DEFINE j == [Renewed(job) EXCEPT !.stop = "none"]
  <2>1. /\ job' = Numbered(j) /\ errands' = errands \cup {Errand(job')}
        /\ job.generation < MaxGenerations /\ job.stop = "confirmed"
        /\ handedOver' = handedOver \cup {job.generation}
    BY <1>2 DEF TakeOverJob, Instruct, Suspended
  <2>2. /\ j \in Jobs /\ j.generation = job.generation + 1 /\ j.input = job.input
        /\ j.queued = job.queued /\ j.sequence = 0 /\ j.open
        /\ j.control = "resume" /\ ~j.acknowledged /\ j.stop = "none"
        /\ j.executor = "pending" /\ j.status = "accepted"
    BY <2>1, RenewedTyped DEF Jobs
  <2>3. /\ job' \in Jobs /\ job'.generation = job.generation + 1 /\ job'.input = job.input
        /\ job'.queued = job.queued + 1 /\ job'.sequence = 0 /\ job'.open
        /\ job'.control = "resume" /\ ~job'.acknowledged /\ job'.stop = "none"
        /\ job'.executor = "pending" /\ job'.status = "accepted"
    <3> HIDE DEF j
    <3> QED
      BY <2>1, <2>2, NumberedTyped
  <2>4. Typed'
    <3>1. /\ authority' \in Authorities /\ handedOver' \subseteq Pieces
          /\ job'.sequence <= job.sequence
      <4>1. authority' = "held"
        BY DEF TakeOverJob
      <4>2. job.generation \in Pieces /\ handedOver \subseteq Pieces
        BY Numbers DEF Typed
      <4>3. 0 <= job.sequence
        BY Numbers
      <4> QED
        BY <2>1, <2>3, <4>1, <4>2, <4>3 DEF Authorities
    <3>2. UNCHANGED <<courier, contractor, post>> /\ Uses("orders")
      BY DEF TakeOverJob
    <3> QED
      BY <2>1, <2>3, <3>1, <3>2, Kept, Paid
  <2>5. JobInv'
    BY <2>3 DEF JobInv, StopAwaited
  <2>6. HandoverInv'
    BY <2>1, <2>3 DEF TakeOverJob, HoldsInv, HandoverInv
  <2>7. ItemsInv' /\ WorkInv' /\ ToldInv'
    BY <2>1, <2>3, <2>4, Instructed, Numbers DEF TakeOverJob
  <2> QED
    BY <2>4, <2>5, <2>6, <2>7 DEF HoldsInv
<1> QED
  BY <1>1, <1>2

(* What requestRunStop makes of the row. *)
LEMMA AskedAnew ==
  ASSUME Typed, NEW byUser \in BOOLEAN, AsksAnew
  PROVE  /\ StopAsked(byUser) \in Jobs /\ StopAsked(byUser).generation = job.generation
         /\ StopAsked(byUser).input = job.input /\ StopAsked(byUser).sequence = job.sequence
         /\ StopAsked(byUser).queued = job.queued + 1 /\ ~StopAsked(byUser).open
         /\ StopAsked(byUser).status = "stopping" /\ StopAsked(byUser).stop = "requested"
         /\ StopAsked(byUser).control = "stop"
<1> DEFINE j == [job EXCEPT !.status = "stopping", !.stop = "requested",
                            !.open = FALSE, !.control = "stop", !.acknowledged = FALSE]
<1>1. StopAsked(byUser) = Numbered(j)
  BY DEF StopAsked, AsksAnew
<1>2. /\ j \in Jobs /\ j.generation = job.generation /\ j.input = job.input
      /\ j.sequence = job.sequence /\ j.queued = job.queued /\ ~j.open
      /\ j.status = "stopping" /\ j.stop = "requested" /\ j.control = "stop"
  BY ZenonT(60) DEF Typed, Jobs, Orders
<1> HIDE DEF j
<1> QED
  BY <1>1, <1>2, NumberedTyped

LEMMA AskedAgain ==
  ASSUME Typed, NEW byUser \in BOOLEAN, ~AsksAnew
  PROVE  /\ StopAsked(byUser) \in Jobs /\ StopAsked(byUser).generation = job.generation
         /\ StopAsked(byUser).input = job.input /\ StopAsked(byUser).sequence = job.sequence
         /\ StopAsked(byUser).queued = job.queued /\ StopAsked(byUser).open = job.open
         /\ StopAsked(byUser).stop = job.stop /\ StopAsked(byUser).control = job.control
         /\ StopAsked(byUser).acknowledged = job.acknowledged
         /\ StopAsked(byUser).executor = job.executor
         /\ \/ StopAsked(byUser).status = "stopped"
            \/ StopAwaited /\ StopAsked(byUser).status \in {job.status, "stopping"}
  BY DEF Typed, Jobs, AsksAnew, StopAsked, StopAwaited

(* A stop that is asked for, with the items that it completes. *)
LEMMA StopAskedFor ==
  ASSUME Typed, HoldsInv, ~Over, NEW byUser \in BOOLEAN,
         job' = StopAsked(byUser) \/ job' = [StopAsked(byUser) EXCEPT !.revoked = TRUE],
         errands' \subseteq errands \cup {Errand(job')},
         AsksAnew => Errand(job') \in errands',
         ~AsksAnew => errands' \subseteq errands,
         \A e \in errands \ errands' : e.order # "stop",
         courier' \subseteq courier, Typed',
         UNCHANGED <<contractor, post, handedOver>>
  PROVE  HoldsInv'
<1>1. CASE AsksAnew
  <2>1. /\ job' \in Jobs /\ job'.generation = job.generation
        /\ job'.input = job.input /\ job'.queued = job.queued + 1 /\ ~job'.open
        /\ job'.status = "stopping" /\ job'.stop = "requested" /\ job'.control = "stop"
    <3> DEFINE s == StopAsked(byUser)
    <3>1. /\ s \in Jobs /\ s.generation = job.generation
          /\ s.input = job.input /\ s.queued = job.queued + 1 /\ ~s.open
          /\ s.status = "stopping" /\ s.stop = "requested" /\ s.control = "stop"
      BY <1>1, AskedAnew
    <3>2. job' = s \/ job' = [s EXCEPT !.revoked = TRUE]
      OBVIOUS
    <3> HIDE DEF s
    <3> QED
      BY ZenonT(60), <3>1, <3>2 DEF Jobs
  <2>2. JobInv' /\ HandoverInv'
    BY <2>1, HandoverKept DEF JobInv, StopAwaited
  <2>3. ItemsInv' /\ WorkInv' /\ ToldInv'
    BY <1>1, <2>1, Instructed
  <2> QED
    BY <2>2, <2>3 DEF HoldsInv
<1>2. CASE ~AsksAnew
  <2>1. /\ job' \in Jobs /\ job'.generation = job.generation
        /\ job'.input = job.input /\ job'.queued = job.queued /\ job'.open = job.open
        /\ job'.stop = job.stop /\ job'.control = job.control
        /\ job'.acknowledged = job.acknowledged /\ job'.executor = job.executor
        /\ \/ job'.status = "stopped"
           \/ StopAwaited /\ job'.status \in {job.status, "stopping"}
    <3> DEFINE s == StopAsked(byUser)
    <3>1. /\ s \in Jobs /\ s.generation = job.generation
          /\ s.input = job.input /\ s.queued = job.queued /\ s.open = job.open
          /\ s.stop = job.stop /\ s.control = job.control
          /\ s.acknowledged = job.acknowledged /\ s.executor = job.executor
          /\ \/ s.status = "stopped"
             \/ StopAwaited /\ s.status \in {job.status, "stopping"}
      BY <1>2, AskedAgain
    <3>2. job' = s \/ job' = [s EXCEPT !.revoked = TRUE]
      OBVIOUS
    <3> HIDE DEF s
    <3> QED
      BY ZenonT(60), <3>1, <3>2 DEF Jobs
  <2>2. JobInv'
    BY <2>1 DEF HoldsInv, JobInv, Over, StopAwaited
  <2>3. HandoverInv'
    BY <2>1, HandoverKept
  <2>4. ~Over' => StopAwaited /\ ~job.open /\ job.control = "stop"
    BY <2>1 DEF HoldsInv, JobInv, Over
  <2>5. Errand(job) \in errands /\ Errand(job) \notin errands' => Over'
    <3>1. Errand(job).order = job.control
      BY ErrandTyped DEF Typed
    <3> QED
      BY <1>2, <2>4, <3>1
  <2>6. errands' \subseteq errands
    BY <1>2
  <2>7. (StopAwaited' => StopAwaited) /\ (Awaits' => Awaits)
    BY <2>1 DEF StopAwaited, Awaits
  <2>8. ItemsInv' /\ WorkInv' /\ ToldInv'
    BY <2>1, <2>4, <2>5, <2>6, <2>7, Uninstructed
  <2> QED
    BY <2>2, <2>3, <2>8 DEF HoldsInv
<1> QED
  BY <1>1, <1>2

LEMMA StopTyped ==
  ASSUME Typed, NEW byUser \in BOOLEAN
  PROVE  /\ StopAsked(byUser) \in Jobs /\ StopAsked(byUser).sequence = job.sequence
         /\ job.sequence <= job.sequence
<1>1. job.sequence <= job.sequence
  BY Numbers
<1> QED
  BY <1>1, AskedAnew, AskedAgain

LEMMA StopSettled ==
  ASSUME Typed, HoldsInv, ~Over, StopJob
  PROVE  Typed' /\ HoldsInv'
<1>1. /\ UNCHANGED <<authority, courier, contractor, post, handedOver>> /\ Uses("orders")
      /\ job \in Jobs /\ authority \in Authorities /\ handedOver \subseteq Pieces
  BY DEF StopJob, Typed
<1>2. CASE job.supportsStop
  <2>1. /\ job' = StopAsked(TRUE)
        /\ errands' = errands \cup (IF AsksAnew THEN {Errand(job')} ELSE {})
    BY <1>2 DEF StopJob, AsksToStop
  <2>2. Typed'
    BY <1>1, <2>1, StopTyped, Kept, Paid
  <2> QED
    BY <1>1, <2>1, <2>2, StopAskedFor
<1>3. CASE ~job.supportsStop
  <2>1. job' = [job EXCEPT !.stop = "rejected"] /\ errands' = errands
    BY <1>3 DEF StopJob
  <2>2. /\ job' \in Jobs /\ job'.generation = job.generation
        /\ job'.input = job.input /\ job'.queued = job.queued /\ job'.open = job.open
        /\ job'.stop = "rejected" /\ job'.control = job.control
        /\ job'.acknowledged = job.acknowledged /\ job'.executor = job.executor
        /\ job'.status = job.status /\ job'.sequence = job.sequence
        /\ job.sequence <= job.sequence
    BY <1>1, <2>1, Numbers DEF Jobs
  <2>3. Typed'
    BY <1>1, <2>1, <2>2, Kept, Paid
  <2>4. JobInv' /\ HandoverInv'
    BY <1>1, <2>2, HandoverKept DEF HoldsInv, JobInv, Over, StopAwaited
  <2>5. (StopAwaited' => StopAwaited) /\ (Awaits' => Awaits)
    BY <2>2 DEF StopAwaited, Awaits
  <2>6. ItemsInv' /\ WorkInv' /\ ToldInv'
    BY <1>1, <2>1, <2>2, <2>5, Uninstructed
  <2> QED
    BY <2>3, <2>4, <2>6 DEF HoldsInv
<1> QED
  BY <1>2, <1>3

-----------------------------------------------------------------------------
(* Time and authority                                                      *)

LEMMA AuthorityLost ==
  ASSUME Typed, HoldsInv, ~Over, LoseAuthority
  PROVE  Typed' /\ HoldsInv'
<1>1. /\ UNCHANGED <<job, errands, courier, contractor, post, handedOver>> /\ Uses("mishaps")
      /\ job \in Jobs /\ authority' \in Authorities /\ handedOver \subseteq Pieces
      /\ job.sequence <= job.sequence
  BY Numbers DEF LoseAuthority, Typed
<1>2. Typed'
  BY <1>1, Kept, Paid
<1>3. JobInv' /\ HandoverInv'
  BY <1>1, HandoverKept DEF HoldsInv, JobInv, Over, StopAwaited
<1>4. ItemsInv' /\ WorkInv' /\ ToldInv'
  BY <1>1, Uninstructed DEF StopAwaited, Awaits
<1> QED
  BY <1>2, <1>3, <1>4 DEF HoldsInv

LEMMA LeaseRunOut ==
  ASSUME Typed, HoldsInv, ~Over, LeaseRunsOut
  PROVE  Typed' /\ HoldsInv'
<1>1. /\ UNCHANGED <<authority, errands, courier, contractor, post, handedOver>>
      /\ Uses("mishaps") /\ job' = [job EXCEPT !.lease = "expired"]
      /\ job \in Jobs /\ authority \in Authorities /\ handedOver \subseteq Pieces
  BY DEF LeaseRunsOut, Typed
<1>2. /\ job' \in Jobs /\ job'.generation = job.generation
      /\ job'.input = job.input /\ job'.queued = job.queued /\ job'.open = job.open
      /\ job'.stop = job.stop /\ job'.control = job.control
      /\ job'.acknowledged = job.acknowledged /\ job'.executor = job.executor
      /\ job'.status = job.status /\ job'.sequence = job.sequence
      /\ job.sequence <= job.sequence
  BY <1>1, Numbers DEF Jobs
<1>3. Typed'
  BY <1>1, <1>2, Kept, Paid
<1>4. JobInv' /\ HandoverInv'
  BY <1>1, <1>2, HandoverKept DEF HoldsInv, JobInv, Over, StopAwaited
<1>5. (StopAwaited' => StopAwaited) /\ (Awaits' => Awaits)
  BY <1>2 DEF StopAwaited, Awaits
<1>6. ItemsInv' /\ WorkInv' /\ ToldInv'
  BY <1>1, <1>2, <1>5, Uninstructed
<1> QED
  BY <1>3, <1>4, <1>6 DEF HoldsInv

LEMMA LossNoticed ==
  ASSUME Typed, HoldsInv, ~Over, NoticeLost
  PROVE  Typed' /\ HoldsInv'
<1>1. /\ UNCHANGED <<authority, errands, courier, contractor, post, handedOver, margin>>
      /\ job' = [job EXCEPT !.executor = "lost", !.open = FALSE,
                    !.stop = IF job.status = "stopping" /\ @ = "requested" THEN "unknown" ELSE @]
      /\ job \in Jobs /\ authority \in Authorities /\ handedOver \subseteq Pieces
  BY DEF NoticeLost, Typed
<1> DEFINE s == IF job.status = "stopping" /\ job.stop = "requested" THEN "unknown" ELSE job.stop
<1>a. /\ job \in Jobs /\ job' = [job EXCEPT !.executor = "lost", !.open = FALSE, !.stop = s]
      /\ s = job.stop \/ (job.stop = "requested" /\ s = "unknown")
  BY <1>1
<1>2. /\ job' \in Jobs /\ job'.generation = job.generation
      /\ job'.input = job.input /\ job'.queued = job.queued /\ ~job'.open
      /\ job'.stop = job.stop \/ (job.stop = "requested" /\ job'.stop = "unknown")
      /\ job'.control = job.control
      /\ job'.acknowledged = job.acknowledged /\ job'.executor = "lost"
      /\ job'.status = job.status /\ job'.sequence = job.sequence
      /\ job.sequence <= job.sequence
  <2>1. s \in {"none", "requested", "unknown", "rejected", "confirmed"}
    BY <1>a DEF Jobs
  <2>2. job.sequence <= job.sequence
    BY Numbers
  <2> HIDE DEF s
  <2>3. job'.stop = s
    BY <1>a DEF Jobs
  <2> QED
    BY <1>a, <2>1, <2>2, <2>3 DEF Jobs
<1>3. Typed'
  BY <1>1, <1>2, Kept DEF Typed
<1>4. job.stop # "confirmed"
  BY DEF NoticeLost, HoldsInv, JobInv
<1>5. JobInv' /\ HandoverInv'
  BY <1>1, <1>2, <1>4, HandoverKept DEF HoldsInv, JobInv, Over, StopAwaited
<1>6. (StopAwaited' => StopAwaited) /\ (Awaits' => Awaits)
  BY <1>2 DEF StopAwaited, Awaits
<1>7. ItemsInv' /\ WorkInv' /\ ToldInv'
  BY <1>1, <1>2, <1>6, Uninstructed
<1> QED
  BY <1>3, <1>5, <1>7 DEF HoldsInv

LEMMA DepartureNoticed ==
  ASSUME Typed, HoldsInv, ~Over, NoticeDeparture
  PROVE  Typed' /\ HoldsInv'
<1> DEFINE j == [job EXCEPT !.status = "waiting_authorization", !.open = FALSE,
                            !.stop = "requested", !.control = "stop"]
<1>1. /\ UNCHANGED <<authority, courier, contractor, post, handedOver, margin>>
      /\ job' = Numbered(j) /\ errands' = errands \cup {Errand(job')}
      /\ job \in Jobs /\ authority \in Authorities /\ handedOver \subseteq Pieces
  BY DEF NoticeDeparture, Instruct, Typed
<1>2. /\ j \in Jobs /\ j.generation = job.generation /\ j.input = job.input
      /\ j.sequence = job.sequence /\ j.queued = job.queued /\ ~j.open
      /\ j.status = "waiting_authorization" /\ j.stop = "requested" /\ j.control = "stop"
  BY ZenonT(60), <1>1 DEF Jobs, Orders
<1>3. /\ job' \in Jobs /\ job'.generation = job.generation /\ job'.input = job.input
      /\ job'.sequence = job.sequence /\ job'.queued = job.queued + 1 /\ ~job'.open
      /\ job'.status = "waiting_authorization" /\ job'.stop = "requested"
      /\ job'.control = "stop"
  <2> HIDE DEF j
  <2> QED
    BY <1>1, <1>2, NumberedTyped
<1>4. Typed'
  BY <1>1, <1>3, Kept, StopTyped DEF Typed
<1>5. JobInv' /\ HandoverInv'
  BY <1>1, <1>3, HandoverKept DEF JobInv, StopAwaited
<1>6. ItemsInv' /\ WorkInv' /\ ToldInv'
  BY <1>1, <1>3, <1>4, Instructed
<1> QED
  BY <1>4, <1>5, <1>6 DEF HoldsInv

LEMMA RevocationNoticed ==
  ASSUME Typed, HoldsInv, ~Over, NoticeRevocation
  PROVE  Typed' /\ HoldsInv'
<1>1. /\ UNCHANGED <<authority, courier, contractor, post, handedOver, margin>>
      /\ job' = [StopAsked(FALSE) EXCEPT !.revoked = TRUE]
      /\ errands' = errands \cup (IF AsksAnew THEN {Errand(job')} ELSE {})
      /\ authority \in Authorities /\ handedOver \subseteq Pieces
  BY DEF NoticeRevocation, Typed
<1>2. job' \in Jobs /\ job'.sequence <= job.sequence
  <2>1. /\ StopAsked(FALSE) \in Jobs /\ StopAsked(FALSE).sequence = job.sequence
        /\ job.sequence <= job.sequence
    BY StopTyped
  <2> QED
    BY <1>1, <2>1 DEF Jobs
<1>3. Typed'
  BY <1>1, <1>2, Kept DEF Typed
<1> QED
  BY <1>1, <1>3, StopAskedFor

LEMMA LeftUnanswered ==
  ASSUME Typed, HoldsInv, ~Over, StopUnanswered
  PROVE  Typed' /\ HoldsInv'
<1>1. /\ UNCHANGED <<authority, errands, courier, contractor, post, handedOver, margin>>
      /\ job' = [job EXCEPT !.stop = "unknown"] /\ job.stop = "requested"
      /\ job \in Jobs /\ authority \in Authorities /\ handedOver \subseteq Pieces
  BY DEF StopUnanswered, Typed
<1>2. /\ job' \in Jobs /\ job'.generation = job.generation
      /\ job'.input = job.input /\ job'.queued = job.queued /\ job'.open = job.open
      /\ job'.stop = "unknown" /\ job'.control = job.control
      /\ job'.acknowledged = job.acknowledged /\ job'.executor = job.executor
      /\ job'.status = job.status /\ job'.sequence = job.sequence
      /\ job.sequence <= job.sequence
  BY <1>1, Numbers DEF Jobs
<1>3. Typed'
  BY <1>1, <1>2, Kept DEF Typed
<1>4. JobInv' /\ HandoverInv'
  BY <1>1, <1>2, HandoverKept DEF HoldsInv, JobInv, Over, StopAwaited
<1>5. (StopAwaited' => StopAwaited) /\ (Awaits' => Awaits)
  BY <1>1, <1>2 DEF StopAwaited, Awaits
<1>6. ItemsInv' /\ WorkInv' /\ ToldInv'
  BY <1>1, <1>2, <1>5, Uninstructed
<1> QED
  BY <1>3, <1>4, <1>6 DEF HoldsInv

-----------------------------------------------------------------------------
(* Delivery                                                                *)

(* The newest instruction is not sent only when it is not needed. *)
LEMMA SentWhenNeeded ==
  ASSUME Typed, HoldsInv, ~Over, ~StillToSend(Errand(job))
  PROVE  ~StopAwaited /\ (Awaits => Told)
<1>1. /\ Errand(job).generation = job.generation /\ Errand(job).input = job.input
      /\ Errand(job).order = job.control
  BY ErrandTyped DEF Typed
<1>2. IsCurrent(Errand(job))
  BY <1>1 DEF IsCurrent
<1>3. /\ StopAwaited => job.control = "stop"
      /\ job.open => /\ job.control # "stop"
                     /\ job.status \notin {"stopping", "waiting_authorization"}
  BY DEF HoldsInv, JobInv
<1>4. ~StopAwaited
  BY <1>1, <1>2, <1>3 DEF StillToSend, StopAwaited
<1>5. ASSUME Awaits PROVE Told
  <2>1. job.open /\ job.control # "stop" /\ job.executor \in {"pending", "accepted"}
    BY <1>3, <1>5 DEF Awaits
  <2>2. \/ job.status = "waiting_input"
        \/ job.control = "input" /\ job.acknowledged
        \/ job.control # "input" /\ job.executor # "pending"
    BY <1>1, <1>2, <1>3, <2>1 DEF StillToSend
  <2> QED
    BY <2>1, <2>2 DEF HoldsInv, ToldInv
<1> QED
  BY <1>4, <1>5

LEMMA Looked ==
  ASSUME Typed, HoldsInv, ~Over, NEW e \in errands, LookAtErrand(e)
  PROVE  Typed' /\ HoldsInv'
<1> DEFINE new == [errand |-> e, send |-> StillToSend(e)]
<1>1. /\ UNCHANGED <<job, authority, errands, contractor, post, handedOver, margin>>
      /\ courier' = courier \cup {new}
  BY DEF LookAtErrand
<1>2. new \in Decided /\ new.errand = e /\ (new.send <=> StillToSend(e))
  <2>1. e \in Errands /\ StillToSend(e) \in BOOLEAN
    BY DEF Typed, StillToSend
  <2> QED
    BY <2>1 DEF Decided
<1> HIDE DEF new
<1>3. Typed'
  BY <1>1, <1>2 DEF Typed, PostTyped
<1>4. JobInv' /\ WorkInv' /\ HandoverInv'
  BY <1>1 DEF HoldsInv, JobInv, WorkInv, HandoverInv, Over, StopAwaited
<1>5. ItemsInv'
  <2>1. Items' \subseteq Items /\ Errand(job') = Errand(job)
    BY <1>1, <1>2 DEF Items
  <2> QED
    BY <1>1, <2>1 DEF HoldsInv, ItemsInv
<1>6. ToldInv'
  <2>1. /\ Errand(job)' = Errand(job) /\ (Told' <=> Told)
        /\ (StopAwaited' <=> StopAwaited) /\ (Awaits' <=> Awaits)
    BY <1>1 DEF Told, StopAwaited, Awaits
  <2>2. ~new.send /\ new.errand = Errand(job) => ~StopAwaited /\ (Awaits => Told)
    BY <1>2, SentWhenNeeded
  <2>3. \A c \in courier' : ~c.send /\ c.errand = Errand(job)
                              => ~StopAwaited /\ (Awaits => Told)
    BY <1>1, <2>2 DEF HoldsInv, ToldInv
  <2> QED
    BY <1>1, <2>1, <2>3 DEF HoldsInv, ToldInv
<1> QED
  BY <1>3, <1>4, <1>5, <1>6 DEF HoldsInv

LEMMA Dropped ==
  ASSUME Typed, HoldsInv, ~Over, NEW c \in courier, DropErrand(c)
  PROVE  Typed' /\ HoldsInv'
<1>1. /\ UNCHANGED <<job, authority, contractor, post, handedOver, margin>>
      /\ errands' = errands \ {c.errand} /\ courier' \subseteq courier /\ ~c.send
  BY DEF DropErrand
<1>2. Typed'
  BY <1>1 DEF Typed, PostTyped
<1>3. JobInv' /\ HandoverInv'
  BY <1>1, HandoverKept DEF HoldsInv, JobInv, Over, StopAwaited
<1>4. (StopAwaited' <=> StopAwaited) /\ (Awaits' <=> Awaits)
  BY <1>1 DEF StopAwaited, Awaits
<1>5. Errand(job) \in errands /\ Errand(job) \notin errands'
        => ~StopAwaited' /\ (Awaits' => Told)
  BY <1>1, <1>4 DEF HoldsInv, ToldInv
<1>6. ItemsInv' /\ WorkInv' /\ ToldInv'
  BY <1>1, <1>4, <1>5, Uninstructed
<1> QED
  BY <1>2, <1>3, <1>6 DEF HoldsInv

LEMMA CutShort ==
  ASSUME Typed, HoldsInv, ~Over, NEW c \in courier, CutOff(c)
  PROVE  Typed' /\ HoldsInv'
<1>1. /\ UNCHANGED <<job, authority, errands, contractor, post, handedOver>>
      /\ courier' \subseteq courier /\ Uses("mishaps")
      /\ job \in Jobs /\ authority \in Authorities /\ handedOver \subseteq Pieces
      /\ job.sequence <= job.sequence
  BY Numbers DEF CutOff, Typed
<1>2. Typed'
  BY <1>1, Kept, Paid
<1>3. JobInv' /\ HandoverInv'
  BY <1>1, HandoverKept DEF HoldsInv, JobInv, Over, StopAwaited
<1>4. ItemsInv' /\ WorkInv' /\ ToldInv'
  BY <1>1, Uninstructed DEF StopAwaited, Awaits
<1> QED
  BY <1>2, <1>3, <1>4 DEF HoldsInv

LEMMA Refused ==
  ASSUME Typed, HoldsInv, ~Over, NEW c \in courier, RefuseErrand(c)
  PROVE  Typed' /\ HoldsInv'
<1>1. /\ UNCHANGED <<authority, contractor, post, handedOver, margin>>
      /\ courier' \subseteq courier /\ c.errand.order # "stop"
      /\ authority \in Authorities /\ handedOver \subseteq Pieces
  BY DEF RefuseErrand, Typed
<1>2. CASE UNCHANGED <<job, errands>>
  <2>1. Typed'
    BY <1>1, <1>2 DEF Typed, PostTyped
  <2>2. JobInv' /\ HandoverInv'
    BY <1>1, <1>2, HandoverKept DEF HoldsInv, JobInv, Over, StopAwaited
  <2>3. ItemsInv' /\ WorkInv' /\ ToldInv'
    BY <1>1, <1>2, Uninstructed DEF StopAwaited, Awaits
  <2> QED
    BY <2>1, <2>2, <2>3 DEF HoldsInv
<1>3. CASE AsksToStop(FALSE, {c.errand})
  <2>1. /\ job' = StopAsked(FALSE)
        /\ errands' = (errands \ {c.errand}) \cup (IF AsksAnew THEN {Errand(job')} ELSE {})
    BY <1>3 DEF AsksToStop
  <2>2. \A e \in errands \ errands' : e.order # "stop"
    BY <1>1, <2>1
  <2>3. Typed'
    BY <1>1, <2>1, StopTyped, Kept DEF Typed
  <2> QED
    BY <1>1, <2>1, <2>2, <2>3, StopAskedFor
<1> QED
  BY <1>2, <1>3 DEF RefuseErrand

(* What a delivery leaves of an executor's work. *)
LEMMA DeliveredTyped ==
  ASSUME NEW x \in Contractors, NEW e \in Errands
  PROVE  /\ Delivered(x, e) \in Contractors
         /\ x.cites <= Delivered(x, e).cites
         /\ x.state = "stopped" <=> Delivered(x, e).state = "stopped"
         /\ \/ /\ Delivered(x, e).knows = x.knows /\ Delivered(x, e).cites = x.cites
               /\ e.input < x.cites
            \/ /\ x.cites <= e.input /\ Delivered(x, e).cites = e.input
               /\ Delivered(x, e).knows = IF e.order = "stop" THEN x.knows ELSE e.input
<1>1. /\ x.cites \in 0 .. MaxInputs /\ x.knows \in 0 .. MaxInputs /\ x.cites \in Nat
      /\ e.input \in 0 .. MaxInputs /\ e.input \in Nat /\ e.order \in Orders
      /\ x.state \in {"none", "working", "stopped"} /\ x.askedToStop \in BOOLEAN
  BY Bounds DEF Contractors, Errands, Inputs
<1>2. CASE e.input < x.cites
  BY <1>1, <1>2 DEF Delivered
<1>3. CASE ~(e.input < x.cites)
  <2> DEFINE k == IF e.order = "stop" THEN x.knows ELSE e.input
             s == IF e.order # "stop" /\ x.state = "none" THEN "working" ELSE x.state
             a == x.askedToStop \/ e.order = "stop"
  <2>1. Delivered(x, e) = [x EXCEPT !.cites = e.input, !.order = e.order, !.askedToStop = a,
                                    !.knows = k, !.state = s]
    BY <1>3 DEF Delivered
  <2>2. /\ k \in 0 .. MaxInputs /\ s \in {"none", "working", "stopped"} /\ a \in BOOLEAN
        /\ x.state = "stopped" <=> s = "stopped"
    BY <1>1
  <2>3. x.cites <= e.input
    BY <1>1, <1>3
  <2> HIDE DEF k, s, a
  <2>4. /\ Delivered(x, e) \in Contractors /\ Delivered(x, e).cites = e.input
        /\ Delivered(x, e).knows = k /\ Delivered(x, e).state = s
    BY <1>1, <2>1, <2>2 DEF Contractors
  <2> QED
    BY <2>2, <2>3, <2>4 DEF k
<1> QED
  BY <1>2, <1>3

LEMMA Sent ==
  ASSUME Typed, HoldsInv, ~Over, NEW c \in courier, SendErrand(c)
  PROVE  Typed' /\ HoldsInv'
<1> DEFINE e == c.errand
           g == c.errand.generation
<1>1. /\ UNCHANGED <<job, authority, post, handedOver, margin>>
      /\ courier' \subseteq courier
      /\ contractor' = [contractor EXCEPT ![g] = Delivered(contractor[g], e)]
      /\ errands' \subseteq errands
      /\ \/ errands' = errands
         \/ /\ g # job.generation \/ e.input # job.input
            /\ errands' = errands \ {e}
  <2>1. contractor' = [contractor EXCEPT ![g] = Delivered(contractor[g], e)]
    BY DEF SendErrand
  <2>2. /\ UNCHANGED <<job, authority, post, handedOver, margin>>
        /\ courier' = courier \ {c}
        /\ \/ errands' = errands
           \/ /\ g # job.generation \/ e.input # job.input
              /\ errands' = errands \ {e}
    BY DEF SendErrand
  <2> HIDE DEF e, g
  <2> QED
    BY <2>1, <2>2
<1>2. /\ e \in Items /\ e \in Errands /\ g \in Pieces /\ e.input \in Nat /\ g \in Nat
      /\ contractor[g] \in Contractors /\ contractor \in [Pieces -> Contractors]
      /\ job.generation \in Pieces /\ job.generation \in Nat /\ job.input \in Nat
  <2>1. e \in Items
    BY DEF Items
  <2> QED
    BY <2>1, Counted, Numbers DEF Typed
<1> HIDE DEF e, g
<1>3. /\ g <= job.generation
      /\ g = job.generation => e.input <= job.input /\ (job.open => e.order # "stop")
  BY <1>2 DEF HoldsInv, ItemsInv, g, e
<1>4. /\ contractor' \in [Pieces -> Contractors]
      /\ contractor'[g] = Delivered(contractor[g], e)
      /\ \A p \in Pieces : p # g => contractor'[p] = contractor[p]
  BY <1>1, <1>2, DeliveredTyped
<1>5. Typed'
  BY <1>1, <1>4 DEF Typed, PostTyped
<1>6. \A p \in Pieces : /\ contractor[p].knows \in Nat /\ contractor[p].cites \in Nat
                        /\ contractor'[p].knows \in Nat /\ contractor'[p].cites \in Nat
                        /\ contractor[p].cites <= contractor'[p].cites
                        /\ contractor[p].state = "stopped" <=> contractor'[p].state = "stopped"
  <2>1. \A p \in Pieces : contractor'[p] \in Contractors /\ contractor[p] \in Contractors
    BY <1>2, <1>4
  <2>2. \A x \in Contractors : x.knows \in Nat /\ x.cites \in Nat /\ x.cites <= x.cites
    BY Bounds DEF Contractors
  <2> QED
    BY <1>2, <1>4, <2>1, <2>2, DeliveredTyped
<1>7. /\ \A p \in Pieces : /\ contractor[p].knows <= contractor[p].cites
                           /\ p > job.generation => contractor[p].cites = 0
      /\ contractor[job.generation].cites <= job.input
      /\ job.open => contractor[job.generation].knows = contractor[job.generation].cites
  BY DEF HoldsInv, WorkInv
<1>8. \/ /\ contractor'[g].knows = contractor[g].knows /\ contractor'[g].cites = contractor[g].cites
      \/ /\ contractor[g].cites <= e.input /\ contractor'[g].cites = e.input
         /\ contractor'[g].knows = IF e.order = "stop" THEN contractor[g].knows ELSE e.input
  BY <1>2, <1>4, DeliveredTyped
<1>9. /\ contractor'[g].knows <= contractor'[g].cites
      /\ g = job.generation =>
            /\ contractor'[g].cites <= job.input
            /\ job.open => contractor'[g].knows = contractor'[g].cites
            /\ Told => contractor'[g].knows = job.input
  <2>1. contractor[g].knows <= contractor[g].cites /\ contractor[g].knows \in Nat
        /\ contractor[g].cites \in Nat
    BY <1>2, <1>6, <1>7
  <2>2. Told /\ g = job.generation => contractor[g].knows = job.input
    BY DEF Told
  <2> QED
    BY <1>2, <1>3, <1>7, <1>8, <2>1, <2>2
<1>10. Told => Told'
  <2>1. CASE g = job.generation
    BY <1>1, <1>9, <2>1 DEF Told
  <2>2. CASE g # job.generation
    BY <1>1, <1>2, <1>4, <2>2 DEF Told
  <2> QED
    BY <2>1, <2>2
<1>11. WorkInv'
  <2>1. \A p \in Pieces : /\ contractor'[p].knows <= contractor'[p].cites
                          /\ p > job.generation => contractor'[p].cites = 0
    BY <1>2, <1>3, <1>4, <1>7, <1>9
  <2>2. /\ contractor'[job.generation].cites <= job.input
        /\ job.open => contractor'[job.generation].knows = contractor'[job.generation].cites
    BY <1>2, <1>4, <1>7, <1>9
  <2>3. ASSUME NEW u \in post
        PROVE  /\ u.generation <= job.generation
               /\ u.input <= contractor'[u.generation].cites
               /\ u.what = "stopped" => contractor'[u.generation].state = "stopped"
    <3>1. u.generation \in Pieces /\ u.input \in Nat
      BY Counted
    <3>2. /\ u.generation <= job.generation
          /\ u.input <= contractor[u.generation].cites
          /\ u.what = "stopped" => contractor[u.generation].state = "stopped"
      BY DEF HoldsInv, WorkInv
    <3> QED
      BY <1>6, <3>1, <3>2
  <2> QED
    BY <1>1, <2>1, <2>2, <2>3 DEF WorkInv
<1>12. ItemsInv'
  <2>1. Items' \subseteq Items /\ Errand(job') = Errand(job)
    BY <1>1 DEF Items
  <2> QED
    BY <1>1, <2>1 DEF HoldsInv, ItemsInv
<1>13. ToldInv'
  <2>1. /\ Errand(job)' = Errand(job)
        /\ (StopAwaited' <=> StopAwaited) /\ (Awaits' <=> Awaits)
    BY <1>1 DEF StopAwaited, Awaits
  <2>2. Errand(job) \in errands => Errand(job) \in errands'
    <3>1. Errand(job).generation = job.generation /\ Errand(job).input = job.input
      BY ErrandTyped DEF Typed
    <3> QED
      BY <1>1, <3>1 DEF g, e
  <2> QED
    BY <1>1, <1>10, <2>1, <2>2 DEF HoldsInv, ToldInv, Over
<1>14. JobInv' /\ HandoverInv'
  <2>1. JobInv'
    BY <1>1 DEF HoldsInv, JobInv, Over, StopAwaited
  <2>2. handedOver \subseteq Pieces
    BY DEF Typed
  <2> QED
    BY <1>1, <1>2, <1>6, <2>1, <2>2 DEF HoldsInv, HandoverInv
<1> QED
  BY <1>5, <1>11, <1>12, <1>13, <1>14 DEF HoldsInv

-----------------------------------------------------------------------------
(* The executor and its updates                                            *)

LEMMA Reported ==
  ASSUME Typed, HoldsInv, ~Over, NEW g \in Pieces, Report(g)
  PROVE  Typed' /\ HoldsInv'
<1>1. /\ UNCHANGED <<job, authority, errands, courier, handedOver>>
      /\ post = {} /\ contractor[g].cites # 0 /\ contractor[g].state # "stopped"
      /\ margin.reports > 0 /\ margin' = [margin EXCEPT !.reports = @ - 1]
  BY DEF Report, Uses
<1>2. PICK what \in {"ack", "claim", "waiting_input", "failed", "completed",
                     "stopped", "stop_rejected"} :
        /\ post' = {[generation |-> g, input |-> contractor[g].cites, what |-> what,
                     order |-> contractor[g].order,
                     sequence |-> IF what \in {"ack", "claim"} THEN 0
                                  ELSE IF g = job.generation THEN job.sequence + 1 ELSE 1]}
        /\ contractor' = [contractor EXCEPT ![g].state = IF what = "stopped" THEN what ELSE @]
  BY DEF Report
<1> DEFINE n == IF what \in {"ack", "claim"} THEN 0
                ELSE IF g = job.generation THEN job.sequence + 1 ELSE 1
           new == [generation |-> g, input |-> contractor[g].cites, what |-> what,
                   order |-> contractor[g].order, sequence |-> n]
           s == IF what = "stopped" THEN "stopped" ELSE contractor[g].state
<1>3. /\ job.sequence \in Nat /\ margin.reports \in Nat
      /\ job.sequence + margin.reports <= MaxReports
      /\ contractor[g] \in Contractors /\ contractor \in [Pieces -> Contractors]
  BY Numbers DEF Typed, PostTyped
<1>4. n \in 0 .. MaxReports + 1
  BY <1>1, <1>3, Bounds
<1>5. contractor[g].cites \in Inputs /\ contractor[g].order \in Orders
  BY <1>1, <1>3, Bounds DEF Contractors, Inputs
<1>6. new \in Updates
  <2> HIDE DEF n
  <2> QED
    BY <1>4, <1>5 DEF Updates
<1>7. post' = {new}
  BY <1>2
<1>8. /\ contractor' \in [Pieces -> Contractors]
      /\ \A p \in Pieces : /\ contractor'[p].knows = contractor[p].knows
                           /\ contractor'[p].cites = contractor[p].cites
                           /\ contractor[p].state = "stopped" => contractor'[p].state = "stopped"
      /\ what = "stopped" => contractor'[g].state = "stopped"
  <2>1. /\ [contractor[g] EXCEPT !.state = s] \in Contractors
        /\ [contractor[g] EXCEPT !.state = s].knows = contractor[g].knows
        /\ [contractor[g] EXCEPT !.state = s].cites = contractor[g].cites
        /\ [contractor[g] EXCEPT !.state = s].state = s
    BY <1>3 DEF Contractors
  <2>2. contractor' = [contractor EXCEPT ![g] = [contractor[g] EXCEPT !.state = s]]
    BY <1>2
  <2> QED
    BY <1>1, <1>3, <2>1, <2>2
<1>9. Typed'
  <2>1. margin' \in [orders: 0 .. MaxOrders, reports: 0 .. MaxReports, mishaps: 0 .. MaxMishaps]
        /\ margin'.reports = margin.reports - 1
    BY <1>1, <1>3, Bounds DEF Typed
  <2>2. PostTyped'
    BY <1>1, <1>3, <1>6, <1>7, <2>1, Bounds DEF PostTyped
  <2> QED
    BY <1>1, <1>8, <2>1, <2>2 DEF Typed
<1>10. job.generation \in Pieces
  BY Numbers
<1>11. WorkInv'
  <2>1. /\ g <= job.generation /\ contractor[g].cites <= contractor[g].cites
    <3>1. g \in Nat /\ job.generation \in Nat /\ contractor[g].cites \in Nat
      BY Counted, Numbers
    <3> QED
      BY <1>1, <3>1 DEF HoldsInv, WorkInv
  <2>2. \A u \in post' : /\ u.generation = g /\ u.input = contractor[g].cites
                         /\ u.what = what
    BY <1>2
  <2>3. \A u \in post' : /\ u.generation <= job.generation
                         /\ u.input <= contractor'[u.generation].cites
                         /\ u.what = "stopped" => contractor'[u.generation].state = "stopped"
    BY <1>8, <2>1, <2>2
  <2> QED
    BY <1>1, <1>8, <1>10, <2>3 DEF HoldsInv, WorkInv
<1>12. ItemsInv' /\ ToldInv' /\ JobInv'
  <2>1. /\ Errand(job)' = Errand(job) /\ (Told' <=> Told) /\ Items' = Items
        /\ (StopAwaited' <=> StopAwaited) /\ (Awaits' <=> Awaits) /\ (Over' <=> Over)
    BY <1>1, <1>8, <1>10 DEF StopAwaited, Awaits, Told, Over, Items
  <2> QED
    BY <1>1, <2>1 DEF HoldsInv, ItemsInv, ToldInv, JobInv
<1>13. HandoverInv'
  BY <1>1, <1>8, <1>10 DEF HoldsInv, HandoverInv, Typed
<1> QED
  BY <1>9, <1>11, <1>12, <1>13 DEF HoldsInv

LEMMA ReportLost ==
  ASSUME Typed, HoldsInv, ~Over, LoseReport
  PROVE  Typed' /\ HoldsInv'
<1>1. /\ UNCHANGED <<job, authority, errands, courier, contractor, handedOver, margin>>
      /\ post' = {} /\ job \in Jobs /\ authority \in Authorities /\ handedOver \subseteq Pieces
      /\ job.sequence <= job.sequence
  BY Numbers DEF LoseReport, Typed
<1>2. Typed'
  BY <1>1, Kept DEF Typed
<1>3. JobInv' /\ HandoverInv'
  BY <1>1, HandoverKept DEF HoldsInv, JobInv, Over, StopAwaited
<1>4. ItemsInv' /\ WorkInv' /\ ToldInv'
  BY <1>1, Uninstructed DEF StopAwaited, Awaits
<1> QED
  BY <1>2, <1>3, <1>4 DEF HoldsInv

(* An update that fits says that the newest input was given, unless a stop *)
(* was sent since.                                                         *)
LEMMA FitsTold ==
  ASSUME Typed, HoldsInv, NEW u \in post, Fits(u)
  PROVE  /\ job.open => Told
         /\ u.what = "stopped" => contractor[job.generation].state = "stopped"
         /\ post # {} /\ post \ {u} = {} /\ job.sequence + 1 \in 0 .. MaxReports
<1>1. /\ job.generation \in Pieces /\ job.input \in Nat /\ job.sequence \in Nat
      /\ margin.reports \in Nat
  BY Numbers
<1>2. /\ u.generation = job.generation /\ u.input = job.input
  BY DEF Fits
<1>3. contractor[job.generation].cites \in Nat
  BY <1>1, Counted
<1>4. /\ u.input <= contractor[job.generation].cites
      /\ contractor[job.generation].cites <= job.input
      /\ job.open => contractor[job.generation].knows = contractor[job.generation].cites
      /\ u.what = "stopped" => contractor[job.generation].state = "stopped"
  BY <1>2 DEF HoldsInv, WorkInv
<1>5. job.open => Told
  BY <1>1, <1>2, <1>3, <1>4 DEF Told
<1>6. /\ post \ {u} = {} /\ job.sequence + margin.reports < MaxReports
  BY DEF Typed, PostTyped
<1> QED
  BY <1>1, <1>4, <1>5, <1>6, Bounds

(* What the acceptance of any update leaves. *)
LEMMA Accepted ==
  ASSUME Typed, HoldsInv, ~Over, NEW u \in post, NEW j, Accepts(u, j), j \in Jobs,
         j.generation = job.generation, j.input = job.input,
         j.control = job.control, j.queued = job.queued,
         j.open => job.open,
         j.sequence = job.sequence \/ j.sequence = job.sequence + 1,
         j.stop \in {"requested", "unknown"} => StopAwaited,
         j.open /\ j.executor \in {"pending", "accepted"} => Awaits
  PROVE  Typed' /\ ItemsInv' /\ WorkInv' /\ ToldInv'
<1>1. /\ UNCHANGED <<authority, errands, courier, contractor, handedOver, margin>>
      /\ job' = j /\ post' = post \ {u} /\ Fits(u)
      /\ authority \in Authorities /\ handedOver \subseteq Pieces
      /\ job.sequence <= job.sequence
  BY Numbers DEF Accepts, Typed
<1>2. /\ job.open => Told
      /\ post # {} /\ post \ {u} = {}
  BY <1>1, FitsTold
<1>3. Typed'
  BY <1>1, <1>2, Kept DEF Typed
<1>4. (StopAwaited' => StopAwaited) /\ (Awaits' => Awaits)
  BY <1>1 DEF StopAwaited, Awaits
<1>5. ItemsInv' /\ WorkInv' /\ ToldInv'
  BY <1>1, <1>2, <1>4, Uninstructed
<1> QED
  BY <1>3, <1>5

LEMMA AckAccepted ==
  ASSUME Typed, HoldsInv, ~Over, NEW u \in post, AcceptAck(u)
  PROVE  Typed' /\ HoldsInv'
<1> DEFINE j == [job EXCEPT !.acknowledged = TRUE]
<1>1. Accepts(u, j)
  BY DEF AcceptAck
<1>2. /\ j \in Jobs /\ j.generation = job.generation /\ j.input = job.input
      /\ j.control = job.control /\ j.queued = job.queued /\ j.open = job.open
      /\ j.sequence = job.sequence /\ j.stop = job.stop /\ j.executor = job.executor
      /\ j.status = job.status
  BY DEF Typed, Jobs
<1> HIDE DEF j
<1>3. Typed' /\ ItemsInv' /\ WorkInv' /\ ToldInv'
  BY <1>1, <1>2, Accepted DEF StopAwaited, Awaits
<1>4. job' = j /\ UNCHANGED <<contractor, handedOver>>
  BY <1>1 DEF Accepts
<1>5. JobInv' /\ HandoverInv'
  BY <1>2, <1>4, HandoverKept DEF HoldsInv, JobInv, Over, StopAwaited
<1> QED
  BY <1>3, <1>5 DEF HoldsInv

LEMMA ClaimAccepted ==
  ASSUME Typed, HoldsInv, ~Over, NEW u \in post, AcceptClaim(u)
  PROVE  Typed' /\ HoldsInv'
<1> DEFINE j == [job EXCEPT !.executor = "accepted", !.status = "running", !.lease = "live"]
<1>1. /\ Accepts(u, j) /\ job.executor = "pending"
      /\ job.status \notin {"stopping", "waiting_authorization"}
  BY DEF AcceptClaim
<1>2. /\ j \in Jobs /\ j.generation = job.generation /\ j.input = job.input
      /\ j.control = job.control /\ j.queued = job.queued /\ j.open = job.open
      /\ j.sequence = job.sequence /\ j.stop = job.stop /\ j.executor = "accepted"
      /\ j.status = "running"
  BY DEF Typed, Jobs
<1> HIDE DEF j
<1>3. Typed' /\ ItemsInv' /\ WorkInv' /\ ToldInv'
  BY <1>1, <1>2, Accepted DEF StopAwaited, Awaits
<1>4. job' = j /\ UNCHANGED <<contractor, handedOver>>
  BY <1>1 DEF Accepts
<1>5. ~StopAwaited /\ job.stop # "confirmed"
  BY <1>1 DEF HoldsInv, JobInv
<1>6. JobInv' /\ HandoverInv'
  BY <1>2, <1>4, <1>5, HandoverKept DEF HoldsInv, JobInv, Over, StopAwaited
<1> QED
  BY <1>3, <1>6 DEF HoldsInv

LEMMA ProgressAccepted ==
  ASSUME Typed, HoldsInv, ~Over, NEW u \in post, AcceptProgress(u)
  PROVE  Typed' /\ HoldsInv'
<1> DEFINE s == IF u.what = "completed" THEN "running" ELSE u.what
           x == IF u.what = "completed" THEN u.what ELSE job.executor
           j == [job EXCEPT !.sequence = u.sequence, !.status = s, !.executor = x]
<1>1. /\ Accepts(u, j) /\ u.sequence = job.sequence + 1
      /\ job.executor \in {"accepted", "stop_rejected"}
      /\ u.what \in {"waiting_input", "failed", "completed"}
      /\ job.status # "waiting_authorization"
      /\ u.what = "waiting_input" => job.status # "stopping"
  BY DEF AcceptProgress
<1>2. u.sequence \in 0 .. MaxReports
  BY <1>1, FitsTold DEF Accepts
<1>3. \/ u.what = "waiting_input" /\ s = "waiting_input" /\ x = job.executor
      \/ u.what = "failed" /\ s = "failed" /\ x = job.executor
      \/ u.what = "completed" /\ s = "running" /\ x = "completed"
  BY <1>1
<1> HIDE DEF s, x
<1>4. /\ j \in Jobs /\ j.generation = job.generation /\ j.input = job.input
      /\ j.control = job.control /\ j.queued = job.queued /\ j.open = job.open
      /\ j.sequence = job.sequence + 1 /\ j.stop = job.stop /\ j.executor = x
      /\ j.status = s
  BY <1>1, <1>2, <1>3 DEF Typed, Jobs
<1> HIDE DEF j
<1>5. Typed' /\ ItemsInv' /\ WorkInv' /\ ToldInv'
  BY <1>1, <1>3, <1>4, Accepted DEF StopAwaited, Awaits
<1>6. job' = j /\ UNCHANGED <<contractor, handedOver>>
  BY <1>1 DEF Accepts
<1>7. JobInv' /\ HandoverInv'
  <2>1. ~Over' => job.status # "stopping" /\ s = "waiting_input"
    BY <1>1, <1>3, <1>4, <1>6 DEF Over
  <2>2. ~Over' => ~StopAwaited /\ job.stop # "confirmed"
    BY <1>1, <2>1 DEF HoldsInv, JobInv
  <2>3. JobInv'
    BY <1>4, <1>6, <2>1, <2>2 DEF HoldsInv, JobInv, StopAwaited
  <2>4. HandoverInv'
    BY <1>4, <1>6, HandoverKept
  <2> QED
    BY <2>3, <2>4
<1> QED
  BY <1>5, <1>7 DEF HoldsInv

LEMMA StopAccepted ==
  ASSUME Typed, HoldsInv, ~Over, NEW u \in post, AcceptStopped(u)
  PROVE  Typed' /\ HoldsInv'
<1> DEFINE s == IF job.status = "waiting_authorization" THEN job.status ELSE "stopped"
           j == [job EXCEPT !.sequence = u.sequence, !.open = FALSE, !.stop = "confirmed",
                            !.executor = "stopped", !.status = s]
<1>1. /\ Accepts(u, j) /\ u.sequence = job.sequence + 1 /\ u.what = "stopped"
  BY DEF AcceptStopped
<1>2. /\ u.sequence \in 0 .. MaxReports
      /\ contractor[job.generation].state = "stopped"
  BY <1>1, FitsTold DEF Accepts
<1>3. s \in {"waiting_authorization", "stopped"}
  OBVIOUS
<1> HIDE DEF s
<1>4. /\ j \in Jobs /\ j.generation = job.generation /\ j.input = job.input
      /\ j.control = job.control /\ j.queued = job.queued /\ ~j.open
      /\ j.sequence = job.sequence + 1 /\ j.stop = "confirmed" /\ j.executor = "stopped"
      /\ j.status = s
  BY <1>1, <1>2, <1>3 DEF Typed, Jobs
<1> HIDE DEF j
<1>5. Typed' /\ ItemsInv' /\ WorkInv' /\ ToldInv'
  BY <1>1, <1>4, Accepted
<1>6. job' = j /\ UNCHANGED <<contractor, handedOver>>
  BY <1>1 DEF Accepts
<1>7. JobInv'
  BY <1>3, <1>4, <1>6 DEF JobInv, Over, StopAwaited
<1>8. HandoverInv'
  BY <1>2, <1>4, <1>6 DEF HoldsInv, HandoverInv
<1> QED
  BY <1>5, <1>7, <1>8 DEF HoldsInv

LEMMA RejectionAccepted ==
  ASSUME Typed, HoldsInv, ~Over, NEW u \in post, AcceptRejection(u)
  PROVE  Typed' /\ HoldsInv'
<1> DEFINE s == IF job.revoked \/ job.status = "waiting_authorization" THEN job.status
                ELSE "running"
           j == [job EXCEPT !.sequence = u.sequence, !.open = FALSE, !.stop = "rejected",
                            !.executor = "stop_rejected", !.status = s]
<1>1. /\ Accepts(u, j) /\ u.sequence = job.sequence + 1
  BY DEF AcceptRejection
<1>2. u.sequence \in 0 .. MaxReports
  BY <1>1, FitsTold DEF Accepts
<1>3. s = job.status \/ s = "running"
  OBVIOUS
<1> HIDE DEF s
<1>4. /\ j \in Jobs /\ j.generation = job.generation /\ j.input = job.input
      /\ j.control = job.control /\ j.queued = job.queued /\ ~j.open
      /\ j.sequence = job.sequence + 1 /\ j.stop = "rejected" /\ j.executor = "stop_rejected"
      /\ j.status = s
  BY <1>1, <1>2, <1>3 DEF Typed, Jobs
<1> HIDE DEF j
<1>5. Typed' /\ ItemsInv' /\ WorkInv' /\ ToldInv'
  BY <1>1, <1>4, Accepted
<1>6. job' = j /\ UNCHANGED <<contractor, handedOver>>
  BY <1>1 DEF Accepts
<1>7. JobInv'
  BY <1>4, <1>6 DEF JobInv, StopAwaited
<1>8. HandoverInv'
  BY <1>4, <1>6, HandoverKept
<1> QED
  BY <1>5, <1>7, <1>8 DEF HoldsInv

-----------------------------------------------------------------------------
(* All steps                                                               *)

LEMMA InitHolds == ThirdPartyInit => Typed /\ HoldsInv
<1> SUFFICES ASSUME ThirdPartyInit PROVE Typed /\ HoldsInv
  OBVIOUS
<1>1. PICK s \in BOOLEAN :
        job = [status |-> "accepted", executor |-> "pending", stop |-> "none",
               lease |-> "none", generation |-> 1, input |-> 1, sequence |-> 0,
               control |-> "start", acknowledged |-> FALSE, open |-> TRUE,
               revoked |-> FALSE, supportsStop |-> s, queued |-> 1]
  BY DEF ThirdPartyInit
<1>2. 1 \in Pieces /\ 1 \in Inputs /\ 0 \in 0 .. MaxReports /\ 0 \in 0 .. MaxInputs
  BY Bounds DEF Pieces, Inputs
<1>3. job \in Jobs
  BY <1>1, <1>2 DEF Jobs, Orders
<1>4. /\ authority = "held" /\ errands = {Errand(job)} /\ courier = {}
      /\ contractor = [g \in Pieces |-> [state |-> "none", knows |-> 0, cites |-> 0,
                                         order |-> "start", askedToStop |-> FALSE]]
      /\ post = {} /\ handedOver = {}
      /\ margin = [orders |-> MaxOrders, reports |-> MaxReports, mishaps |-> MaxMishaps]
  BY DEF ThirdPartyInit
<1>5. Errand(job) \in Errands
  BY <1>3, ErrandTyped
<1>6. contractor \in [Pieces -> Contractors]
  BY <1>2, <1>4 DEF Contractors, Orders
<1>7. Typed
  <2>1. margin \in [orders: 0 .. MaxOrders, reports: 0 .. MaxReports, mishaps: 0 .. MaxMishaps]
    BY <1>4, Bounds
  <2>2. PostTyped
    BY <1>1, <1>4, Bounds DEF PostTyped
  <2> QED
    BY <1>3, <1>4, <1>5, <1>6, <2>1, <2>2 DEF Typed, Authorities
<1>8. /\ job.status = "accepted" /\ job.executor = "pending" /\ job.stop = "none"
      /\ job.generation = 1 /\ job.input = 1 /\ job.control = "start" /\ job.queued = 1
      /\ ~job.acknowledged /\ job.open
  BY <1>1
<1>9. JobInv
  BY <1>8 DEF JobInv, StopAwaited
<1>10. ItemsInv
  <2>1. Items = {Errand(job)}
    BY <1>4 DEF Items
  <2>2. /\ Errand(job).number = 1 /\ Errand(job).generation = 1 /\ Errand(job).input = 1
        /\ Errand(job).order = "start"
    BY <1>3, <1>8, ErrandTyped
  <2> QED
    BY <1>8, <2>1, <2>2 DEF ItemsInv
<1>11. \A g \in Pieces : contractor[g].knows = 0 /\ contractor[g].cites = 0
  BY <1>4
<1>12. WorkInv
  BY <1>2, <1>4, <1>8, <1>11 DEF WorkInv
<1>13. ToldInv /\ HandoverInv
  BY <1>4, <1>8 DEF ToldInv, HandoverInv, StopAwaited
<1> QED
  BY <1>7, <1>9, <1>10, <1>12, <1>13 DEF HoldsInv

LEMMA NextHolds == Typed /\ HoldsInv /\ [ThirdPartyNext]_thirdPartyVars => Typed' /\ HoldsInv'
<1> SUFFICES ASSUME Typed, HoldsInv, [ThirdPartyNext]_thirdPartyVars
             PROVE  Typed' /\ HoldsInv'
  OBVIOUS
<1>1. CASE UNCHANGED thirdPartyVars
  BY <1>1 DEF thirdPartyVars, Typed, PostTyped, HoldsInv, JobInv, ItemsInv, WorkInv, ToldInv,
              HandoverInv, Over, StopAwaited, Awaits, Told, Items, Errand
<1>2. CASE ThirdPartyNext
  <2>0. ~Over
    BY <1>2 DEF ThirdPartyNext
  <2>1. CASE GiveInput
    BY <2>0, <2>1, InputGiven
  <2>2. CASE StopJob
    BY <2>0, <2>2, StopSettled
  <2>3. CASE ResumeJob
    BY <2>0, <2>3, Resumed
  <2>4. CASE TakeOverJob
    BY <2>0, <2>4, TakenOver
  <2>5. CASE LoseAuthority
    BY <2>0, <2>5, AuthorityLost
  <2>6. CASE LeaseRunsOut
    BY <2>0, <2>6, LeaseRunOut
  <2>7. CASE NoticeLost
    BY <2>0, <2>7, LossNoticed
  <2>8. CASE NoticeDeparture
    BY <2>0, <2>8, DepartureNoticed
  <2>9. CASE NoticeRevocation
    BY <2>0, <2>9, RevocationNoticed
  <2>10. CASE StopUnanswered
    BY <2>0, <2>10, LeftUnanswered
  <2>11. CASE \E e \in errands : LookAtErrand(e)
    BY <2>0, <2>11, Looked
  <2>12. ASSUME NEW c \in courier, DropErrand(c) PROVE Typed' /\ HoldsInv'
    BY <2>0, <2>12, Dropped
  <2>13. ASSUME NEW c \in courier, CutOff(c) PROVE Typed' /\ HoldsInv'
    BY <2>0, <2>13, CutShort
  <2>14. ASSUME NEW c \in courier, RefuseErrand(c) PROVE Typed' /\ HoldsInv'
    BY <2>0, <2>14, Refused
  <2>15. ASSUME NEW c \in courier, SendErrand(c) PROVE Typed' /\ HoldsInv'
    BY <2>0, <2>15, Sent
  <2>16. CASE \E g \in Pieces : Report(g)
    BY <2>0, <2>16, Reported
  <2>17. CASE LoseReport
    BY <2>0, <2>17, ReportLost
  <2>18. ASSUME NEW u \in post, AcceptAck(u) PROVE Typed' /\ HoldsInv'
    BY <2>0, <2>18, AckAccepted
  <2>19. ASSUME NEW u \in post, AcceptClaim(u) PROVE Typed' /\ HoldsInv'
    BY <2>0, <2>19, ClaimAccepted
  <2>20. ASSUME NEW u \in post, AcceptProgress(u) PROVE Typed' /\ HoldsInv'
    BY <2>0, <2>20, ProgressAccepted
  <2>21. ASSUME NEW u \in post, AcceptStopped(u) PROVE Typed' /\ HoldsInv'
    BY <2>0, <2>21, StopAccepted
  <2>22. ASSUME NEW u \in post, AcceptRejection(u) PROVE Typed' /\ HoldsInv'
    BY <2>0, <2>22, RejectionAccepted
  <2> QED
    BY <1>2, <2>1, <2>2, <2>3, <2>4, <2>5, <2>6, <2>7, <2>8, <2>9, <2>10, <2>11, <2>12,
       <2>13, <2>14, <2>15, <2>16, <2>17, <2>18, <2>19, <2>20, <2>21, <2>22
       DEF ThirdPartyNext
<1> QED
  BY <1>1, <1>2

(* The row, the deliveries, the executor's work and its updates have their *)
(* types, at most one update is under way and the bounds are kept.         *)
THEOREM ThirdPartyTyped == ThirdPartySpec => []ThirdPartyTypeOK
<1>1. ThirdPartyInit => Typed /\ HoldsInv
  BY InitHolds
<1>2. Typed /\ HoldsInv /\ [ThirdPartyNext]_thirdPartyVars => (Typed /\ HoldsInv)'
  BY NextHolds
<1>3. Typed /\ HoldsInv => ThirdPartyTypeOK
  BY TypedIsTyped
<1> QED
  BY <1>1, <1>2, <1>3, PTL DEF ThirdPartySpec

(* The executor of a third party is told what the platform has accepted    *)
(* for it: deliverRun drops no instruction that is still needed, and a     *)
(* user takes a run over only when the work of the former controller has   *)
(* stopped, however late, lost or cut off deliveries and updates are.      *)
THEOREM ExecutorTold == ThirdPartySpec => []ExecutorHolds
<1>1. ThirdPartyInit => Typed /\ HoldsInv
  BY InitHolds
<1>2. Typed /\ HoldsInv /\ [ThirdPartyNext]_thirdPartyVars => (Typed /\ HoldsInv)'
  BY NextHolds
<1>3. Typed /\ HoldsInv => ExecutorHolds
  BY InvHolds
<1> QED
  BY <1>1, <1>2, <1>3, PTL DEF ThirdPartySpec

-----------------------------------------------------------------------------
(* A tree of delegated runs                                                *)

(* A non-empty set of naturals has a least element. *)
LEMMA Least ==
  ASSUME NEW S, S \subseteq Nat, S # {}
  PROVE  \E x \in S : \A y \in S : x <= y
<1>1. PICK x \in S : \A y \in S : ~(<<y, x>> \in OpToRel(<, Nat))
  BY NatLessThanWellFounded, WFMin, Zenon
<1>2. \A y \in S : ~(y < x)
  BY <1>1 DEF OpToRel
<1>3. x \in Nat /\ \A y \in S : y \in Nat
  OBVIOUS
<1> QED
  BY <1>2, <1>3

-----------------------------------------------------------------------------
(* The output that a tree has reserved                                      *)

SumOf(rows, S) == MapThenSumSet(LAMBDA d : rows[d].output, S)
Summed(f, rows, S) ==
    f = [s \in SUBSET S |->
           IF s = {} THEN 0
           ELSE LET x == CHOOSE y \in s : TRUE IN rows[x].output + f[s \ {x}]]

Folded(rows, S) ==
    CHOOSE f : f = [s \in SUBSET S |->
           IF s = {} THEN 0
           ELSE LET x == CHOOSE y \in s : TRUE IN rows[x].output + f[s \ {x}]]

LEMMA SumIs ==
  ASSUME NEW rows, NEW S PROVE SumOf(rows, S) = Folded(rows, S)[S]
  BY Zenon DEF SumOf, MapThenSumSet, MapThenFoldSet, Folded

(* A number for each unit of output of each of the runs. *)
Units(rows, S) == {p \in S \X Nat : 1 <= p[2] /\ p[2] <= rows[p[1]].output}
Own(rows, x) == {x} \X (1 .. rows[x].output)

LEMMA UnitsStep ==
  ASSUME NEW rows \in [Members -> TreeRuns], NEW S \in SUBSET Members, NEW x \in S
  PROVE  /\ Units(rows, S) = Units(rows, S \ {x}) \cup Own(rows, x)
         /\ Units(rows, S \ {x}) \cap Own(rows, x) = {}
         /\ IsFiniteSet(Own(rows, x))
         /\ Cardinality(Own(rows, x)) = rows[x].output
<1>1. rows[x].output \in Nat
  BY DEF TreeRuns
<1>2. Units(rows, S) = Units(rows, S \ {x}) \cup Own(rows, x)
  <2>1. ASSUME NEW p \in Units(rows, S)
        PROVE  p \in Units(rows, S \ {x}) \/ p \in Own(rows, x)
    BY DEF Units, Own
  <2>2. \A p \in Units(rows, S \ {x}) : p \in Units(rows, S)
    BY DEF Units
  <2>3. \A p \in Own(rows, x) : p \in Units(rows, S)
    BY DEF Units, Own
  <2> QED
    BY <2>1, <2>2, <2>3
<1>3. Units(rows, S \ {x}) \cap Own(rows, x) = {}
  BY DEF Units, Own
<1>4. /\ IsFiniteSet(1 .. rows[x].output)
      /\ Cardinality(1 .. rows[x].output) = rows[x].output
  <2> DEFINE n == rows[x].output
  <2>1. n \in Nat
    BY <1>1
  <2> HIDE DEF n
  <2>2. /\ IsFiniteSet(1 .. n)
        /\ Cardinality(1 .. n) = IF 1 > n THEN 0 ELSE n - 1 + 1
    BY <2>1, FS_Interval
  <2>3. Cardinality(1 .. n) = n
    BY <2>1, <2>2
  <2> QED
    BY <2>2, <2>3 DEF n
<1>5. IsFiniteSet({x}) /\ Cardinality({x}) = 1
  BY FS_Singleton
<1>6. /\ IsFiniteSet(Own(rows, x))
      /\ Cardinality(Own(rows, x)) = Cardinality({x}) * Cardinality(1 .. rows[x].output)
  BY <1>4, <1>5, FS_Product, Zenon DEF Own
<1>7. Cardinality({x}) * Cardinality(1 .. rows[x].output) = rows[x].output
  BY <1>1, <1>4, <1>5
<1>8. Cardinality(Own(rows, x)) = rows[x].output
  BY <1>6, <1>7, Zenon
<1> QED
  BY <1>2, <1>3, <1>6, <1>8, Zenon

LEMMA MembersFinite ==
  ASSUME NEW S \in SUBSET Members PROVE IsFiniteSet(S) /\ Cardinality(S) \in Nat
<1>1. IsFiniteSet(Members)
  BY DelegationAssumption, FS_Interval DEF Members
<1> QED
  BY <1>1, FS_Subset, FS_CardinalityType

(* Of the sets of runs of a kind there is a smallest. *)
LEMMA Smallest ==
  ASSUME NEW Sets, Sets \subseteq SUBSET Members, Sets # {}
  PROVE  \E S \in Sets : \A x \in S : S \ {x} \notin Sets
<1> DEFINE Sizes == {Cardinality(S) : S \in Sets}
<1>1. Sizes \subseteq Nat /\ Sizes # {}
  BY MembersFinite
<1>2. PICK k \in Sizes : \A l \in Sizes : k <= l
  <2> HIDE DEF Sizes
  <2> QED
    BY <1>1, Least, Zenon
<1>3. PICK S \in Sets : Cardinality(S) = k
  OBVIOUS
<1>4. ASSUME NEW x \in S, S \ {x} \in Sets PROVE FALSE
  <2>1. IsFiniteSet(S) /\ Cardinality(S) \in Nat
    BY MembersFinite
  <2>2. Cardinality(S \ {x}) = Cardinality(S) - 1
    BY <2>1, FS_RemoveElement
  <2>3. k <= Cardinality(S \ {x})
    BY <1>2, <1>4
  <2> QED
    BY <1>3, <2>1, <2>2, <2>3
<1> QED
  BY <1>4

LEMMA UnitsFinite ==
  ASSUME NEW rows \in [Members -> TreeRuns], NEW S \in SUBSET Members
  PROVE  IsFiniteSet(Units(rows, S)) /\ Cardinality(Units(rows, S)) \in Nat
<1> DEFINE Bad == {T \in SUBSET Members : ~IsFiniteSet(Units(rows, T))}
<1>1. ASSUME Bad # {} PROVE FALSE
  <2>1. PICK T \in Bad : \A x \in T : T \ {x} \notin Bad
    <3>1. Bad \subseteq SUBSET Members
      OBVIOUS
    <3> HIDE DEF Bad
    <3> QED
      BY <1>1, <3>1, Smallest, Zenon
  <2>2. T \in SUBSET Members /\ ~IsFiniteSet(Units(rows, T))
    OBVIOUS
  <2>3. CASE T = {}
    <3>1. Units(rows, T) = {}
      BY <2>3 DEF Units
    <3> QED
      BY <2>2, <3>1, FS_EmptySet
  <2>4. CASE T # {}
    <3>1. PICK x \in T : TRUE
      BY <2>4
    <3>2. IsFiniteSet(Units(rows, T \ {x}))
      BY <2>1, <2>2, <3>1
    <3>3. /\ Units(rows, T) = Units(rows, T \ {x}) \cup Own(rows, x)
          /\ IsFiniteSet(Own(rows, x))
      BY <2>2, <3>1, UnitsStep
    <3>4. IsFiniteSet(Units(rows, T))
      BY <3>2, <3>3, FS_Union
    <3> QED
      BY <2>2, <3>4
  <2> QED
    BY <2>3, <2>4
<1>2. IsFiniteSet(Units(rows, S))
  BY <1>1
<1> QED
  BY <1>2, FS_CardinalityType

LEMMA UnitsCount ==
  ASSUME NEW rows \in [Members -> TreeRuns], NEW S \in SUBSET Members, NEW x \in S
  PROVE  Cardinality(Units(rows, S))
         = rows[x].output + Cardinality(Units(rows, S \ {x}))
<1> DEFINE A == Units(rows, S \ {x})
           B == Own(rows, x)
<1>1. /\ Units(rows, S) = A \cup B /\ A \cap B = {}
      /\ IsFiniteSet(B) /\ Cardinality(B) = rows[x].output
  BY UnitsStep
<1>2. IsFiniteSet(A) /\ Cardinality(A) \in Nat
  BY UnitsFinite
<1>3. rows[x].output \in Nat
  BY DEF TreeRuns
<1> HIDE DEF A, B
<1>4. Cardinality(A \cup B) = Cardinality(A) + Cardinality(B) - Cardinality(A \cap B)
  BY <1>1, <1>2, FS_Union
<1>5. Cardinality(A \cap B) = 0
  BY <1>1, FS_EmptySet
<1> QED
  BY <1>1, <1>2, <1>3, <1>4, <1>5 DEF A

(* What MapThenSumSet adds up is their number. *)
LEMMA SumCounts ==
  ASSUME NEW rows \in [Members -> TreeRuns], NEW S \in SUBSET Members
  PROVE  SumOf(rows, S) = Cardinality(Units(rows, S))
<1> DEFINE G == [s \in SUBSET S |-> Cardinality(Units(rows, s))]
<1>1. PICK f : f = Folded(rows, S)
  OBVIOUS
<1>2. Summed(G, rows, S)
  <2>1. ASSUME NEW s \in SUBSET S
        PROVE  Cardinality(Units(rows, s))
               = IF s = {} THEN 0
                 ELSE LET x == CHOOSE y \in s : TRUE IN rows[x].output + G[s \ {x}]
    <3>1. CASE s = {}
      <4>1. Units(rows, s) = {}
        BY <3>1 DEF Units
      <4> QED
        BY <3>1, <4>1, FS_EmptySet
    <3>2. CASE s # {}
      <4>1. PICK x \in s : x = CHOOSE y \in s : TRUE
        BY <3>2
      <4>2. G[s \ {x}] = Cardinality(Units(rows, s \ {x}))
        OBVIOUS
      <4> HIDE DEF G
      <4>3. s \in SUBSET Members
        OBVIOUS
      <4>4. Cardinality(Units(rows, s)) = rows[x].output + G[s \ {x}]
        BY <4>2, <4>3, UnitsCount
      <4> QED
        BY <3>2, <4>1, <4>4
    <3> QED
      BY <3>1, <3>2
  <2>2. [s \in SUBSET S |-> Cardinality(Units(rows, s))]
        = [s \in SUBSET S |->
             IF s = {} THEN 0
             ELSE LET x == CHOOSE y \in s : TRUE IN rows[x].output + G[s \ {x}]]
    <3> HIDE DEF G
    <3> QED
      BY <2>1, Zenon
  <2> QED
    BY <2>2, Zenon DEF Summed
<1>3. Summed(f, rows, S)
  <2>1. \E g : Summed(g, rows, S)
    BY <1>2, Zenon
  <2> HIDE DEF G
  <2> QED
    BY <1>1, <2>1, Zenon DEF Summed, Folded
<1>4. \A s \in SUBSET S : s # {} => \E x \in s : f[s] = rows[x].output + f[s \ {x}]
  <2> SUFFICES ASSUME NEW s \in SUBSET S, s # {}
               PROVE  \E x \in s : f[s] = rows[x].output + f[s \ {x}]
    OBVIOUS
  <2>1. PICK x \in s : x = CHOOSE y \in s : TRUE
    OBVIOUS
  <2>2. f[s] = rows[x].output + f[s \ {x}]
    BY <1>3, <2>1, Zenon DEF Summed
  <2> QED
    BY <2>2
<1>5. f[{}] = 0
  <2>1. {} \in SUBSET S
    OBVIOUS
  <2> QED
    BY <1>3, <2>1, Zenon DEF Summed
<1> DEFINE Bad == {s \in SUBSET S : f[s] # Cardinality(Units(rows, s))}
<1>6. ASSUME Bad # {} PROVE FALSE
  <2>1. PICK s \in Bad : \A x \in s : s \ {x} \notin Bad
    <3>1. Bad \subseteq SUBSET Members
      OBVIOUS
    <3> HIDE DEF Bad
    <3> QED
      BY <1>6, <3>1, Smallest, Zenon
  <2>2. s \in SUBSET S /\ s \in SUBSET Members /\ f[s] # Cardinality(Units(rows, s))
    OBVIOUS
  <2>3. CASE s = {}
    <3>1. Units(rows, s) = {}
      BY <2>3 DEF Units
    <3> QED
      BY <1>5, <2>2, <2>3, <3>1, FS_EmptySet
  <2>4. CASE s # {}
    <3>1. PICK x \in s : f[s] = rows[x].output + f[s \ {x}]
      BY <1>4, <2>2, <2>4
    <3>2. f[s \ {x}] = Cardinality(Units(rows, s \ {x}))
      BY <2>1, <2>2, <3>1
    <3>3. Cardinality(Units(rows, s)) = rows[x].output + Cardinality(Units(rows, s \ {x}))
      BY <2>2, UnitsCount
    <3> QED
      BY <2>2, <3>1, <3>2, <3>3
  <2> QED
    BY <2>3, <2>4
<1>7. f[S] = Cardinality(Units(rows, S))
  BY <1>6
<1>8. SumOf(rows, S) = f[S]
  BY <1>1, SumIs
<1> QED
  BY <1>7, <1>8

(* One more unit of one run. *)
LEMMA SumOneMore ==
  ASSUME NEW rows \in [Members -> TreeRuns], NEW S \in SUBSET Members,
         NEW new \in [Members -> TreeRuns], NEW T \in SUBSET Members, NEW r \in T,
         T = S \cup {r},
         new[r].output = (IF r \in S THEN rows[r].output ELSE 0) + 1,
         \A d \in Members \ {r} : new[d].output = rows[d].output
  PROVE  SumOf(new, T) = SumOf(rows, S) + 1
<1> DEFINE n == IF r \in S THEN rows[r].output ELSE 0
<1>1. n \in Nat /\ new[r].output = n + 1 /\ rows[r].output \in Nat
  BY DEF TreeRuns
<1>2. <<r, n + 1>> \notin Units(rows, S)
  BY <1>1 DEF Units
<1>3. Units(new, T) = Units(rows, S) \cup {<<r, n + 1>>}
  <2>1. ASSUME NEW p \in Units(new, T)
        PROVE  p \in Units(rows, S) \cup {<<r, n + 1>>}
    <3>1. /\ p = <<p[1], p[2]>> /\ p[1] \in T /\ p[2] \in Nat /\ 1 <= p[2]
          /\ p[2] <= new[p[1]].output
      BY DEF Units
    <3>2. CASE p[1] = r
      <4>1. p[2] = n + 1 \/ p[2] <= n
        BY <1>1, <3>1, <3>2
      <4>2. CASE p[2] = n + 1
        BY <3>1, <3>2, <4>2
      <4>3. CASE p[2] <= n
        <5>1. r \in S /\ p[2] <= rows[r].output
          BY <1>1, <3>1, <4>3
        <5> QED
          BY <3>1, <3>2, <5>1 DEF Units
      <4> QED
        BY <4>1, <4>2, <4>3
    <3>3. CASE p[1] # r
      <4>1. p[1] \in S /\ new[p[1]].output = rows[p[1]].output
        BY <3>1, <3>3
      <4> QED
        BY <3>1, <4>1 DEF Units
    <3> QED
      BY <3>2, <3>3
  <2>2. ASSUME NEW p \in Units(rows, S) PROVE p \in Units(new, T)
    <3>1. /\ p = <<p[1], p[2]>> /\ p[1] \in S /\ p[2] \in Nat /\ 1 <= p[2]
          /\ p[2] <= rows[p[1]].output
      BY DEF Units
    <3>2. p[2] <= new[p[1]].output
      BY <1>1, <3>1
    <3> QED
      BY <3>1, <3>2 DEF Units
  <2>3. <<r, n + 1>> \in Units(new, T)
    BY <1>1 DEF Units
  <2> QED
    BY <2>1, <2>2, <2>3
<1>4. IsFiniteSet(Units(rows, S)) /\ Cardinality(Units(rows, S)) \in Nat
  BY UnitsFinite
<1> HIDE DEF n
<1>5. Cardinality(Units(new, T)) = Cardinality(Units(rows, S)) + 1
  BY ZenonT(60), <1>2, <1>3, <1>4, FS_AddElement
<1> QED
  BY <1>5, SumCounts

(* The same units. *)
LEMMA SumSame ==
  ASSUME NEW rows \in [Members -> TreeRuns], NEW new \in [Members -> TreeRuns],
         NEW S \in SUBSET Members, \A d \in S : new[d].output = rows[d].output
  PROVE  SumOf(new, S) = SumOf(rows, S)
<1>1. Units(new, S) = Units(rows, S)
  BY DEF Units
<1> QED
  BY <1>1, SumCounts

-----------------------------------------------------------------------------
(* Chains                                                                   *)

Linked(f, n, rows) ==
    f = [r \in 1 .. n |->
           {r} \cup IF rows[r].parent \in 1 .. (r - 1) THEN f[rows[r].parent] ELSE {}]
ChainOf(rows) ==
    CHOOSE f : f = [r \in Members |->
           {r} \cup IF rows[r].parent \in 1 .. (r - 1) THEN f[rows[r].parent] ELSE {}]

LEMMA ChainIs == Chain = ChainOf(tree) /\ Chain' = ChainOf(tree')
  BY Zenon DEF Chain, ChainOf

(* The function exists: otherwise there were a least number of rows without *)
(* one, and one could be had from its predecessor's.                        *)
LEMMA ChainExists ==
  ASSUME NEW rows PROVE Linked(ChainOf(rows), RunCount, rows)
<1> DEFINE Bad == {n \in Nat : ~\E f : Linked(f, n, rows)}
<1>1. ASSUME Bad # {} PROVE FALSE
  <2>1. PICK n \in Bad : \A l \in Bad : n <= l
    <3>1. Bad \subseteq Nat
      OBVIOUS
    <3> HIDE DEF Bad
    <3> QED
      BY <1>1, <3>1, Least, Zenon
  <2>2. n \in Nat /\ ~\E f : Linked(f, n, rows)
    OBVIOUS
  <2>3. CASE n = 0
    <3> DEFINE g == [r \in 1 .. 0 |-> {}]
    <3>1. 1 .. 0 = {}
      OBVIOUS
    <3>2. Linked(g, 0, rows)
      BY <3>1 DEF Linked
    <3> QED
      BY <2>2, <2>3, <3>2
  <2>4. CASE n # 0
    <3>1. n - 1 \in Nat /\ \E f : Linked(f, n - 1, rows)
      <4>1. n - 1 \in Nat /\ ~(n <= n - 1)
        BY <2>2, <2>4
      <4>2. n - 1 \notin Bad
        BY <2>1, <2>2, <4>1
      <4> QED
        BY <4>1, <4>2
    <3>2. PICK f : Linked(f, n - 1, rows)
      BY <3>1
    <3> DEFINE g == [r \in 1 .. n |->
           {r} \cup IF rows[r].parent \in 1 .. (r - 1) THEN f[rows[r].parent] ELSE {}]
    <3>3. ASSUME NEW p \in 1 .. (n - 1) PROVE g[p] = f[p]
      <4>1. p \in 1 .. n
        BY <2>2
      <4> QED
        BY <3>2, <4>1, Zenon DEF Linked
    <3>4. ASSUME NEW r \in 1 .. n, rows[r].parent \in 1 .. (r - 1)
          PROVE  g[rows[r].parent] = f[rows[r].parent]
      <4>1. PICK p : p = rows[r].parent
        OBVIOUS
      <4>2. p \in 1 .. (n - 1)
        BY <2>2, <3>4, <4>1
      <4> HIDE DEF g
      <4> QED
        BY <3>3, <4>1, <4>2
    <3>5. Linked(g, n, rows)
      <4>1. [r \in 1 .. n |->
           {r} \cup IF rows[r].parent \in 1 .. (r - 1) THEN g[rows[r].parent] ELSE {}]
            = [r \in 1 .. n |->
           {r} \cup IF rows[r].parent \in 1 .. (r - 1) THEN f[rows[r].parent] ELSE {}]
        <5> HIDE DEF g
        <5> QED
          BY <3>4, Zenon
      <4> QED
        BY <4>1, Zenon DEF Linked
    <3> QED
      BY <2>2, <3>5
  <2> QED
    BY <2>3, <2>4
<1>2. \E f : Linked(f, RunCount, rows)
  <2>1. RunCount \in Nat
    BY DelegationAssumption
  <2>2. RunCount \notin Bad
    BY <1>1
  <2> QED
    BY <2>1, <2>2
<1> QED
  BY <1>2, Zenon DEF Linked, ChainOf, Members

LEMMA ChainSteps ==
  ASSUME NEW rows, NEW r \in Members
  PROVE  ChainOf(rows)[r]
         = {r} \cup IF rows[r].parent \in 1 .. (r - 1)
                    THEN ChainOf(rows)[rows[r].parent] ELSE {}
<1>1. PICK f : f = ChainOf(rows)
  OBVIOUS
<1>2. Linked(f, RunCount, rows)
  BY <1>1, ChainExists
<1>3. f[r] = {r} \cup IF rows[r].parent \in 1 .. (r - 1) THEN f[rows[r].parent] ELSE {}
  BY <1>2, Zenon DEF Linked, Members
<1> QED
  BY <1>1, <1>3

(* A chain leads upwards from its run. *)
LEMMA ChainBounds ==
  ASSUME NEW rows, NEW r \in Members
  PROVE  r \in ChainOf(rows)[r] /\ ChainOf(rows)[r] \subseteq 1 .. r
<1> DEFINE f == ChainOf(rows)
           Bad == {d \in Members : ~(f[d] \subseteq 1 .. d)}
<1>1. ASSUME Bad # {} PROVE FALSE
  <2>1. PICK d \in Bad : \A e \in Bad : d <= e
    <3>1. Bad \subseteq Nat
      BY DEF Members
    <3> HIDE DEF Bad
    <3> QED
      BY <1>1, <3>1, Least, Zenon
  <2>2. d \in Members /\ ~(f[d] \subseteq 1 .. d)
    OBVIOUS
  <2>3. f[d] = {d} \cup IF rows[d].parent \in 1 .. (d - 1) THEN f[rows[d].parent] ELSE {}
    BY <2>2, ChainSteps
  <2>4. ASSUME NEW p \in 1 .. (d - 1) PROVE f[p] \subseteq 1 .. d
    <3>1. p \in Members /\ ~(d <= p)
      BY <2>2, DelegationAssumption DEF Members
    <3>2. f[p] \subseteq 1 .. p
      BY <2>1, <3>1
    <3>3. p \in Nat /\ d \in Nat /\ p <= d
      BY <2>2, <2>4 DEF Members
    <3> QED
      BY <3>2, <3>3
  <2>5. d \in 1 .. d
    BY <2>2 DEF Members
  <2> HIDE DEF f
  <2>6. CASE rows[d].parent \in 1 .. (d - 1)
    BY <2>2, <2>3, <2>4, <2>5, <2>6
  <2>7. CASE rows[d].parent \notin 1 .. (d - 1)
    BY <2>2, <2>3, <2>5, <2>7
  <2> QED
    BY <2>6, <2>7
<1>2. f[r] \subseteq 1 .. r
  BY <1>1
<1>3. r \in f[r]
  BY ChainSteps
<1> QED
  BY <1>2, <1>3

(* It depends on the parents only. *)
LEMMA ChainSame ==
  ASSUME NEW rows, NEW new, NEW n \in Members,
         \A d \in 1 .. n : new[d].parent = rows[d].parent, NEW r \in 1 .. n
  PROVE  ChainOf(new)[r] = ChainOf(rows)[r]
<1> DEFINE f == ChainOf(rows)
           g == ChainOf(new)
           Bad == {d \in 1 .. n : g[d] # f[d]}
<1>0. n \in Nat /\ n <= RunCount /\ RunCount \in Nat
  BY DelegationAssumption DEF Members
<1>1. ASSUME Bad # {} PROVE FALSE
  <2>1. PICK d \in Bad : \A e \in Bad : d <= e
    <3>1. Bad \subseteq Nat
      BY <1>0
    <3> HIDE DEF Bad
    <3> QED
      BY <1>1, <3>1, Least, Zenon
  <2>2. d \in 1 .. n /\ g[d] # f[d] /\ d \in Members
    BY <1>0 DEF Members
  <2>3. /\ f[d] = {d} \cup IF rows[d].parent \in 1 .. (d - 1)
                           THEN f[rows[d].parent] ELSE {}
        /\ g[d] = {d} \cup IF new[d].parent \in 1 .. (d - 1)
                           THEN g[new[d].parent] ELSE {}
    BY <2>2, ChainSteps
  <2>4. ASSUME NEW p \in 1 .. (d - 1) PROVE g[p] = f[p]
    <3>1. p \in 1 .. n /\ ~(d <= p)
      BY <1>0, <2>2
    <3> QED
      BY <2>1, <3>1
  <2>5. new[d].parent = rows[d].parent
    BY <2>2
  <2> HIDE DEF f, g
  <2> QED
    BY <2>2, <2>3, <2>4, <2>5
<1> QED
  BY <1>1

-----------------------------------------------------------------------------
(* What holds of a tree, said of any rows, so that it can be said of those  *)
(* before a step and of those after it                                      *)

ExistsIn(rows, d) == rows[d].status # "none"
DescIn(rows) == {d \in Members \ {1} : ExistsIn(rows, d)}
BelowIn(rows, r) == {d \in Members \ {r} : ExistsIn(rows, d) /\ r \in ChainOf(rows)[d]}

(* Rows are taken in order. *)
InOrder(rows) == \A d \in Members : \A e \in 1 .. d : ExistsIn(rows, d) => ExistsIn(rows, e)

(* WithinBudget. *)
BudgetIn(rows) ==
    /\ Cardinality(DescIn(rows)) <= CountLimit
    /\ SumOf(rows, DescIn(rows)) <= OutputLimit
    /\ \A r \in Members : ExistsIn(rows, r) =>
          /\ rows[r].depth <= DepthLimit
          /\ \A a, b \in ChainOf(rows)[r] : rows[a].bot = rows[b].bot => a = b

(* StopReachesTree, of the stopped run itself as well. *)
QuietRow(row) == row.status \notin {"running", "waiting"} \/ row.stop # "none"
ResumedIn(rows, taken, r, d) ==
    \E a \in ChainOf(rows)[d] : r \in ChainOf(rows)[a] /\ a \in taken
HeldIn(rows, stopped, taken) ==
    \A r \in stopped : \A d \in Members :
        ExistsIn(rows, d) /\ r \in ChainOf(rows)[d] =>
            QuietRow(rows[d]) \/ ResumedIn(rows, taken, r, d)

(* There is room for a child: what MayDelegate says, the root aside.        *)
RoomIn(rows, p, bot) ==
    /\ rows[p].status = "running" /\ rows[p].stop = "none"
    /\ \A a \in ChainOf(rows)[p] : rows[a].bot # bot
    /\ rows[p].depth + 1 <= DepthLimit
    /\ Cardinality(DescIn(rows)) < CountLimit
    /\ SumOf(rows, DescIn(rows)) + 1 <= OutputLimit
PaidIn(rows, r) ==
    /\ rows[r].status = "running" /\ r # 1
    /\ rows[r].called => SumOf(rows, DescIn(rows)) + 1 <= OutputLimit

(* Whoever is at work holds the lock of the tree, and what it has read      *)
(* still holds.                                                             *)
LocksIn(rows, locks, sessions) ==
    \A s \in Sessions : sessions[s].op # "none" =>
        locks[1] = {s} /\ ExistsIn(rows, sessions[s].run)
DecidedBy(rows, t) ==
    /\ t.op = "accept" => RoomIn(rows, t.run, t.bot)
    /\ t.op = "reserve" => PaidIn(rows, t.run)
    /\ t.op = "stop" => t.below = BelowIn(rows, t.run)
DecidedIn(rows, sessions) == \A s \in Sessions : DecidedBy(rows, sessions[s])

TreeInv ==
    /\ DelegationTypeOK
    /\ InOrder(tree) /\ BudgetIn(tree)
    /\ \A r \in halted : ExistsIn(tree, r)
    /\ HeldIn(tree, halted, resumed)
    /\ LocksIn(tree, barrier, session) /\ DecidedIn(tree, session)

SameShape(new, rows) ==
    \A d \in Members :
        /\ new[d].bot = rows[d].bot /\ new[d].parent = rows[d].parent
        /\ new[d].depth = rows[d].depth /\ new[d].output = rows[d].output
        /\ ExistsIn(new, d) <=> ExistsIn(rows, d)

LEMMA DescendantsAre ==
  /\ Descendants(1) = DescIn(tree) /\ Descendants(1)' = DescIn(tree')
  /\ \A d : Exists(d) <=> ExistsIn(tree, d)
  /\ \A d : Exists(d)' <=> ExistsIn(tree', d)
  BY DEF Descendants, DescIn, Root, Exists, ExistsIn

LEMMA ReservedSums ==
  Reserved(1) = SumOf(tree, DescIn(tree)) /\ Reserved(1)' = SumOf(tree', DescIn(tree'))
<1>1. Reserved(1) = SumOf(tree, Descendants(1))
  BY DEF Reserved, SumOf
<1>2. Reserved(1)' = SumOf(tree', Descendants(1)')
  BY Zenon DEF Reserved, SumOf, MapThenSumSet, MapThenFoldSet
<1> QED
  BY <1>1, <1>2, DescendantsAre, Zenon

LEMMA BudgetIs ==
  (WithinBudget <=> BudgetIn(tree)) /\ (WithinBudget' <=> BudgetIn(tree'))
<1>1. WithinBudget <=> BudgetIn(tree)
  BY DescendantsAre, ReservedSums, ChainIs DEF WithinBudget, BudgetIn
<1>2. WithinBudget' <=> BudgetIn(tree')
  BY DescendantsAre, ReservedSums, ChainIs DEF WithinBudget, BudgetIn
<1> QED
  BY <1>1, <1>2

LEMMA RoomIs ==
  ASSUME NEW p, NEW bot, MayDelegate(p, bot) PROVE RoomIn(tree, p, bot)
<1>1. /\ tree[p].status = "running" /\ tree[p].stop = "none"
      /\ \A a \in Chain[p] : tree[a].bot # bot
      /\ tree[p].depth + 1 <= DepthLimit
      /\ Cardinality(Descendants(1)) < CountLimit
      /\ Reserved(1) + 1 <= OutputLimit
  BY DEF MayDelegate, SourceOpen, BudgetLeft, Root
<1> QED
  BY <1>1, DescendantsAre, ReservedSums, ChainIs DEF RoomIn

(* Who a bot is, whose child, how deep and how much it has reserved is all  *)
(* that counts.                                                             *)
LEMMA ShapeBudget ==
  ASSUME NEW rows \in [Members -> TreeRuns], NEW new \in [Members -> TreeRuns],
         SameShape(new, rows)
  PROVE  /\ DescIn(new) = DescIn(rows)
         /\ \A r \in Members : ChainOf(new)[r] = ChainOf(rows)[r]
         /\ BudgetIn(rows) => BudgetIn(new)
         /\ InOrder(rows) => InOrder(new)
<1>1. DescIn(new) = DescIn(rows)
  BY DEF DescIn, SameShape
<1>2. \A d \in Members : 1 .. d \subseteq Members
  BY DelegationAssumption DEF Members
<1>3. ASSUME NEW r \in Members PROVE ChainOf(new)[r] = ChainOf(rows)[r]
  <2>1. \A d \in 1 .. r : new[d].parent = rows[d].parent
    BY <1>2 DEF SameShape
  <2>2. r \in 1 .. r
    BY DEF Members
  <2> QED
    BY <2>1, <2>2, ChainSame
<1>4. SumOf(new, DescIn(new)) = SumOf(rows, DescIn(rows))
  <2>1. DescIn(rows) \in SUBSET Members
    BY DEF DescIn
  <2>2. \A d \in DescIn(rows) : new[d].output = rows[d].output
    BY <2>1 DEF SameShape
  <2> QED
    BY <1>1, <2>1, <2>2, SumSame
<1>5. ASSUME BudgetIn(rows) PROVE BudgetIn(new)
  <2>1. ASSUME NEW r \in Members, ExistsIn(new, r)
        PROVE  /\ new[r].depth <= DepthLimit
               /\ \A a, b \in ChainOf(new)[r] : new[a].bot = new[b].bot => a = b
    <3>1. /\ rows[r].depth <= DepthLimit
          /\ \A a, b \in ChainOf(rows)[r] : rows[a].bot = rows[b].bot => a = b
      BY <1>5, <2>1 DEF BudgetIn, SameShape
    <3>2. ChainOf(rows)[r] \subseteq Members
      BY <1>2, ChainBounds
    <3>3. \A a \in Members : new[a].bot = rows[a].bot
      BY DEF SameShape
    <3>4. new[r].depth = rows[r].depth
      BY DEF SameShape
    <3> QED
      BY <1>3, <3>1, <3>2, <3>3, <3>4
  <2> QED
    BY <1>1, <1>4, <1>5, <2>1 DEF BudgetIn
<1>6. InOrder(rows) => InOrder(new)
  BY <1>2 DEF InOrder, SameShape
<1> QED
  BY <1>1, <1>3, <1>5, <1>6

(* A child is the next row, below its parent's. *)
LEMMA ChildBudget ==
  ASSUME NEW rows \in [Members -> TreeRuns], InOrder(rows), BudgetIn(rows),
         NEW c \in Members, ~ExistsIn(rows, c), \A d \in 1 .. (c - 1) : ExistsIn(rows, d),
         NEW p \in Members, ExistsIn(rows, p), NEW bot \in Bots, RoomIn(rows, p, bot),
         NEW new \in [Members -> TreeRuns], \A d \in Members : d # c => new[d] = rows[d],
         new[c].bot = bot, new[c].parent = p, new[c].depth = rows[p].depth + 1,
         new[c].output = 1, new[c].status = "running"
  PROVE  /\ InOrder(new) /\ BudgetIn(new)
         /\ \A d \in Members : ExistsIn(new, d) => d <= c
         /\ ChainOf(new)[c] = {c} \cup ChainOf(rows)[p]
         /\ \A d \in Members : d < c => ChainOf(new)[d] = ChainOf(rows)[d]
         /\ p < c
<1>0. /\ c \in Nat /\ p \in Nat /\ 1 <= c /\ 1 <= p /\ c <= RunCount /\ RunCount \in Nat
      /\ 1 \in Members
      /\ \A d \in Members : d \in Nat /\ 1 <= d /\ d <= RunCount
      /\ \A d \in Members : 1 .. d \subseteq Members
  BY DelegationAssumption DEF Members
<1>1. p < c
  <2>1. ~(c <= p)
    <3>1. SUFFICES ASSUME c <= p PROVE FALSE
      OBVIOUS
    <3>2. c \in 1 .. p
      BY <1>0, <3>1
    <3> QED
      BY <3>2 DEF InOrder
  <2> QED
    BY <1>0, <2>1
<1>2. /\ new[c].bot = bot /\ new[c].parent = p /\ new[c].depth = rows[p].depth + 1
      /\ new[c].output = 1 /\ new[c].status = "running"
  OBVIOUS
<1>3. \A d \in Members : d # c => new[d] = rows[d]
  OBVIOUS
<1>4. \A d \in Members : ExistsIn(new, d) <=> ExistsIn(rows, d) \/ d = c
  BY <1>2, <1>3 DEF ExistsIn
<1>5. \A d \in Members : ExistsIn(rows, d) => d < c
  <2> SUFFICES ASSUME NEW d \in Members, ExistsIn(rows, d), ~(d < c) PROVE FALSE
    OBVIOUS
  <2>1. c \in 1 .. d
    BY <1>0
  <2> QED
    BY <2>1 DEF InOrder
<1>6. InOrder(new)
  <2> SUFFICES ASSUME NEW d \in Members, NEW e \in 1 .. d, ExistsIn(new, d)
               PROVE  ExistsIn(new, e)
    BY DEF InOrder
  <2>1. e \in Members
    BY <1>0
  <2>2. CASE d = c
    <3>1. e = c \/ e \in 1 .. (c - 1)
      BY <1>0, <2>2
    <3> QED
      BY <1>4, <2>1, <3>1
  <2>3. CASE d # c
    <3>1. ExistsIn(rows, d)
      BY <1>4, <2>3
    <3> QED
      BY <1>4, <2>1, <3>1 DEF InOrder
  <2> QED
    BY <2>2, <2>3
<1>7. ASSUME NEW d \in Members, d < c PROVE ChainOf(new)[d] = ChainOf(rows)[d]
  <2>1. \A e \in 1 .. d : e \in Members /\ e # c
    BY <1>0, <1>7
  <2>2. \A e \in 1 .. d : new[e].parent = rows[e].parent
    BY <1>3, <2>1
  <2>3. d \in 1 .. d
    BY <1>0
  <2> QED
    BY <2>2, <2>3, ChainSame
<1>8. ChainOf(new)[c] = {c} \cup ChainOf(rows)[p]
  <2>1. new[c].parent = p /\ p \in 1 .. (c - 1)
    BY <1>0, <1>1, <1>2, <1>3
  <2>2. ChainOf(new)[c] = {c} \cup ChainOf(new)[p]
    BY <2>1, ChainSteps
  <2> QED
    BY <1>1, <1>7, <2>2
<1>9. c # 1 /\ c \notin DescIn(rows) /\ DescIn(new) = DescIn(rows) \cup {c}
  <2>1. c # 1
    BY <1>0, <1>1
  <2>2. c \notin DescIn(rows)
    BY DEF DescIn
  <2>3. \A d \in Members : d \in DescIn(new) <=> d \in DescIn(rows) \cup {c}
    BY <1>4, <2>1 DEF DescIn
  <2>4. DescIn(new) \subseteq Members /\ DescIn(rows) \cup {c} \subseteq Members
    BY DEF DescIn
  <2> QED
    BY <2>1, <2>2, <2>3, <2>4
<1>10. DescIn(rows) \in SUBSET Members /\ DescIn(new) \in SUBSET Members
  BY DEF DescIn
<1>11. Cardinality(DescIn(new)) <= CountLimit
  <2>1. IsFiniteSet(DescIn(rows)) /\ Cardinality(DescIn(rows)) \in Nat
    BY <1>10, MembersFinite
  <2>2. Cardinality(DescIn(new)) = Cardinality(DescIn(rows)) + 1
    BY ZenonT(60), <1>9, <2>1, FS_AddElement
  <2>3. CountLimit \in Nat
    BY DelegationAssumption
  <2> QED
    BY <2>1, <2>2, <2>3 DEF RoomIn
<1>12. SumOf(new, DescIn(new)) <= OutputLimit
  <2>1. SumOf(new, DescIn(new)) = SumOf(rows, DescIn(rows)) + 1
    <3>1. /\ c \in DescIn(new) /\ new[c].output = (IF c \in DescIn(rows)
                                                   THEN rows[c].output ELSE 0) + 1
          /\ \A d \in Members \ {c} : new[d].output = rows[d].output
      BY <1>2, <1>3, <1>9
    <3> QED
      BY <1>3, <1>9, <1>10, <3>1, SumOneMore
  <2> QED
    BY <2>1 DEF RoomIn
<1>13. ASSUME NEW r \in Members, ExistsIn(new, r)
       PROVE  /\ new[r].depth <= DepthLimit
              /\ \A a, b \in ChainOf(new)[r] : new[a].bot = new[b].bot => a = b
  <2>1. \A q \in Members : ExistsIn(rows, q) =>
           /\ rows[q].depth <= DepthLimit
           /\ \A a, b \in ChainOf(rows)[q] : rows[a].bot = rows[b].bot => a = b
    BY DEF BudgetIn
  <2>2. \A q \in Members : q < c => \A a \in ChainOf(rows)[q] :
           a \in Members /\ a # c /\ new[a].bot = rows[a].bot
    <3> SUFFICES ASSUME NEW q \in Members, q < c, NEW a \in ChainOf(rows)[q]
                 PROVE  a \in Members /\ a # c /\ new[a].bot = rows[a].bot
      OBVIOUS
    <3>1. a \in 1 .. q
      BY ChainBounds
    <3>2. a \in Members /\ a # c
      BY <1>0, <3>1
    <3> QED
      BY <1>3, <3>2
  <2>3. CASE r # c
    <3>1. ExistsIn(rows, r) /\ r < c
      BY <1>4, <1>5, <1>13, <2>3
    <3>2. new[r] = rows[r]
      BY <1>3, <2>3
    <3> QED
      BY <1>7, <2>1, <2>2, <3>1, <3>2
  <2>4. CASE r = c
    <3>1. new[c].depth <= DepthLimit /\ new[c].bot = bot
      BY <1>2, <1>3 DEF RoomIn
    <3>2. \A a \in ChainOf(rows)[p] : new[a].bot # bot /\ new[a].bot = rows[a].bot
      BY <1>1, <2>2 DEF RoomIn
    <3>3. \A a, b \in ChainOf(rows)[p] : new[a].bot = new[b].bot => a = b
      BY <2>1, <3>2
    <3> QED
      BY <1>8, <2>4, <3>1, <3>2, <3>3
  <2> QED
    BY <2>3, <2>4
<1>14. BudgetIn(new)
  BY <1>11, <1>12, <1>13 DEF BudgetIn
<1>15. \A d \in Members : ExistsIn(new, d) => d <= c
  BY <1>0, <1>4, <1>5
<1> QED
  BY <1>1, <1>6, <1>7, <1>8, <1>14, <1>15

(* A call that is not the first is paid for. *)
LEMMA PaidBudget ==
  ASSUME NEW rows \in [Members -> TreeRuns], InOrder(rows), BudgetIn(rows),
         NEW r \in Members, r # 1, ExistsIn(rows, r),
         rows[r].called => SumOf(rows, DescIn(rows)) + 1 <= OutputLimit,
         NEW new \in [Members -> TreeRuns], \A d \in Members : d # r => new[d] = rows[d],
         new[r].bot = rows[r].bot, new[r].parent = rows[r].parent,
         new[r].depth = rows[r].depth, new[r].status = rows[r].status,
         new[r].stop = rows[r].stop,
         new[r].output = IF rows[r].called THEN rows[r].output + 1 ELSE rows[r].output
  PROVE  /\ InOrder(new) /\ BudgetIn(new)
         /\ \A d \in Members : /\ ChainOf(new)[d] = ChainOf(rows)[d]
                               /\ ExistsIn(new, d) <=> ExistsIn(rows, d)
                               /\ new[d].status = rows[d].status
                               /\ new[d].stop = rows[d].stop
<1>1. \A d \in Members : d # r => new[d] = rows[d]
  OBVIOUS
<1>3. /\ new[r].bot = rows[r].bot /\ new[r].parent = rows[r].parent
      /\ new[r].depth = rows[r].depth /\ new[r].status = rows[r].status
      /\ new[r].stop = rows[r].stop
  OBVIOUS
<1>5. \A d \in Members : /\ new[d].status = rows[d].status /\ new[d].stop = rows[d].stop
                         /\ new[d].bot = rows[d].bot /\ new[d].parent = rows[d].parent
                         /\ new[d].depth = rows[d].depth
  BY <1>1, <1>3
<1>6. \A d \in Members : ExistsIn(new, d) <=> ExistsIn(rows, d)
  BY <1>5 DEF ExistsIn
<1>7. CASE new[r].output = rows[r].output
  <2>1. SameShape(new, rows)
    BY <1>1, <1>3, <1>5, <1>6, <1>7 DEF SameShape
  <2> QED
    BY <1>5, <1>6, <2>1, ShapeBudget
<1>8. CASE rows[r].called /\ new[r].output = rows[r].output + 1
  <2>1. \A d \in Members : 1 .. d \subseteq Members /\ d \in 1 .. d
    BY DelegationAssumption DEF Members
  <2>2. ASSUME NEW d \in Members PROVE ChainOf(new)[d] = ChainOf(rows)[d]
    <3>1. \A e \in 1 .. d : new[e].parent = rows[e].parent
      BY <1>5, <2>1
    <3> QED
      BY <2>1, <3>1, ChainSame
  <2>3. InOrder(new)
    BY <1>6, <2>1 DEF InOrder
  <2>4. DescIn(new) = DescIn(rows) /\ r \in DescIn(rows) /\ DescIn(rows) \in SUBSET Members
    BY <1>6 DEF DescIn
  <2>5. SumOf(new, DescIn(new)) = SumOf(rows, DescIn(rows)) + 1
    <3>1. /\ DescIn(rows) = DescIn(rows) \cup {r}
          /\ new[r].output = (IF r \in DescIn(rows) THEN rows[r].output ELSE 0) + 1
          /\ \A d \in Members \ {r} : new[d].output = rows[d].output
      BY <1>1, <1>3, <1>8, <2>4
    <3> QED
      BY <2>4, <3>1, SumOneMore
  <2>6. ASSUME NEW d \in Members, ExistsIn(new, d)
        PROVE  /\ new[d].depth <= DepthLimit
               /\ \A a, b \in ChainOf(new)[d] : new[a].bot = new[b].bot => a = b
    <3>1. ChainOf(rows)[d] \subseteq Members
      BY <2>1, ChainBounds
    <3>2. /\ rows[d].depth <= DepthLimit
          /\ \A a, b \in ChainOf(rows)[d] : rows[a].bot = rows[b].bot => a = b
      BY <1>6, <2>6 DEF BudgetIn
    <3> QED
      BY <1>5, <2>2, <3>1, <3>2
  <2>7. BudgetIn(new)
    BY <1>8, <2>4, <2>5, <2>6 DEF BudgetIn
  <2> QED
    BY <1>5, <1>6, <2>2, <2>3, <2>7
<1> QED
  BY <1>7, <1>8

LEMMA BelowIs ==
  ASSUME NEW r PROVE Below(r) = BelowIn(tree, r)
  BY ChainIs, DescendantsAre DEF Below, BelowIn

-----------------------------------------------------------------------------
(* Steps                                                                    *)

(* A step that leaves the shape of the tree alone keeps its stops, if what  *)
(* it wakes is taken over and what lies below a run that it stops is quiet. *)
LEMMA StopsKept ==
  ASSUME NEW rows \in [Members -> TreeRuns], NEW new \in [Members -> TreeRuns],
         SameShape(new, rows), NEW stopped, NEW taken, NEW stopped2, NEW taken2,
         HeldIn(rows, stopped, taken), taken \subseteq taken2,
         \A d \in Members : ExistsIn(rows, d) /\ QuietRow(rows[d]) =>
             QuietRow(new[d]) \/ d \in taken2,
         \A h \in stopped2 \ stopped : \A d \in Members :
             ExistsIn(rows, d) /\ h \in ChainOf(rows)[d] => QuietRow(new[d])
  PROVE  HeldIn(new, stopped2, taken2)
<1>1. \A d \in Members : ChainOf(new)[d] = ChainOf(rows)[d]
  BY ShapeBudget
<1>2. \A d \in Members : 1 .. d \subseteq Members
  BY DelegationAssumption DEF Members
<1>3. \A d \in Members : d \in ChainOf(rows)[d] /\ ChainOf(rows)[d] \subseteq Members
  BY <1>2, ChainBounds
<1> SUFFICES ASSUME NEW r \in stopped2, NEW d \in Members, ExistsIn(new, d),
                    r \in ChainOf(new)[d], ~QuietRow(new[d])
             PROVE  ResumedIn(new, taken2, r, d)
  BY DEF HeldIn
<1>4. ExistsIn(rows, d) /\ r \in ChainOf(rows)[d]
  BY <1>1 DEF SameShape
<1>5. r \in stopped
  BY <1>4
<1>6. CASE QuietRow(rows[d])
  <2>1. d \in taken2
    BY <1>4, <1>6
  <2> QED
    BY <1>1, <1>3, <2>1 DEF ResumedIn
<1>7. CASE ResumedIn(rows, taken, r, d)
  <2>1. PICK a \in ChainOf(rows)[d] : r \in ChainOf(rows)[a] /\ a \in taken
    BY <1>7 DEF ResumedIn
  <2>2. a \in Members
    BY <1>3, <2>1
  <2> QED
    BY <1>1, <2>1, <2>2 DEF ResumedIn
<1>8. QuietRow(rows[d]) \/ ResumedIn(rows, taken, r, d)
  BY <1>4, <1>5 DEF HeldIn
<1> QED
  BY <1>6, <1>7, <1>8

(* A child of a run below a stopped one: somebody has taken over, since the *)
(* child's parent is at work.                                               *)
LEMMA StopsChild ==
  ASSUME NEW rows \in [Members -> TreeRuns], NEW new \in [Members -> TreeRuns],
         NEW stopped, NEW taken, HeldIn(rows, stopped, taken),
         \A r \in stopped : ExistsIn(rows, r),
         NEW c \in Members, ~ExistsIn(rows, c), \A d \in Members : d # c => new[d] = rows[d],
         \A d \in Members : ExistsIn(new, d) => d <= c,
         \A d \in Members : d < c => ChainOf(new)[d] = ChainOf(rows)[d],
         NEW p \in Members, p < c, ChainOf(new)[c] = {c} \cup ChainOf(rows)[p],
         ExistsIn(rows, p), ~QuietRow(rows[p])
  PROVE  HeldIn(new, stopped, taken)
<1>0. \A d \in Members : d \in Nat /\ 1 .. d \subseteq Members
  BY DelegationAssumption DEF Members
<1>1. ASSUME NEW q \in Members, q < c, NEW a \in ChainOf(rows)[q]
      PROVE  a \in Members /\ a < c
  <2>1. a \in 1 .. q
    BY ChainBounds
  <2> QED
    BY <1>0, <1>1, <2>1
<1>2. ASSUME NEW r \in stopped, NEW q \in Members, q < c, ExistsIn(rows, q),
             r \in ChainOf(rows)[q], ~QuietRow(rows[q])
      PROVE  \E a \in ChainOf(rows)[q] : r \in ChainOf(new)[a] /\ a \in taken
  <2>1. PICK a \in ChainOf(rows)[q] : r \in ChainOf(rows)[a] /\ a \in taken
    BY <1>2 DEF HeldIn, ResumedIn
  <2>2. ChainOf(new)[a] = ChainOf(rows)[a]
    BY <1>1, <1>2, <2>1
  <2> QED
    BY <2>1, <2>2
<1> SUFFICES ASSUME NEW r \in stopped, NEW d \in Members, ExistsIn(new, d),
                    r \in ChainOf(new)[d], ~QuietRow(new[d])
             PROVE  ResumedIn(new, taken, r, d)
  BY DEF HeldIn
<1>3. CASE d = c
  <2>1. r # c
    OBVIOUS
  <2>2. r \in ChainOf(rows)[p]
    BY <1>3, <2>1
  <2>3. PICK a \in ChainOf(rows)[p] : r \in ChainOf(new)[a] /\ a \in taken
    BY <1>2, <2>2
  <2> QED
    BY <1>3, <2>3 DEF ResumedIn
<1>4. CASE d # c
  <2>1. new[d] = rows[d] /\ d < c
    BY <1>0, <1>4
  <2>2. ExistsIn(rows, d) /\ ~QuietRow(rows[d]) /\ ChainOf(new)[d] = ChainOf(rows)[d]
    BY <2>1 DEF ExistsIn
  <2>3. \E a \in ChainOf(rows)[d] : r \in ChainOf(new)[a] /\ a \in taken
    BY <1>2, <2>1, <2>2
  <2> QED
    BY <2>2, <2>3 DEF ResumedIn
<1> QED
  BY <1>3, <1>4

(* One transaction at a time. *)
LEMMA Idle ==
  ASSUME NEW rows, NEW locks, NEW sessions, \A s \in Sessions : sessions[s].op = "none"
  PROVE  LocksIn(rows, locks, sessions) /\ DecidedIn(rows, sessions)
  BY DEF LocksIn, DecidedIn, DecidedBy

LEMMA NobodyAtWork ==
  ASSUME TreeInv, NEW r, TreeFree(r) PROVE \A s \in Sessions : session[s].op = "none"
<1>1. barrier[1] = {}
  BY DEF TreeFree, LockOf, Root
<1>2. LocksIn(tree, barrier, session)
  BY DEF TreeInv
<1> QED
  BY <1>1, <1>2 DEF LocksIn

LEMMA NoTransactionTyped == NoTransaction \in Transactions /\ NoTransaction.op = "none"
<1>1. (CHOOSE b \in Bots : TRUE) \in Bots
  BY DelegationAssumption
<1>2. 1 \in Members
  BY DelegationAssumption DEF Members
<1> QED
  BY <1>1, <1>2 DEF NoTransaction, Transactions

LEMMA Begun ==
  ASSUME TreeInv, NEW s \in Sessions, NEW r \in Members, ExistsIn(tree, r),
         NEW t \in Transactions, t.run = r, Begins(s, r, t), DecidedBy(tree, t),
         UNCHANGED <<tree, halted, resumed>>,
         occasions' \in [halts: 0 .. MaxHalts, departures: 0 .. MaxDepartures]
  PROVE  TreeInv'
<1>1. \A u \in Sessions : session[u].op = "none"
  BY NobodyAtWork DEF Begins
<1>2. /\ barrier \in [Members -> SUBSET Sessions] /\ session \in [Sessions -> Transactions]
      /\ tree \in [Members -> TreeRuns] /\ halted \subseteq Members /\ resumed \subseteq Members
  BY DEF TreeInv, DelegationTypeOK
<1>3. 1 \in Members
  BY DelegationAssumption DEF Members
<1>4. /\ barrier' = [barrier EXCEPT ![1] = {s}]
      /\ session' = [session EXCEPT ![s] = t]
  BY DEF Begins, LockOf, Root
<1>5. /\ barrier' \in [Members -> SUBSET Sessions] /\ session' \in [Sessions -> Transactions]
      /\ barrier'[1] = {s} /\ session'[s] = t
      /\ \A u \in Sessions : u # s => session'[u] = session[u]
  BY <1>2, <1>3, <1>4
<1>6. LocksIn(tree', barrier', session')
  BY <1>1, <1>5 DEF LocksIn, ExistsIn
<1>7. DecidedIn(tree', session')
  <2> SUFFICES ASSUME NEW u \in Sessions PROVE DecidedBy(tree, session'[u])
    BY DEF DecidedIn
  <2>1. CASE u = s
    BY <1>5, <2>1
  <2>2. CASE u # s
    BY <1>1, <1>5, <2>2 DEF DecidedBy
  <2> QED
    BY <2>1, <2>2
<1>8. DelegationTypeOK'
  BY <1>2, <1>5 DEF DelegationTypeOK
<1>9. /\ InOrder(tree') /\ BudgetIn(tree') /\ HeldIn(tree', halted', resumed')
      /\ \A h \in halted' : ExistsIn(tree', h)
  BY DEF TreeInv
<1> QED
  BY <1>6, <1>7, <1>8, <1>9 DEF TreeInv

LEMMA Ended ==
  ASSUME TreeInv, NEW s \in Sessions, session[s].op # "none", Ends(s)
  PROVE  /\ barrier' \in [Members -> SUBSET Sessions]
         /\ session' \in [Sessions -> Transactions]
         /\ LocksIn(tree', barrier', session') /\ DecidedIn(tree', session')
<1>1. LocksIn(tree, barrier, session)
  BY DEF TreeInv
<1>2. \A u \in Sessions : session[u].op # "none" => barrier[1] = {u}
  BY <1>1 DEF LocksIn
<1>3. \A u \in Sessions : u # s => session[u].op = "none"
  BY <1>2
<1>4. /\ barrier \in [Members -> SUBSET Sessions] /\ session \in [Sessions -> Transactions]
  BY DEF TreeInv, DelegationTypeOK
<1>5. 1 \in Members
  BY DelegationAssumption DEF Members
<1>6. /\ barrier' = [barrier EXCEPT ![1] = @ \ {s}]
      /\ session' = [session EXCEPT ![s] = NoTransaction]
  BY DEF Ends, LockOf, Root
<1>7. \A u \in Sessions : session'[u].op = "none"
  BY <1>3, <1>4, <1>6, NoTransactionTyped
<1> QED
  BY <1>4, <1>5, <1>6, <1>7, Idle, NoTransactionTyped

(* A change of one row keeps what it is to the tree.                        *)
SameRow(new, row) ==
    /\ new.bot = row.bot /\ new.parent = row.parent /\ new.depth = row.depth
    /\ new.output = row.output /\ new.status # "none" /\ row.status # "none"

LEMMA RowChanged ==
  ASSUME TreeInv, NEW r \in Members, NEW row \in TreeRuns, Changes(r, row),
         SameRow(row, tree[r]), resumed \subseteq resumed', resumed' \subseteq Members,
         occasions' \in [halts: 0 .. MaxHalts, departures: 0 .. MaxDepartures],
         QuietRow(row) \/ ~QuietRow(tree[r]) \/ r \in resumed'
  PROVE  TreeInv'
<1>1. /\ barrier \in [Members -> SUBSET Sessions] /\ session \in [Sessions -> Transactions]
      /\ tree \in [Members -> TreeRuns] /\ halted \subseteq Members
  BY DEF TreeInv, DelegationTypeOK
<1>2. /\ tree' = [tree EXCEPT ![r] = row]
      /\ barrier' = barrier /\ session' = session /\ halted' = halted
  BY DEF Changes
<1>3. /\ tree' \in [Members -> TreeRuns] /\ tree'[r] = row
      /\ \A d \in Members : d # r => tree'[d] = tree[d]
  BY <1>1, <1>2
<1>4. SameShape(tree', tree)
  BY <1>3 DEF SameShape, SameRow, ExistsIn
<1>5. InOrder(tree') /\ BudgetIn(tree')
  BY <1>1, <1>3, <1>4, ShapeBudget DEF TreeInv
<1>6. HeldIn(tree', halted', resumed')
  <2>1. HeldIn(tree, halted, resumed)
    BY DEF TreeInv
  <2>2. \A d \in Members : ExistsIn(tree, d) /\ QuietRow(tree[d]) =>
            QuietRow(tree'[d]) \/ d \in resumed'
    BY <1>3
  <2>3. \A h \in halted \ halted : \A d \in Members :
            ExistsIn(tree, d) /\ h \in ChainOf(tree)[d] => QuietRow(tree'[d])
    OBVIOUS
  <2>4. HeldIn(tree', halted, resumed')
    BY <1>1, <1>3, <1>4, <2>1, <2>2, <2>3, StopsKept
  <2> QED
    BY <1>2, <2>4
<1>7. \A h \in halted' : ExistsIn(tree', h)
  BY <1>1, <1>2, <1>4 DEF TreeInv, SameShape
<1>8. LocksIn(tree', barrier', session') /\ DecidedIn(tree', session')
  BY <1>2, NobodyAtWork, Idle DEF Changes
<1>9. DelegationTypeOK'
  BY <1>1, <1>2, <1>3 DEF DelegationTypeOK
<1> QED
  BY <1>5, <1>6, <1>7, <1>8, <1>9 DEF TreeInv

LEMMA Occasions ==
  ASSUME TreeInv, NEW of \in {"halts", "departures"}, Occasion(of)
  PROVE  occasions' \in [halts: 0 .. MaxHalts, departures: 0 .. MaxDepartures]
<1>1. /\ occasions \in [halts: 0 .. MaxHalts, departures: 0 .. MaxDepartures]
      /\ occasions[of] > 0 /\ occasions' = [occasions EXCEPT ![of] = @ - 1]
      /\ MaxHalts \in Nat /\ MaxDepartures \in Nat
  BY DelegationAssumption DEF TreeInv, DelegationTypeOK, Occasion
<1>2. CASE of = "halts"
  BY <1>1, <1>2
<1>3. CASE of = "departures"
  BY <1>1, <1>3
<1> QED
  BY <1>2, <1>3

LEMMA TreeTyped ==
  ASSUME TreeInv
  PROVE  /\ tree \in [Members -> TreeRuns] /\ session \in [Sessions -> Transactions]
         /\ halted \subseteq Members /\ resumed \subseteq Members
         /\ occasions \in [halts: 0 .. MaxHalts, departures: 0 .. MaxDepartures]
  BY DEF TreeInv, DelegationTypeOK

LEMMA CompleteRunKeeps ==
  ASSUME TreeInv, NEW r \in Members, CompleteRun(r) PROVE TreeInv'
<1> DEFINE row == [tree[r] EXCEPT !.status = "completed"]
<1>1. tree[r] \in TreeRuns /\ tree[r].status # "none"
  BY TreeTyped DEF CompleteRun
<1>2. row \in TreeRuns /\ SameRow(row, tree[r]) /\ QuietRow(row)
  BY <1>1 DEF TreeRuns, SameRow, QuietRow
<1>3. Changes(r, row) /\ resumed' = resumed /\ occasions' = occasions
  BY DEF CompleteRun
<1> HIDE DEF row
<1> QED
  BY <1>2, <1>3, TreeTyped, RowChanged

LEMMA EndRunKeeps ==
  ASSUME TreeInv, NEW r \in Members, EndRun(r) PROVE TreeInv'
<1> DEFINE row == [tree[r] EXCEPT !.status = "ended"]
<1>1. tree[r] \in TreeRuns /\ tree[r].status # "none"
  BY TreeTyped DEF EndRun
<1>2. row \in TreeRuns /\ SameRow(row, tree[r]) /\ QuietRow(row)
  BY <1>1 DEF TreeRuns, SameRow, QuietRow, EndedStates
<1>3. Changes(r, row) /\ resumed' = resumed /\ occasions' = occasions
  BY DEF EndRun
<1> HIDE DEF row
<1> QED
  BY <1>2, <1>3, TreeTyped, RowChanged

LEMMA ConfirmStopKeeps ==
  ASSUME TreeInv, NEW r \in Members, ConfirmStop(r) PROVE TreeInv'
<1> DEFINE row == [tree[r] EXCEPT !.stop = "confirmed",
                     !.status = IF tree[r].status = "waiting" THEN @ ELSE "stopped"]
<1>1. tree[r] \in TreeRuns /\ tree[r].status # "none"
  BY TreeTyped DEF ConfirmStop
<1>2. row \in TreeRuns /\ SameRow(row, tree[r]) /\ QuietRow(row)
  BY <1>1 DEF TreeRuns, SameRow, QuietRow, EndedStates
<1>3. Changes(r, row) /\ resumed' = resumed /\ occasions' = occasions
  BY DEF ConfirmStop
<1> HIDE DEF row
<1> QED
  BY <1>2, <1>3, TreeTyped, RowChanged

LEMMA RejectStopKeeps ==
  ASSUME TreeInv, NEW r \in Members, RejectStop(r) PROVE TreeInv'
<1> DEFINE row == [tree[r] EXCEPT !.stop = "rejected",
                     !.status = IF @ = "waiting" THEN @ ELSE "running"]
<1>1. tree[r] \in TreeRuns /\ tree[r].status # "none"
  BY TreeTyped DEF RejectStop
<1>2. row \in TreeRuns /\ SameRow(row, tree[r]) /\ QuietRow(row)
  BY <1>1 DEF TreeRuns, SameRow, QuietRow
<1>3. Changes(r, row) /\ resumed' = resumed /\ occasions' = occasions
  BY DEF RejectStop
<1> HIDE DEF row
<1> QED
  BY <1>2, <1>3, TreeTyped, RowChanged

LEMMA LoseControllerKeeps ==
  ASSUME TreeInv, NEW r \in Members, LoseController(r) PROVE TreeInv'
<1> DEFINE row == [tree[r] EXCEPT !.status = "waiting",
                     !.stop = IF Builtin(r) THEN @ ELSE "requested",
                     !.asked = Builtin(r) /\ @]
<1>1. tree[r] \in TreeRuns /\ tree[r].status = "running"
  BY TreeTyped DEF LoseController
<1>2. row \in TreeRuns
  <2>1. row.asked \in BOOLEAN /\ row.stop \in {"none", "requested", "rejected", "confirmed"}
    BY <1>1 DEF TreeRuns, Builtin
  <2>2. row = [tree[r] EXCEPT !.status = "waiting", !.stop = row.stop, !.asked = row.asked]
    BY <1>1 DEF TreeRuns
  <2> HIDE DEF row
  <2> QED
    BY <1>1, <2>1, <2>2 DEF TreeRuns
<1>3. SameRow(row, tree[r])
  BY <1>1 DEF TreeRuns, SameRow
<1>4. QuietRow(row) \/ ~QuietRow(tree[r])
  BY <1>1 DEF TreeRuns, QuietRow
<1>5. Changes(r, row) /\ resumed' = resumed /\ Occasion("departures")
  BY DEF LoseController
<1>6. occasions' \in [halts: 0 .. MaxHalts, departures: 0 .. MaxDepartures]
  BY <1>5, Occasions
<1> HIDE DEF row
<1> QED
  BY <1>2, <1>3, <1>4, <1>5, <1>6, TreeTyped, RowChanged

LEMMA TakeOverKeeps ==
  ASSUME TreeInv, NEW r \in Members, TakeOver(r) PROVE TreeInv'
<1> DEFINE row == [tree[r] EXCEPT !.status = "running", !.stop = "none", !.asked = FALSE]
<1>1. tree[r] \in TreeRuns /\ tree[r].status # "none"
  BY TreeTyped DEF TakeOver
<1>2. row \in TreeRuns /\ SameRow(row, tree[r])
  BY <1>1 DEF TreeRuns, SameRow
<1>3. Changes(r, row) /\ resumed' = resumed \cup {r} /\ occasions' = occasions
  BY DEF TakeOver
<1> HIDE DEF row
<1>4. resumed \subseteq resumed' /\ resumed' \subseteq Members /\ r \in resumed'
  BY <1>3, TreeTyped
<1> QED
  BY <1>2, <1>3, <1>4, TreeTyped, RowChanged

LEMMA DelegateLooksKeeps ==
  ASSUME TreeInv, NEW s \in Sessions, NEW p \in Members, NEW bot \in Bots,
         DelegateLooks(s, p, bot)
  PROVE  TreeInv'
<1> DEFINE t == [NoTransaction EXCEPT !.op = "accept", !.run = p, !.bot = bot]
<1>1. t \in Transactions /\ t.run = p /\ t.op = "accept" /\ t.bot = bot
  BY NoTransactionTyped DEF Transactions
<1>2. /\ Exists(p) /\ MayDelegate(p, bot) /\ Begins(s, p, t)
      /\ UNCHANGED <<tree, halted, resumed, occasions>>
  BY DEF DelegateLooks
<1> HIDE DEF t
<1>3. DecidedBy(tree, t)
  BY <1>1, <1>2, RoomIs DEF DecidedBy
<1>4. ExistsIn(tree, p)
  BY <1>2, DescendantsAre
<1> QED
  BY <1>1, <1>2, <1>3, <1>4, TreeTyped, Begun

LEMMA ReserveLooksKeeps ==
  ASSUME TreeInv, NEW s \in Sessions, NEW r \in Members, ReserveLooks(s, r)
  PROVE  TreeInv'
<1> DEFINE t == [NoTransaction EXCEPT !.op = "reserve", !.run = r]
<1>1. t \in Transactions /\ t.run = r /\ t.op = "reserve"
  BY NoTransactionTyped DEF Transactions
<1>2. /\ tree[r].status = "running" /\ r # 1 /\ Begins(s, r, t)
      /\ tree[r].called => Reserved(1) + 1 <= OutputLimit
      /\ UNCHANGED <<tree, halted, resumed, occasions>>
  BY DEF ReserveLooks, Root
<1> HIDE DEF t
<1>3. PaidIn(tree, r)
  BY <1>2, ReservedSums DEF PaidIn
<1>4. DecidedBy(tree, t)
  BY <1>1, <1>3 DEF DecidedBy
<1>5. ExistsIn(tree, r)
  BY <1>2 DEF ExistsIn
<1> QED
  BY <1>1, <1>2, <1>4, <1>5, TreeTyped, Begun

LEMMA StopLooksKeeps ==
  ASSUME TreeInv, NEW s \in Sessions, NEW r \in Members, StopLooks(s, r)
  PROVE  TreeInv'
<1> DEFINE t == [NoTransaction EXCEPT !.op = "stop", !.run = r, !.below = Below(r)]
<1>0. Below(r) \in SUBSET Members
  BY DEF Below
<1>1. t \in Transactions /\ t.run = r /\ t.op = "stop" /\ t.below = Below(r)
  BY <1>0, NoTransactionTyped DEF Transactions
<1>2. /\ Exists(r) /\ Begins(s, r, t) /\ UNCHANGED <<tree, halted, resumed>>
      /\ Occasion("halts")
  BY DEF StopLooks
<1> HIDE DEF t
<1>3. DecidedBy(tree, t)
  BY <1>1, BelowIs DEF DecidedBy
<1>4. ExistsIn(tree, r)
  BY <1>2, DescendantsAre
<1>5. occasions' \in [halts: 0 .. MaxHalts, departures: 0 .. MaxDepartures]
  BY <1>2, Occasions
<1> QED
  BY <1>1, <1>2, <1>3, <1>4, <1>5, Begun

LEMMA NewRunIs ==
  ASSUME NEW bot \in Bots, NEW p \in 0 .. RunCount, NEW depth \in Nat, NEW output \in Nat
  PROVE  /\ NewRun(bot, p, depth, output) \in TreeRuns
         /\ NewRun(bot, p, depth, output).bot = bot
         /\ NewRun(bot, p, depth, output).parent = p
         /\ NewRun(bot, p, depth, output).depth = depth
         /\ NewRun(bot, p, depth, output).output = output
         /\ NewRun(bot, p, depth, output).status = "running"
  BY DEF NewRun, TreeRuns

LEMMA DelegateCommitsKeeps ==
  ASSUME TreeInv, NEW s \in Sessions, DelegateCommits(s) PROVE TreeInv'
<1>0. PICK t \in Transactions : t = session[s]
  BY TreeTyped
<1>1. PICK p \in Members, bot \in Bots : p = t.run /\ bot = t.bot
  BY DEF Transactions
<1>2. /\ t.op = "accept" /\ Ends(s) /\ UNCHANGED <<halted, resumed, occasions>>
      /\ \E c \in Members :
            /\ ~Exists(c) /\ \A d \in 1 .. (c - 1) : Exists(d)
            /\ tree' = [tree EXCEPT ![c] = NewRun(bot, p, tree[p].depth + 1, 1)]
  BY <1>0, <1>1 DEF DelegateCommits
<1>3. PICK c \in Members :
         /\ ~Exists(c) /\ \A d \in 1 .. (c - 1) : Exists(d)
         /\ tree' = [tree EXCEPT ![c] = NewRun(bot, p, tree[p].depth + 1, 1)]
  BY <1>2
<1>4. RoomIn(tree, p, bot) /\ ExistsIn(tree, p)
  <2>1. DecidedBy(tree, t)
    BY <1>0 DEF TreeInv, DecidedIn
  <2>2. RoomIn(tree, p, bot)
    BY <1>1, <1>2, <2>1 DEF DecidedBy
  <2> QED
    BY <2>2 DEF RoomIn, ExistsIn
<1>5. PICK child \in TreeRuns :
         /\ child = NewRun(bot, p, tree[p].depth + 1, 1)
         /\ child.bot = bot /\ child.parent = p /\ child.depth = tree[p].depth + 1
         /\ child.output = 1 /\ child.status = "running"
  <2>1. tree[p].depth + 1 \in Nat
    BY TreeTyped DEF TreeRuns
  <2>2. p \in 0 .. RunCount
    BY DEF Members
  <2> QED
    BY <2>1, <2>2, NewRunIs
<1>6. /\ tree' \in [Members -> TreeRuns] /\ tree'[c] = child
      /\ \A d \in Members : d # c => tree'[d] = tree[d]
  BY <1>3, <1>5, TreeTyped
<1>7. ~ExistsIn(tree, c) /\ \A d \in 1 .. (c - 1) : ExistsIn(tree, d)
  BY <1>3, DescendantsAre
<1>8. PICK rows \in [Members -> TreeRuns] : rows = tree
  BY TreeTyped
<1>9. PICK new \in [Members -> TreeRuns] : new = tree'
  BY <1>6
<1>10. /\ InOrder(rows) /\ BudgetIn(rows) /\ HeldIn(rows, halted, resumed)
       /\ \A r \in halted : ExistsIn(rows, r)
  BY <1>8 DEF TreeInv
<1>11. /\ InOrder(new) /\ BudgetIn(new)
       /\ \A d \in Members : ExistsIn(new, d) => d <= c
       /\ ChainOf(new)[c] = {c} \cup ChainOf(rows)[p]
       /\ \A d \in Members : d < c => ChainOf(new)[d] = ChainOf(rows)[d]
       /\ p < c
  <2>1. /\ ~ExistsIn(rows, c) /\ \A d \in 1 .. (c - 1) : ExistsIn(rows, d)
        /\ ExistsIn(rows, p) /\ RoomIn(rows, p, bot)
    BY <1>4, <1>7, <1>8
  <2>2. /\ \A d \in Members : d # c => new[d] = rows[d]
        /\ new[c].bot = bot /\ new[c].parent = p /\ new[c].depth = rows[p].depth + 1
        /\ new[c].output = 1 /\ new[c].status = "running"
    BY <1>5, <1>6, <1>8, <1>9
  <2> QED
    BY <1>10, <2>1, <2>2, ChildBudget
<1>12. HeldIn(new, halted, resumed)
  <2>1. /\ ~ExistsIn(rows, c) /\ ExistsIn(rows, p) /\ ~QuietRow(rows[p])
    BY <1>4, <1>7, <1>8 DEF RoomIn, QuietRow
  <2>2. \A d \in Members : d # c => new[d] = rows[d]
    BY <1>6, <1>8, <1>9
  <2> QED
    BY <1>10, <1>11, <2>1, <2>2, StopsChild
<1>13. \A r \in halted : ExistsIn(new, r)
  BY <1>6, <1>7, <1>8, <1>9, <1>10, TreeTyped DEF ExistsIn
<1>14. /\ barrier' \in [Members -> SUBSET Sessions]
       /\ session' \in [Sessions -> Transactions]
       /\ LocksIn(tree', barrier', session') /\ DecidedIn(tree', session')
  BY <1>0, <1>2, Ended
<1>15. DelegationTypeOK'
  BY <1>2, <1>6, <1>14, TreeTyped DEF DelegationTypeOK
<1> QED
  BY <1>2, <1>9, <1>11, <1>12, <1>13, <1>14, <1>15 DEF TreeInv

LEMMA ReserveCommitsKeeps ==
  ASSUME TreeInv, NEW s \in Sessions, ReserveCommits(s) PROVE TreeInv'
<1>0. PICK t \in Transactions : t = session[s]
  BY TreeTyped
<1>1. PICK r \in Members : r = t.run
  BY DEF Transactions
<1>2. /\ t.op = "reserve" /\ Ends(s) /\ UNCHANGED <<halted, resumed, occasions>>
      /\ tree' = [tree EXCEPT ![r] =
                    [tree[r] EXCEPT !.called = TRUE,
                                    !.output = IF tree[r].called THEN @ + 1 ELSE @]]
  BY <1>0, <1>1 DEF ReserveCommits
<1>3. PaidIn(tree, r) /\ ExistsIn(tree, r)
  <2>1. DecidedBy(tree, t)
    BY <1>0 DEF TreeInv, DecidedIn
  <2>2. PaidIn(tree, r)
    BY <1>1, <1>2, <2>1 DEF DecidedBy
  <2> QED
    BY <2>2 DEF PaidIn, ExistsIn
<1>4. PICK rows \in [Members -> TreeRuns] : rows = tree
  BY TreeTyped
<1>5. PICK row \in TreeRuns :
         /\ row = [rows[r] EXCEPT !.called = TRUE,
                     !.output = IF rows[r].called THEN @ + 1 ELSE @]
         /\ row.bot = rows[r].bot /\ row.parent = rows[r].parent
         /\ row.depth = rows[r].depth /\ row.status = rows[r].status
         /\ row.stop = rows[r].stop
         /\ row.output = IF rows[r].called THEN rows[r].output + 1 ELSE rows[r].output
  <2> DEFINE more == IF rows[r].called THEN rows[r].output + 1 ELSE rows[r].output
             row == [rows[r] EXCEPT !.called = TRUE, !.output = more]
  <2>1. rows[r] \in TreeRuns /\ more \in Nat
    BY DEF TreeRuns
  <2>2. row = [rows[r] EXCEPT !.called = TRUE,
                 !.output = IF rows[r].called THEN @ + 1 ELSE @]
    BY <2>1 DEF TreeRuns
  <2>3. more = IF rows[r].called THEN rows[r].output + 1 ELSE rows[r].output
    OBVIOUS
  <2> HIDE DEF more
  <2>4. /\ row \in TreeRuns
        /\ row.bot = rows[r].bot /\ row.parent = rows[r].parent
        /\ row.depth = rows[r].depth /\ row.status = rows[r].status
        /\ row.stop = rows[r].stop /\ row.output = more
    BY <2>1 DEF TreeRuns
  <2> HIDE DEF row
  <2> QED
    BY <2>2, <2>3, <2>4
<1>6. tree' = [rows EXCEPT ![r] = row]
  BY <1>2, <1>4, <1>5
<1>7. PICK new \in [Members -> TreeRuns] :
         /\ new = tree' /\ new[r] = row
         /\ \A d \in Members : d # r => new[d] = rows[d]
  BY <1>6
<1>8. /\ InOrder(rows) /\ BudgetIn(rows) /\ HeldIn(rows, halted, resumed)
      /\ \A h \in halted : ExistsIn(rows, h)
  BY <1>4 DEF TreeInv
<1>9. /\ InOrder(new) /\ BudgetIn(new)
      /\ \A d \in Members : /\ ChainOf(new)[d] = ChainOf(rows)[d]
                            /\ ExistsIn(new, d) <=> ExistsIn(rows, d)
                            /\ new[d].status = rows[d].status
                            /\ new[d].stop = rows[d].stop
  <2>1. /\ r # 1 /\ ExistsIn(rows, r)
        /\ rows[r].called => SumOf(rows, DescIn(rows)) + 1 <= OutputLimit
    BY <1>3, <1>4 DEF PaidIn
  <2>2. /\ \A d \in Members : d # r => new[d] = rows[d]
        /\ new[r].bot = rows[r].bot /\ new[r].parent = rows[r].parent
        /\ new[r].depth = rows[r].depth /\ new[r].status = rows[r].status
        /\ new[r].stop = rows[r].stop
        /\ new[r].output = IF rows[r].called THEN rows[r].output + 1 ELSE rows[r].output
    BY <1>5, <1>7
  <2> QED
    BY <1>8, <2>1, <2>2, PaidBudget
<1>10. HeldIn(new, halted, resumed)
  <2>1. \A d \in Members : ChainOf(rows)[d] \subseteq Members
    BY ChainBounds, DelegationAssumption DEF Members
  <2> SUFFICES ASSUME NEW h \in halted, NEW d \in Members, ExistsIn(new, d),
                      h \in ChainOf(new)[d], ~QuietRow(new[d])
               PROVE  ResumedIn(new, resumed, h, d)
    BY DEF HeldIn
  <2>2. ExistsIn(rows, d) /\ h \in ChainOf(rows)[d] /\ ~QuietRow(rows[d])
    BY <1>9 DEF QuietRow
  <2>3. PICK a \in ChainOf(rows)[d] : h \in ChainOf(rows)[a] /\ a \in resumed
    BY <1>8, <2>2 DEF HeldIn, ResumedIn
  <2> QED
    BY <1>9, <2>1, <2>3 DEF ResumedIn
<1>11. \A h \in halted : ExistsIn(new, h)
  BY <1>8, <1>9, TreeTyped
<1>12. /\ barrier' \in [Members -> SUBSET Sessions]
       /\ session' \in [Sessions -> Transactions]
       /\ LocksIn(tree', barrier', session') /\ DecidedIn(tree', session')
  BY <1>0, <1>2, Ended
<1>13. DelegationTypeOK'
  BY <1>2, <1>7, <1>12, TreeTyped DEF DelegationTypeOK
<1> QED
  BY <1>2, <1>7, <1>9, <1>10, <1>11, <1>12, <1>13 DEF TreeInv

(* What requestDelegatedStops and the user's own stop make of a row is quiet. *)
StoppedRow(new, row) == new \in TreeRuns /\ SameRow(new, row) /\ QuietRow(new)

LEMMA StopQuiets ==
  ASSUME NEW row \in TreeRuns, NEW byUser \in BOOLEAN,
         row.status \notin EndedStates \cup {"none"}
  PROVE  StoppedRow(Stopped(row, byUser), row)
<1>1. /\ row.status \in {"running", "completed", "waiting", "stopping"}
      /\ row.stop \in {"none", "requested", "rejected", "confirmed"}
  BY DEF TreeRuns, EndedStates
<1>2. \/ StoppedRow(row, row)
      \/ row.stop = "none" /\ row.status # "completed"
  BY <1>1 DEF StoppedRow, SameRow, QuietRow
<1>3. StoppedRow([row EXCEPT !.status = "stopping"], row)
  BY <1>1 DEF StoppedRow, SameRow, QuietRow, TreeRuns
<1>4. StoppedRow([row EXCEPT !.status = "stopped"], row)
  BY <1>1 DEF StoppedRow, SameRow, QuietRow, TreeRuns, EndedStates
<1>5. StoppedRow([row EXCEPT !.status = "stopping", !.stop = "requested", !.asked = byUser], row)
  BY <1>1 DEF StoppedRow, SameRow, QuietRow, TreeRuns
<1>6. \/ Stopped(row, byUser) = row /\ (row.stop # "none" \/ row.status = "completed")
      \/ Stopped(row, byUser) = [row EXCEPT !.status = "stopping"]
      \/ Stopped(row, byUser) = [row EXCEPT !.status = "stopped"]
      \/ Stopped(row, byUser)
         = [row EXCEPT !.status = "stopping", !.stop = "requested", !.asked = byUser]
  <2>1. CASE row.status = "completed"
    BY <2>1 DEF Stopped
  <2>2. CASE row.status # "completed" /\ row.stop = "requested"
    BY <2>2 DEF Stopped
  <2>3. CASE row.status # "completed" /\ row.stop = "confirmed"
    BY <2>3 DEF Stopped
  <2>4. CASE row.status # "completed" /\ row.stop \notin {"requested", "confirmed"}
    BY <2>4 DEF Stopped
  <2> QED
    BY <2>1, <2>2, <2>3, <2>4
<1> QED
  BY <1>2, <1>3, <1>4, <1>5, <1>6

LEMMA StoppedRows ==
  ASSUME tree \in [Members -> TreeRuns], NEW r \in Members, ExistsIn(tree, r)
  PROVE  StoppedRow(StoppedFromAbove(r), tree[r]) /\ StoppedRow(StoppedByUser(r), tree[r])
<1>1. PICK row \in TreeRuns : row = tree[r]
  OBVIOUS
<1>2. row.status # "none"
  BY <1>1 DEF ExistsIn
<1>3. ASSUME NEW byUser \in BOOLEAN
      PROVE  StoppedRow([row EXCEPT !.stop = "rejected", !.asked = byUser], row)
  BY <1>2 DEF StoppedRow, SameRow, QuietRow, TreeRuns
<1>4. CASE row.status \in EndedStates
  <2>1. StoppedFromAbove(r) = row /\ StoppedByUser(r) = [row EXCEPT !.asked = TRUE]
    BY <1>1, <1>4 DEF StoppedFromAbove, StoppedByUser
  <2>2. StoppedRow(row, row) /\ StoppedRow([row EXCEPT !.asked = TRUE], row)
    BY <1>2, <1>4 DEF StoppedRow, SameRow, QuietRow, TreeRuns, EndedStates
  <2> QED
    BY <1>1, <2>1, <2>2
<1>5. CASE row.status \notin EndedStates /\ SupportsStop(r)
  <2>1. StoppedFromAbove(r) = Stopped(row, FALSE) /\ StoppedByUser(r) = Stopped(row, TRUE)
    BY <1>1, <1>5 DEF StoppedFromAbove, StoppedByUser
  <2>2. row.status \notin EndedStates \cup {"none"}
    BY <1>2, <1>5
  <2>3. StoppedRow(Stopped(row, FALSE), row) /\ StoppedRow(Stopped(row, TRUE), row)
    BY <2>2, StopQuiets
  <2> QED
    BY <1>1, <2>1, <2>3
<1>6. CASE row.status \notin EndedStates /\ ~SupportsStop(r)
  <2>1. /\ StoppedFromAbove(r) = [row EXCEPT !.stop = "rejected", !.asked = FALSE]
        /\ StoppedByUser(r) = [row EXCEPT !.stop = "rejected", !.asked = TRUE]
    BY <1>1, <1>6 DEF StoppedFromAbove, StoppedByUser
  <2> QED
    BY <1>1, <1>3, <2>1
<1> QED
  BY <1>4, <1>5, <1>6

LEMMA StopCommitsKeeps ==
  ASSUME TreeInv, NEW s \in Sessions, StopCommits(s) PROVE TreeInv'
<1>0. PICK t \in Transactions : t = session[s]
  BY TreeTyped
<1>1. PICK r \in Members, below \in SUBSET Members : r = t.run /\ below = t.below
  BY DEF Transactions
<1>2. /\ t.op = "stop" /\ Ends(s) /\ UNCHANGED <<resumed, occasions>>
      /\ halted' = halted \cup {r}
      /\ tree' = [d \in Members |->
                    IF d = r THEN StoppedByUser(d)
                    ELSE IF d \in below THEN StoppedFromAbove(d) ELSE tree[d]]
  BY <1>0, <1>1 DEF StopCommits
<1>3. below = BelowIn(tree, r) /\ ExistsIn(tree, r)
  <2>1. DecidedBy(tree, t)
    BY <1>0 DEF TreeInv, DecidedIn
  <2>2. LocksIn(tree, barrier, session)
    BY DEF TreeInv
  <2>3. below = BelowIn(tree, r)
    BY <1>1, <1>2, <2>1 DEF DecidedBy
  <2>4. ExistsIn(tree, session[s].run)
    BY <1>0, <1>2, <2>2 DEF LocksIn
  <2> QED
    BY <1>0, <1>1, <2>3, <2>4
<1>4. ASSUME NEW d \in Members
      PROVE  tree'[d] \in TreeRuns /\ (tree'[d] = tree[d] \/ StoppedRow(tree'[d], tree[d]))
  <2>1. d \in below \cup {r} => ExistsIn(tree, d)
    BY <1>3 DEF BelowIn
  <2>2. CASE d = r
    BY <1>2, <2>1, <2>2, TreeTyped, StoppedRows DEF StoppedRow
  <2>3. CASE d # r /\ d \in below
    BY <1>2, <2>1, <2>3, TreeTyped, StoppedRows DEF StoppedRow
  <2>4. CASE d # r /\ d \notin below
    BY <1>2, <2>4, TreeTyped
  <2> QED
    BY <2>2, <2>3, <2>4
<1>5. ASSUME NEW d \in below \cup {r} PROVE QuietRow(tree'[d])
  <2>1. d \in Members /\ ExistsIn(tree, d)
    BY <1>3 DEF BelowIn
  <2>2. CASE d = r
    BY <1>2, <2>1, <2>2, TreeTyped, StoppedRows DEF StoppedRow
  <2>3. CASE d # r
    BY <1>2, <2>1, <2>3, TreeTyped, StoppedRows DEF StoppedRow
  <2> QED
    BY <2>2, <2>3
<1>6. PICK rows \in [Members -> TreeRuns] : rows = tree
  BY TreeTyped
<1>7. PICK new \in [Members -> TreeRuns] : new = tree'
  BY <1>2, <1>4
<1>8. SameShape(new, rows)
  BY <1>4, <1>6, <1>7 DEF SameShape, StoppedRow, SameRow, ExistsIn
<1>9. InOrder(new) /\ BudgetIn(new)
  BY <1>6, <1>8, ShapeBudget DEF TreeInv
<1>10. HeldIn(new, halted', resumed)
  <2>1. HeldIn(rows, halted, resumed)
    BY <1>6 DEF TreeInv
  <2>2. \A d \in Members : ExistsIn(rows, d) /\ QuietRow(rows[d]) =>
            QuietRow(new[d]) \/ d \in resumed
    BY <1>4, <1>6, <1>7 DEF StoppedRow
  <2>3. ASSUME NEW h \in halted' \ halted, NEW d \in Members,
               ExistsIn(rows, d), h \in ChainOf(rows)[d]
        PROVE  QuietRow(new[d])
    <3>1. h = r
      BY <1>2, <2>3
    <3>2. d = r \/ d \in below
      BY <1>3, <1>6, <2>3, <3>1 DEF BelowIn
    <3> QED
      BY <1>5, <1>7, <3>2
  <2>4. PICK stopped2 : stopped2 = halted'
    OBVIOUS
  <2>5. HeldIn(new, stopped2, resumed)
    BY <1>8, <2>1, <2>2, <2>3, <2>4, StopsKept
  <2> QED
    BY <2>4, <2>5
<1>11. \A h \in halted' : ExistsIn(new, h) /\ h \in Members
  BY <1>2, <1>3, <1>6, <1>8, TreeTyped DEF TreeInv, SameShape
<1>12. /\ barrier' \in [Members -> SUBSET Sessions]
       /\ session' \in [Sessions -> Transactions]
       /\ LocksIn(tree', barrier', session') /\ DecidedIn(tree', session')
  BY <1>0, <1>2, Ended
<1>13. DelegationTypeOK'
  BY <1>2, <1>7, <1>11, <1>12, TreeTyped DEF DelegationTypeOK
<1> QED
  BY <1>2, <1>7, <1>9, <1>10, <1>11, <1>12, <1>13 DEF TreeInv

LEMMA TreeStarts == TreeInit => TreeInv
<1> SUFFICES ASSUME TreeInit PROVE TreeInv
  OBVIOUS
<1>1. PICK bot \in Bots :
         tree = [r \in Members |-> IF r = 1 THEN NewRun(bot, 0, 0, 0) ELSE NoRun]
  BY DEF TreeInit
<1>2. /\ RunCount \in Nat \ {0} /\ {CountLimit, OutputLimit, DepthLimit} \subseteq Nat
      /\ MaxHalts \in Nat /\ MaxDepartures \in Nat
      /\ \A d \in Members : 1 .. d \subseteq Members /\ d \in 1 .. d
      /\ 1 \in Members
  BY DelegationAssumption DEF Members
<1>3. /\ NewRun(bot, 0, 0, 0) \in TreeRuns /\ NewRun(bot, 0, 0, 0).depth = 0
      /\ NewRun(bot, 0, 0, 0).status = "running" /\ NewRun(bot, 0, 0, 0).parent = 0
  BY <1>2, NewRunIs
<1>4. NoRun \in TreeRuns /\ NoRun.status = "none"
  <2>1. (CHOOSE b \in Bots : TRUE) \in Bots
    BY DelegationAssumption
  <2>2. NewRun(CHOOSE b \in Bots : TRUE, 0, 0, 0) \in TreeRuns
    BY <1>2, <2>1, NewRunIs
  <2> QED
    BY <2>2 DEF NoRun, TreeRuns
<1>5. /\ tree \in [Members -> TreeRuns] /\ tree[1].depth = 0
      /\ \A d \in Members : ExistsIn(tree, d) <=> d = 1
  BY <1>1, <1>2, <1>3, <1>4 DEF ExistsIn
<1>6. /\ barrier = [r \in Members |-> {}]
      /\ session = [s \in Sessions |-> NoTransaction]
      /\ halted = {} /\ resumed = {}
      /\ occasions = [halts |-> MaxHalts, departures |-> MaxDepartures]
  BY DEF TreeInit
<1>7. DelegationTypeOK
  BY <1>2, <1>5, <1>6, NoTransactionTyped DEF DelegationTypeOK
<1>8. InOrder(tree)
  BY <1>2, <1>5 DEF InOrder
<1>9. BudgetIn(tree)
  <2>1. DescIn(tree) = {} /\ {} \in SUBSET Members
    BY <1>5 DEF DescIn
  <2>2. Cardinality({}) = 0
    BY FS_EmptySet
  <2>3. Units(tree, {}) = {}
    BY DEF Units
  <2>4. SumOf(tree, {}) = 0
    BY <1>5, <2>1, <2>2, <2>3, SumCounts
  <2>5. ASSUME NEW r \in Members, ExistsIn(tree, r)
        PROVE  /\ tree[r].depth <= DepthLimit
               /\ \A a, b \in ChainOf(tree)[r] : tree[a].bot = tree[b].bot => a = b
    <3>1. r = 1
      BY <1>5, <2>5
    <3>2. ChainOf(tree)[1] \subseteq 1 .. 1
      BY <1>2, ChainBounds
    <3>3. \A a, b \in 1 .. 1 : a = b
      OBVIOUS
    <3> QED
      BY <1>2, <1>5, <3>1, <3>2, <3>3
  <2> QED
    BY <1>2, <2>1, <2>2, <2>4, <2>5 DEF BudgetIn
<1>10. HeldIn(tree, halted, resumed) /\ \A r \in halted : ExistsIn(tree, r)
  BY <1>6 DEF HeldIn
<1>11. \A s \in Sessions : session[s].op = "none"
  BY <1>6, NoTransactionTyped
<1>12. LocksIn(tree, barrier, session) /\ DecidedIn(tree, session)
  BY <1>11, Idle
<1> QED
  BY <1>7, <1>8, <1>9, <1>10, <1>12 DEF TreeInv

LEMMA TreeSteps == TreeInv /\ [TreeNext]_treeVars => TreeInv'
<1> SUFFICES ASSUME TreeInv, [TreeNext]_treeVars PROVE TreeInv'
  OBVIOUS
<1>1. ASSUME NEW s \in Sessions, NEW p \in Members, NEW bot \in Bots, DelegateLooks(s, p, bot)
      PROVE  TreeInv'
  BY <1>1, DelegateLooksKeeps
<1>2. ASSUME NEW s \in Sessions, NEW r \in Members, ReserveLooks(s, r) PROVE TreeInv'
  BY <1>2, ReserveLooksKeeps
<1>3. ASSUME NEW s \in Sessions, NEW r \in Members, StopLooks(s, r) PROVE TreeInv'
  BY <1>3, StopLooksKeeps
<1>4. ASSUME NEW s \in Sessions, DelegateCommits(s) PROVE TreeInv'
  BY <1>4, DelegateCommitsKeeps
<1>5. ASSUME NEW s \in Sessions, ReserveCommits(s) PROVE TreeInv'
  BY <1>5, ReserveCommitsKeeps
<1>6. ASSUME NEW s \in Sessions, StopCommits(s) PROVE TreeInv'
  BY <1>6, StopCommitsKeeps
<1>7. ASSUME NEW r \in Members, CompleteRun(r) PROVE TreeInv'
  BY <1>7, CompleteRunKeeps
<1>8. ASSUME NEW r \in Members, EndRun(r) PROVE TreeInv'
  BY <1>8, EndRunKeeps
<1>9. ASSUME NEW r \in Members, ConfirmStop(r) PROVE TreeInv'
  BY <1>9, ConfirmStopKeeps
<1>10. ASSUME NEW r \in Members, RejectStop(r) PROVE TreeInv'
  BY <1>10, RejectStopKeeps
<1>11. ASSUME NEW r \in Members, LoseController(r) PROVE TreeInv'
  BY <1>11, LoseControllerKeeps
<1>12. ASSUME NEW r \in Members, TakeOver(r) PROVE TreeInv'
  BY <1>12, TakeOverKeeps
<1>13. CASE UNCHANGED treeVars
  BY <1>13 DEF treeVars, TreeInv, DelegationTypeOK
<1> QED
  BY <1>1, <1>2, <1>3, <1>4, <1>5, <1>6, <1>7, <1>8, <1>9, <1>10, <1>11, <1>12, <1>13
  DEF TreeNext

LEMMA TreeImplies == TreeInv => TreeHolds
<1> SUFFICES ASSUME TreeInv PROVE TreeHolds
  OBVIOUS
<1>1. WithinBudget
  BY BudgetIs DEF TreeInv
<1>2. StopReachesTree
  <2> SUFFICES ASSUME NEW r \in halted, NEW d \in Below(r),
                      ~(\/ tree[d].status \notin {"running", "waiting"}
                        \/ tree[d].stop # "none")
               PROVE  \E a \in Chain[d] : r \in Chain[a] /\ a \in resumed
    BY DEF StopReachesTree
  <2>1. d \in BelowIn(tree, r)
    BY BelowIs
  <2>2. d \in Members /\ ExistsIn(tree, d) /\ r \in ChainOf(tree)[d]
    BY <2>1 DEF BelowIn
  <2>3. ~QuietRow(tree[d])
    BY DEF QuietRow
  <2>4. ResumedIn(tree, resumed, r, d)
    BY <2>2, <2>3 DEF TreeInv, HeldIn
  <2> QED
    BY <2>4, ChainIs DEF ResumedIn
<1> QED
  BY <1>1, <1>2 DEF TreeHolds

-----------------------------------------------------------------------------
(* However its transactions interleave, a tree of delegated runs keeps its  *)
(* rows and locks well formed.                                              *)
THEOREM DelegationTyped == DelegationSpec => []DelegationTypeOK
<1>1. TreeInv => DelegationTypeOK
  BY DEF TreeInv
<1> QED
  BY <1>1, TreeStarts, TreeSteps, PTL DEF DelegationSpec

(* A tree never holds more runs, deeper runs or more reserved output than   *)
(* acceptDelegation and ReserveDelegationOutput allow, no bot comes twice   *)
(* in a chain, and below a run that a user has stopped nothing goes on that *)
(* was not asked to stop, unless somebody has taken over since.             *)
THEOREM TreeKeeps == DelegationSpec => []TreeHolds
  BY TreeStarts, TreeSteps, TreeImplies, PTL DEF DelegationSpec

=============================================================================
