----------------------- MODULE KnowledgeIngest_proofs -----------------------
(***************************************************************************)
(* What holds of the documents of a knowledge base for any documents,      *)
(* claims, requests, attempts, failed calls and dead processes: a document *)
(* that answers queries is exactly one attempt, and a deleted one leaves   *)
(* nothing in any store.                                                   *)
(***************************************************************************)
EXTENDS KnowledgeIngest, FiniteSetTheorems, TLAPS

(* How many events wait does not matter to the documents: their number may *)
(* be any.                                                                 *)
Typed ==
    /\ base \in {"active", "inactive", "deleting", "gone"}
    /\ file \in [Documents -> Files]
    /\ holding \in [Documents -> SUBSET (Ingesters \cup Callers)]
    /\ uploaded \in [Documents -> Nat]
    /\ task \in [Ingesters -> Tasks]
    /\ request \in [Callers -> Requests]
    /\ spent \in [faults: 0 .. MaxIngestFaults, requests: 0 .. MaxRequests]

-----------------------------------------------------------------------------
(* Who is at work on a document, and what it may rely on                    *)

(* Under the lock: every worker that has left "lock", and a request from    *)
(* its first statement to its last.                                         *)
Deeds == {"put", "create", "unput", "send", "unsend", "reset", "invalidate", "rows",
          "vectors", "images", "original", "row"}
Inside(pc) == pc \in TaskPcs \ {"idle", "lock"}

(* Where a worker has lost its document, where it has no vectors of it yet, *)
(* and where the rows of its attempt count.                                 *)
Failing == {"dropVectors", "dropRows", "dropImages", "record"}
Bare == {"clearImages", "parse", "keys", "images", "chunk", "parents", "children", "count"}
Writing == {"parents", "children", "count", "embed", "ready"}

TaskInv(t, f) ==
    /\ f.status \in Processing \/ (f.status = "failed" /\ t.pc \in Failing)
    /\ f.image => t.keys
    /\ t.pc = "images" => t.keys /\ f.keys
    /\ t.pc = "clearRows" => t.broken \/ f.vectors = {}
    /\ t.pc \in Bare => f.vectors = {}
    /\ t.pc \in Writing => t.attempt \in 1 .. Attempts
    /\ t.pc = "parents" => f.rows = {}
    /\ t.pc = "children" => f.rows = {<<t.attempt, "parents">>}
    /\ t.pc \in {"count", "embed", "ready"} => f.rows = ChunksOf(t.attempt)
    /\ t.pc = "embed" => f.vectors \subseteq {t.attempt}
    /\ t.pc = "ready" => f.vectors = {t.attempt}

(* A removal goes through the stores in one order and leaves each of them   *)
(* empty.                                                                   *)
RequestInv(pc, f) ==
    /\ pc \in {"put", "create", "unput"} => f.status = "none"
    /\ pc \in {"send", "unsend"} => f.status = "pending"
    /\ pc = "reset" => f.status = "failed"
    /\ pc = "invalidate" => f.status \in Processing \cup EndStates
    /\ pc \in {"rows", "vectors", "images", "original", "row"} => f.status = "failed"
    /\ pc \in {"vectors", "images", "original", "row"} => f.rows = {}
    /\ pc \in {"images", "original", "row"} => f.vectors = {}
    /\ pc \in {"original", "row"} => ~f.image
    /\ pc = "row" => ~f.original

(* The row knows the keys of every object in MinIO; a document answers      *)
(* queries with one attempt, and one that has gone has left nothing.        *)
FileInv(f) ==
    /\ f.image => f.keys
    /\ f.status = "ready" => \E a \in 1 .. Attempts :
                                f.rows = ChunksOf(a) /\ f.vectors = {a}
    /\ f.status = "gone" => /\ f.rows = {} /\ f.vectors = {}
                            /\ ~f.image /\ ~f.original

FilesInv == \A d \in Documents : FileInv(file[d])
WorkersInv == \A w \in Ingesters : Inside(task[w].pc) =>
    holding[task[w].doc] = {w} /\ TaskInv(task[w], file[task[w].doc])
CallersInv == \A c \in Callers : request[c].pc \in Deeds =>
    holding[request[c].doc] = {c} /\ RequestInv(request[c].pc, file[request[c].doc])
BaseInv == base = "gone" => \A d \in Documents : ~HasRow(d)
IngestInv == FilesInv /\ WorkersInv /\ CallersInv /\ BaseInv

-----------------------------------------------------------------------------
(* Steps in general                                                         *)

LEMMA Bounds ==
  /\ Documents # {} /\ Ingesters \cap Callers = {}
  /\ Attempts \in Nat /\ MaxRequests \in Nat /\ MaxIngestFaults \in Nat
  BY IngestAssumption

LEMMA Rests ==
  /\ NoTask \in Tasks /\ NoTask.pc = "idle" /\ NoTask.doc \in Documents
  /\ NoTask.attempt = 0 /\ ~NoTask.keys /\ ~NoTask.broken /\ ~NoTask.revoked
  /\ NoRequest \in Requests /\ NoRequest.pc = "idle" /\ ~NoRequest.whole
<1>1. AnyDocument \in Documents
  BY Bounds DEF AnyDocument
<1>2. 0 \in 0 .. Attempts
  BY Bounds
<1> QED
  BY <1>1, <1>2 DEF NoTask, NoRequest, Tasks, Requests, TaskPcs, RequestPcs

(* The bounds are kept. *)
LEMMA Spent ==
  ASSUME Typed
  PROVE  /\ SpendFault \/ UNCHANGED spent
               => spent' \in [faults: 0 .. MaxIngestFaults, requests: 0 .. MaxRequests]
         /\ spent.requests < MaxRequests /\ spent' = [spent EXCEPT !.requests = @ + 1]
               => spent' \in [faults: 0 .. MaxIngestFaults, requests: 0 .. MaxRequests]
  BY Bounds DEF Typed, SpendFault

(* Only x may be at work on d under its lock. *)
Alone(x, d) ==
    /\ \A v \in Ingesters : Inside(task[v].pc) /\ task[v].doc = d => v = x
    /\ \A b \in Callers : request[b].pc \in Deeds /\ request[b].doc = d => b = x

(* Whoever finds the lock free or holds it is alone; and nobody has a lock  *)
(* on an id that was never uploaded.                                        *)
LEMMA AloneThere ==
  ASSUME IngestInv, NEW d \in Documents, NEW x,
         holding[d] \subseteq {x} \/ file[d].status = "unborn"
  PROVE  Alone(x, d)
<1>1. ASSUME NEW v \in Ingesters, Inside(task[v].pc), task[v].doc = d PROVE v = x
  <2>1. holding[d] = {v} /\ file[d].status \in Processing \cup {"failed"}
    BY <1>1 DEF IngestInv, WorkersInv, TaskInv
  <2> QED
    BY <2>1 DEF Processing
<1>2. ASSUME NEW b \in Callers, request[b].pc \in Deeds, request[b].doc = d PROVE b = x
  <2>1. holding[d] = {b} /\ file[d].status \in Statuses \ {"unborn"}
    BY <1>2 DEF IngestInv, CallersInv, RequestInv, Deeds, Statuses, Processing, EndStates
  <2> QED
    BY <2>1
<1> QED
  BY <1>1, <1>2 DEF Alone

(* A worker writes a document that it alone is at work on. *)
LEMMA WorkerActs ==
  ASSUME Typed, IngestInv, NEW w \in Ingesters, NEW d \in Documents,
         NEW f \in Files, NEW t \in Tasks, NEW h \in SUBSET {w},
         Alone(w, d), HasRow(d), Inside(task[w].pc) => task[w].doc = d,
         file' = [file EXCEPT ![d] = f], task' = [task EXCEPT ![w] = t],
         holding' = [holding EXCEPT ![d] = h], UNCHANGED <<base, request>>,
         uploaded' \in [Documents -> Nat],
         spent' \in [faults: 0 .. MaxIngestFaults, requests: 0 .. MaxRequests],
         FileInv(f), Inside(t.pc) => t.doc = d /\ h = {w} /\ TaskInv(t, f)
  PROVE  Typed' /\ IngestInv'
<1>1. /\ file' \in [Documents -> Files] /\ file'[d] = f
      /\ \A e \in Documents : e # d => file'[e] = file[e]
  BY DEF Typed
<1>2. /\ task' \in [Ingesters -> Tasks] /\ task'[w] = t
      /\ \A v \in Ingesters : v # w => task'[v] = task[v]
  BY DEF Typed
<1>3. /\ holding' \in [Documents -> SUBSET (Ingesters \cup Callers)] /\ holding'[d] = h
      /\ \A e \in Documents : e # d => holding'[e] = holding[e]
  BY DEF Typed
<1>4. Typed'
  BY <1>1, <1>2, <1>3 DEF Typed
<1>5. FilesInv'
  BY <1>1 DEF IngestInv, FilesInv
<1>6. WorkersInv'
  <2> SUFFICES ASSUME NEW v \in Ingesters, Inside(task'[v].pc)
               PROVE  /\ holding'[task'[v].doc] = {v}
                      /\ TaskInv(task'[v], file'[task'[v].doc])
    BY DEF WorkersInv
  <2>1. CASE v = w
    BY <1>1, <1>2, <1>3, <2>1
  <2>2. CASE v # w
    <3>1. task'[v] = task[v] /\ task[v].doc \in Documents /\ task[v].doc # d
      BY <1>2, <2>2 DEF Alone, Typed, Tasks
    <3> QED
      BY <1>1, <1>3, <3>1 DEF IngestInv, WorkersInv
  <2> QED
    BY <2>1, <2>2
<1>7. CallersInv'
  <2> SUFFICES ASSUME NEW b \in Callers, request'[b].pc \in Deeds
               PROVE  /\ holding'[request'[b].doc] = {b}
                      /\ RequestInv(request'[b].pc, file'[request'[b].doc])
    BY DEF CallersInv
  <2>1. b # w
    BY Bounds
  <2>2. request'[b] = request[b] /\ request[b].doc \in Documents /\ request[b].doc # d
    BY <2>1 DEF Alone, Typed, Requests
  <2> QED
    BY <1>1, <1>3, <2>2 DEF IngestInv, CallersInv
<1>8. BaseInv'
  BY DEF IngestInv, BaseInv
<1> QED
  BY <1>4, <1>5, <1>6, <1>7, <1>8 DEF IngestInv

(* A worker leaves the stores alone: its claim is revoked, or it is not at  *)
(* work any more.                                                           *)
LEMMA WorkerApart ==
  ASSUME Typed, IngestInv, NEW w \in Ingesters, NEW t \in Tasks,
         task' = [task EXCEPT ![w] = t], UNCHANGED <<base, file, request>>,
         uploaded' \in [Documents -> Nat],
         spent' \in [faults: 0 .. MaxIngestFaults, requests: 0 .. MaxRequests],
         \/ UNCHANGED holding /\ (Inside(t.pc) => /\ Inside(task[w].pc) /\ t.doc = task[w].doc
                                                  /\ TaskInv(t, file[t.doc]))
         \/ ~Inside(t.pc) /\ \E d \in Documents : Unlocked(d, w)
  PROVE  Typed' /\ IngestInv'
<1>1. /\ task' \in [Ingesters -> Tasks] /\ task'[w] = t
      /\ \A v \in Ingesters : v # w => task'[v] = task[v]
  BY DEF Typed
<1>2. /\ holding' \in [Documents -> SUBSET (Ingesters \cup Callers)]
      /\ \A e \in Documents : \A x : x # w /\ holding[e] = {x} => holding'[e] = {x}
  <2>1. CASE UNCHANGED holding
    BY <2>1 DEF Typed
  <2>2. CASE \E d \in Documents : Unlocked(d, w)
    <3>1. PICK d \in Documents : holding' = [holding EXCEPT ![d] = @ \ {w}]
      BY <2>2 DEF Unlocked
    <3> QED
      BY <3>1 DEF Typed
  <2> QED
    BY <2>1, <2>2
<1>3. Typed'
  BY <1>1, <1>2 DEF Typed
<1>4. WorkersInv'
  <2> SUFFICES ASSUME NEW v \in Ingesters, Inside(task'[v].pc)
               PROVE  /\ holding'[task'[v].doc] = {v}
                      /\ TaskInv(task'[v], file'[task'[v].doc])
    BY DEF WorkersInv
  <2>1. CASE v = w
    BY <1>1, <2>1 DEF IngestInv, WorkersInv
  <2>2. CASE v # w
    <3>1. task'[v] = task[v] /\ task[v].doc \in Documents
      BY <1>1, <2>2 DEF Typed, Tasks
    <3> QED
      BY ZenonT(60), <1>2, <2>2, <3>1 DEF IngestInv, WorkersInv
  <2> QED
    BY <2>1, <2>2
<1>5. CallersInv'
  <2> SUFFICES ASSUME NEW b \in Callers, request[b].pc \in Deeds
               PROVE  /\ holding'[request[b].doc] = {b}
                      /\ RequestInv(request[b].pc, file[request[b].doc])
    BY DEF CallersInv
  <2>1. b # w /\ request[b].doc \in Documents
    BY Bounds DEF Typed, Requests
  <2> QED
    BY <1>2, <2>1 DEF IngestInv, CallersInv
<1>6. FilesInv' /\ BaseInv'
  BY DEF IngestInv, FilesInv, BaseInv, HasRow
<1> QED
  BY <1>3, <1>4, <1>5, <1>6 DEF IngestInv

(* A request writes a document that it alone is at work on. *)
LEMMA CallerActs ==
  ASSUME Typed, IngestInv, NEW c \in Callers, NEW d \in Documents,
         NEW f \in Files, NEW r \in Requests, NEW h \in SUBSET {c},
         Alone(c, d), request[c].pc \in Deeds => request[c].doc = d,
         file' = [file EXCEPT ![d] = f], request' = [request EXCEPT ![c] = r],
         holding' = [holding EXCEPT ![d] = h], UNCHANGED <<base, task>>,
         base = "gone" => f.status \notin Processing \cup EndStates,
         uploaded' \in [Documents -> Nat],
         spent' \in [faults: 0 .. MaxIngestFaults, requests: 0 .. MaxRequests],
         FileInv(f), r.pc \in Deeds => r.doc = d /\ h = {c} /\ RequestInv(r.pc, f)
  PROVE  Typed' /\ IngestInv'
<1>1. /\ file' \in [Documents -> Files] /\ file'[d] = f
      /\ \A e \in Documents : e # d => file'[e] = file[e]
  BY DEF Typed
<1>2. /\ request' \in [Callers -> Requests] /\ request'[c] = r
      /\ \A b \in Callers : b # c => request'[b] = request[b]
  BY DEF Typed
<1>3. /\ holding' \in [Documents -> SUBSET (Ingesters \cup Callers)] /\ holding'[d] = h
      /\ \A e \in Documents : e # d => holding'[e] = holding[e]
  BY DEF Typed
<1>4. Typed'
  BY <1>1, <1>2, <1>3 DEF Typed
<1>5. FilesInv'
  BY <1>1 DEF IngestInv, FilesInv
<1>6. WorkersInv'
  <2> SUFFICES ASSUME NEW v \in Ingesters, Inside(task[v].pc)
               PROVE  /\ holding'[task[v].doc] = {v}
                      /\ TaskInv(task[v], file'[task[v].doc])
    BY DEF WorkersInv
  <2>1. v # c
    BY Bounds
  <2>2. task[v].doc \in Documents /\ task[v].doc # d
    BY <2>1 DEF Alone, Typed, Tasks
  <2> QED
    BY <1>1, <1>3, <2>2 DEF IngestInv, WorkersInv
<1>7. CallersInv'
  <2> SUFFICES ASSUME NEW b \in Callers, request'[b].pc \in Deeds
               PROVE  /\ holding'[request'[b].doc] = {b}
                      /\ RequestInv(request'[b].pc, file'[request'[b].doc])
    BY DEF CallersInv
  <2>1. CASE b = c
    BY <1>1, <1>2, <1>3, <2>1
  <2>2. CASE b # c
    <3>1. request'[b] = request[b] /\ request[b].doc \in Documents /\ request[b].doc # d
      BY <1>2, <2>2 DEF Alone, Typed, Requests
    <3> QED
      BY <1>1, <1>3, <3>1 DEF IngestInv, CallersInv
  <2> QED
    BY <2>1, <2>2
<1>8. BaseInv'
  BY <1>1 DEF IngestInv, BaseInv, HasRow
<1> QED
  BY <1>4, <1>5, <1>6, <1>7, <1>8 DEF IngestInv

(* A request leaves the stores alone. *)
LEMMA CallerApart ==
  ASSUME Typed, IngestInv, NEW c \in Callers, NEW r \in Requests,
         request' = [request EXCEPT ![c] = r], UNCHANGED <<file, task>>,
         base' \in {"active", "inactive", "deleting", "gone"}, BaseInv',
         uploaded' \in [Documents -> Nat],
         spent' \in [faults: 0 .. MaxIngestFaults, requests: 0 .. MaxRequests],
         \/ UNCHANGED holding /\ (r.pc \in Deeds => /\ request[c].pc \in Deeds
                                                    /\ r.doc = request[c].doc
                                                    /\ RequestInv(r.pc, file[r.doc]))
         \/ r.pc \notin Deeds /\ \E d \in Documents : Unlocked(d, c)
  PROVE  Typed' /\ IngestInv'
<1>1. /\ request' \in [Callers -> Requests] /\ request'[c] = r
      /\ \A b \in Callers : b # c => request'[b] = request[b]
  BY DEF Typed
<1>2. /\ holding' \in [Documents -> SUBSET (Ingesters \cup Callers)]
      /\ \A e \in Documents : \A x : x # c /\ holding[e] = {x} => holding'[e] = {x}
  <2>1. CASE UNCHANGED holding
    BY <2>1 DEF Typed
  <2>2. CASE \E d \in Documents : Unlocked(d, c)
    <3>1. PICK d \in Documents : holding' = [holding EXCEPT ![d] = @ \ {c}]
      BY <2>2 DEF Unlocked
    <3> QED
      BY <3>1 DEF Typed
  <2> QED
    BY <2>1, <2>2
<1>3. Typed'
  BY <1>1, <1>2 DEF Typed
<1>4. CallersInv'
  <2> SUFFICES ASSUME NEW b \in Callers, request'[b].pc \in Deeds
               PROVE  /\ holding'[request'[b].doc] = {b}
                      /\ RequestInv(request'[b].pc, file[request'[b].doc])
    BY DEF CallersInv
  <2>1. CASE b = c
    BY <1>1, <2>1 DEF IngestInv, CallersInv
  <2>2. CASE b # c
    <3>1. request'[b] = request[b] /\ request[b].doc \in Documents
      BY <1>1, <2>2 DEF Typed, Requests
    <3> QED
      BY ZenonT(60), <1>2, <2>2, <3>1 DEF IngestInv, CallersInv
  <2> QED
    BY <2>1, <2>2
<1>5. WorkersInv'
  <2> SUFFICES ASSUME NEW v \in Ingesters, Inside(task[v].pc)
               PROVE  /\ holding'[task[v].doc] = {v}
                      /\ TaskInv(task[v], file[task[v].doc])
    BY DEF WorkersInv
  <2>1. v # c /\ task[v].doc \in Documents
    BY Bounds DEF Typed, Tasks
  <2> QED
    BY <1>2, <2>1 DEF IngestInv, WorkersInv
<1>6. FilesInv'
  BY DEF IngestInv, FilesInv
<1> QED
  BY <1>3, <1>4, <1>5, <1>6 DEF IngestInv

-----------------------------------------------------------------------------
(* Workers                                                                  *)

LEMMA WorkerFacts ==
  ASSUME Typed, IngestInv, NEW w \in Ingesters
  PROVE  /\ task[w] \in Tasks /\ task[w].doc \in Documents
         /\ DocOf(w) \in Files /\ FileInv(DocOf(w))
         /\ Inside(task[w].pc) => /\ holding[task[w].doc] = {w} /\ TaskInv(task[w], DocOf(w))
                                  /\ HasRow(task[w].doc) /\ Alone(w, task[w].doc)
<1>1. task[w] \in Tasks /\ task[w].doc \in Documents
  BY DEF Typed, Tasks
<1>2. DocOf(w) \in Files /\ FileInv(DocOf(w))
  BY <1>1 DEF DocOf, Typed, IngestInv, FilesInv
<1>3. ASSUME Inside(task[w].pc)
      PROVE  /\ holding[task[w].doc] = {w} /\ TaskInv(task[w], DocOf(w))
             /\ HasRow(task[w].doc) /\ Alone(w, task[w].doc)
  <2>1. holding[task[w].doc] = {w} /\ TaskInv(task[w], DocOf(w))
    BY <1>3 DEF IngestInv, WorkersInv, DocOf
  <2>2. HasRow(task[w].doc)
    BY <2>1 DEF TaskInv, DocOf, HasRow, EndStates
  <2>3. Alone(w, task[w].doc)
    BY <1>1, <2>1, AloneThere
  <2> QED
    BY <2>1, <2>2, <2>3
<1> QED
  BY <1>1, <1>2, <1>3

(* A worker goes to another place of its task. *)
LEMMA AtFacts ==
  ASSUME Typed, NEW w \in Ingesters, NEW pc \in TaskPcs
  PROVE  /\ At(w, pc) \in Tasks /\ At(w, pc).pc = pc /\ At(w, pc).doc = task[w].doc
         /\ At(w, pc).attempt = task[w].attempt /\ At(w, pc).keys = task[w].keys
         /\ At(w, pc).broken = task[w].broken
  BY DEF At, Typed, Tasks

(* One statement or call of a worker under the lock. *)
LEMMA Done ==
  ASSUME Typed, IngestInv, NEW w \in Ingesters, NEW f \in Files, NEW t \in Tasks,
         \/ Does(w, f, t) \/ Stops(w, f, t)
         \/ (SpendFault \/ UNCHANGED spent) /\ \E at : FailStep(w, at, f, t),
         Inside(task[w].pc), Inside(t.pc), t.doc = task[w].doc,
         f.image => f.keys, TaskInv(t, f)
  PROVE  Typed' /\ IngestInv'
<1> DEFINE d == task[w].doc
<1>1. /\ file' = [file EXCEPT ![d] = f] /\ task' = [task EXCEPT ![w] = t]
      /\ UNCHANGED <<base, holding, uploaded, request>>
  BY DEF Does, Stops, FailStep
<1>2. SpendFault \/ UNCHANGED spent
  BY DEF Does, Stops, Cancelled
<1>3. spent' \in [faults: 0 .. MaxIngestFaults, requests: 0 .. MaxRequests]
  BY <1>2, Spent
<1>4. FileInv(f)
  BY DEF TaskInv, FileInv, Processing
<1>5. d \in Documents /\ holding[d] = {w} /\ HasRow(d) /\ Alone(w, d)
  BY WorkerFacts
<1>6. holding' = [holding EXCEPT ![d] = {w}]
  BY <1>1, <1>5 DEF Typed
<1>7. uploaded' \in [Documents -> Nat]
  BY <1>1 DEF Typed
<1> HIDE DEF d
<1>8. {w} \in SUBSET {w} /\ task[w].doc = d
  BY DEF d
<1> QED
  BY <1>1, <1>3, <1>4, <1>5, <1>6, <1>7, <1>8, WorkerActs

(* A step that fails writes nothing, or something the error path may find. *)
LEMMA Stopped ==
  ASSUME Typed, IngestInv, NEW w \in Ingesters, NEW f \in Files,
         Stops(w, f, At(w, "failed")) \/ Does(w, f, At(w, "failed")), Inside(task[w].pc),
         f.status \in Processing, f.image => f.keys /\ task[w].keys
  PROVE  Typed' /\ IngestInv'
<1> DEFINE t == At(w, "failed")
<1>1. /\ t \in Tasks /\ t.pc = "failed" /\ t.doc = task[w].doc /\ t.keys = task[w].keys
      /\ Stops(w, f, t) \/ Does(w, f, t)
  BY AtFacts DEF TaskPcs
<1> HIDE DEF t
<1>2. TaskInv(t, f) /\ Inside(t.pc)
  BY <1>1 DEF TaskInv, Inside, TaskPcs, Bare, Writing
<1> QED
  BY <1>1, <1>2, Done

(* The worker finds its document as it should be. *)
LEMMA Found ==
  ASSUME Typed, IngestInv, NEW w \in Ingesters, Inside(task[w].pc)
  PROVE  /\ DocOf(w) \in Files /\ task[w] \in Tasks /\ TaskInv(task[w], DocOf(w))
         /\ DocOf(w).image => DocOf(w).keys /\ task[w].keys
         /\ task[w].pc \notin Failing => DocOf(w).status \in Processing
  BY WorkerFacts DEF FileInv, TaskInv

LEMMA ClearVectorsKeeps ==
  ASSUME Typed, IngestInv, NEW w \in Ingesters, ClearVectors(w)
  PROVE  Typed' /\ IngestInv'
<1>0. Inside(task[w].pc) /\ task[w].pc \notin Failing
  BY DEF ClearVectors, Working, Inside, TaskPcs, Failing
<1>1. CASE Does(w, [DocOf(w) EXCEPT !.vectors = {}], At(w, "clearRows"))
  <2> DEFINE f == [DocOf(w) EXCEPT !.vectors = {}]
             t == At(w, "clearRows")
  <2>1. /\ f \in Files /\ f.status = DocOf(w).status /\ f.image = DocOf(w).image
        /\ f.keys = DocOf(w).keys /\ f.vectors = {}
    BY <1>0, Found DEF Files
  <2>2. /\ t \in Tasks /\ t.pc = "clearRows" /\ t.doc = task[w].doc /\ t.keys = task[w].keys
        /\ Does(w, f, t)
    BY <1>1, AtFacts DEF TaskPcs
  <2> HIDE DEF f, t
  <2>3. TaskInv(t, f) /\ Inside(t.pc)
    BY <1>0, <2>1, <2>2, Found DEF TaskInv, Inside, TaskPcs, Bare, Writing
  <2> QED
    BY <1>0, <2>1, <2>2, <2>3, Found, Done
<1>2. ASSUME NEW v \in {{}, DocOf(w).vectors},
             Stops(w, [DocOf(w) EXCEPT !.vectors = v], [At(w, "clearRows") EXCEPT !.broken = TRUE])
      PROVE  Typed' /\ IngestInv'
  <2> DEFINE f == [DocOf(w) EXCEPT !.vectors = v]
             t == [At(w, "clearRows") EXCEPT !.broken = TRUE]
  <2>1. /\ f \in Files /\ f.status = DocOf(w).status /\ f.image = DocOf(w).image
        /\ f.keys = DocOf(w).keys
    BY <1>0, Found DEF Files
  <2>2. At(w, "clearRows") \in Tasks /\ At(w, "clearRows").pc = "clearRows"
        /\ At(w, "clearRows").doc = task[w].doc /\ At(w, "clearRows").keys = task[w].keys
    BY AtFacts DEF TaskPcs
  <2>3. /\ t \in Tasks /\ t.pc = "clearRows" /\ t.doc = task[w].doc /\ t.keys = task[w].keys
        /\ t.broken /\ Stops(w, f, t)
    BY <1>2, <2>2 DEF Tasks
  <2> HIDE DEF f, t
  <2>4. TaskInv(t, f) /\ Inside(t.pc)
    BY <1>0, <2>1, <2>3, Found DEF TaskInv, Inside, TaskPcs, Bare, Writing
  <2> QED
    BY <1>0, <2>1, <2>3, <2>4, Found, Done
<1> QED
  BY <1>1, <1>2 DEF ClearVectors

LEMMA ClearRowsKeeps ==
  ASSUME Typed, IngestInv, NEW w \in Ingesters, ClearRows(w)
  PROVE  Typed' /\ IngestInv'
<1>0. Inside(task[w].pc) /\ task[w].pc \notin Failing /\ task[w].pc = "clearRows"
  BY DEF ClearRows, Working, Inside, TaskPcs, Failing
<1> DEFINE f == [DocOf(w) EXCEPT !.rows = {}]
<1>1. /\ f \in Files /\ f.status = DocOf(w).status /\ f.image = DocOf(w).image
      /\ f.keys = DocOf(w).keys /\ f.vectors = DocOf(w).vectors
  BY <1>0, Found DEF Files
<1>2. \/ Does(w, f, At(w, IF task[w].broken THEN "failed" ELSE "clearImages"))
      \/ Stops(w, DocOf(w), At(w, "failed"))
  BY DEF ClearRows
<1> HIDE DEF f
<1>3. CASE ~task[w].broken /\ Does(w, f, At(w, "clearImages"))
  <2> DEFINE t == At(w, "clearImages")
  <2>1. /\ t \in Tasks /\ t.pc = "clearImages" /\ t.doc = task[w].doc
        /\ t.keys = task[w].keys /\ Does(w, f, t)
    BY <1>3, AtFacts DEF TaskPcs
  <2> HIDE DEF t
  <2>2. TaskInv(task[w], DocOf(w))
    BY <1>0, Found
  <2>3. DocOf(w).vectors = {}
    BY <1>0, <1>3, <2>2 DEF TaskInv
  <2>4. TaskInv(t, f) /\ Inside(t.pc)
    BY <1>0, <1>1, <2>1, <2>3, Found DEF TaskInv, Inside, TaskPcs, Bare, Writing
  <2> QED
    BY <1>0, <1>1, <2>1, <2>4, Found, Done
<1>4. CASE Does(w, f, At(w, "failed")) \/ Stops(w, DocOf(w), At(w, "failed"))
  BY <1>0, <1>1, <1>4, Found, Stopped
<1> QED
  BY <1>2, <1>3, <1>4

LEMMA ClearImagesKeeps ==
  ASSUME Typed, IngestInv, NEW w \in Ingesters, ClearImages(w)
  PROVE  Typed' /\ IngestInv'
<1>0. Inside(task[w].pc) /\ task[w].pc \notin Failing /\ task[w].pc = "clearImages"
  BY DEF ClearImages, Working, Inside, TaskPcs, Failing
<1> DEFINE image == DocOf(w).image /\ ~task[w].keys
           f == [DocOf(w) EXCEPT !.image = image]
           t == [At(w, "parse") EXCEPT !.keys = FALSE]
<1>1. \/ Does(w, f, t)
      \/ Stops(w, DocOf(w), At(w, "failed"))
  BY DEF ClearImages
<1>2. image = FALSE
  BY <1>0, Found
<1>3. /\ f \in Files /\ f.status = DocOf(w).status /\ f.image = FALSE
      /\ f.vectors = DocOf(w).vectors
  <2> HIDE DEF image
  <2> QED
    BY <1>0, <1>2, Found DEF Files
<1>4. At(w, "parse") \in Tasks /\ At(w, "parse").pc = "parse" /\ At(w, "parse").doc = task[w].doc
  BY AtFacts DEF TaskPcs
<1>5. t \in Tasks /\ t.pc = "parse" /\ t.doc = task[w].doc
  BY <1>4 DEF Tasks
<1> HIDE DEF image, f, t
<1>6. CASE Does(w, f, t)
  <2>1. TaskInv(task[w], DocOf(w)) /\ DocOf(w).status \in Processing
    BY <1>0, Found
  <2>2. DocOf(w).vectors = {}
    BY <1>0, <2>1 DEF TaskInv, Bare
  <2>3. TaskInv(t, f) /\ Inside(t.pc)
    BY <1>3, <1>5, <2>1, <2>2 DEF TaskInv, Inside, TaskPcs, Bare, Writing
  <2> QED
    BY <1>0, <1>3, <1>5, <1>6, <2>3, Done
<1>7. CASE Stops(w, DocOf(w), At(w, "failed"))
  BY <1>0, <1>7, Found, Stopped
<1> QED
  BY <1>1, <1>6, <1>7

LEMMA ParseKeeps ==
  ASSUME Typed, IngestInv, NEW w \in Ingesters, Parse(w)
  PROVE  Typed' /\ IngestInv'
<1>0. Inside(task[w].pc) /\ task[w].pc \notin Failing /\ task[w].pc = "parse"
  BY DEF Parse, Working, Inside, TaskPcs, Failing
<1> DEFINE f == [DocOf(w) EXCEPT !.status = "parsing"]
<1>1. /\ f \in Files /\ f.status \in Processing /\ f.image = DocOf(w).image
      /\ f.keys = DocOf(w).keys /\ f.vectors = DocOf(w).vectors
  BY <1>0, Found DEF Files, Statuses, Processing
<1>2. \/ \E pc \in {"keys", "chunk"} : Does(w, f, At(w, pc))
      \/ Does(w, f, At(w, "failed")) \/ Stops(w, f, At(w, "failed"))
      \/ Stops(w, DocOf(w), At(w, "failed"))
  BY DEF Parse
<1> HIDE DEF f
<1>3. ASSUME NEW pc \in {"keys", "chunk"}, Does(w, f, At(w, pc))
      PROVE  Typed' /\ IngestInv'
  <2> DEFINE t == At(w, pc)
  <2>1. /\ t \in Tasks /\ t.pc = pc /\ t.doc = task[w].doc
        /\ t.keys = task[w].keys /\ Does(w, f, t)
    BY <1>3, AtFacts DEF TaskPcs
  <2> HIDE DEF t
  <2>2. TaskInv(task[w], DocOf(w)) /\ (DocOf(w).image => DocOf(w).keys /\ task[w].keys)
    BY <1>0, Found
  <2>3. DocOf(w).vectors = {}
    BY <1>0, <2>2 DEF TaskInv, Bare
  <2>4. TaskInv(t, f) /\ Inside(t.pc)
    BY <1>1, <2>1, <2>2, <2>3 DEF TaskInv, Inside, TaskPcs, Bare, Writing
  <2> QED
    BY <1>0, <1>1, <2>1, <2>2, <2>4, Done
<1>4. CASE \/ Does(w, f, At(w, "failed")) \/ Stops(w, f, At(w, "failed"))
           \/ Stops(w, DocOf(w), At(w, "failed"))
  BY <1>0, <1>1, <1>4, Found, Stopped
<1> QED
  BY <1>2, <1>3, <1>4

LEMMA PersistKeysKeeps ==
  ASSUME Typed, IngestInv, NEW w \in Ingesters, PersistKeys(w)
  PROVE  Typed' /\ IngestInv'
<1>0. Inside(task[w].pc) /\ task[w].pc \notin Failing /\ task[w].pc = "keys"
  BY DEF PersistKeys, Working, Inside, TaskPcs, Failing
<1> DEFINE f == [DocOf(w) EXCEPT !.keys = TRUE]
           t(pc) == [At(w, pc) EXCEPT !.keys = TRUE]
<1>1. Does(w, f, t("images")) \/ Stops(w, DocOf(w), t("failed"))
  BY DEF PersistKeys
<1>2. /\ f \in Files /\ f.status = DocOf(w).status /\ f.image = DocOf(w).image
      /\ f.keys /\ f.vectors = DocOf(w).vectors
  BY <1>0, Found DEF Files
<1>3. ASSUME NEW pc \in {"images", "failed"}
      PROVE  t(pc) \in Tasks /\ t(pc).pc = pc /\ t(pc).doc = task[w].doc /\ t(pc).keys
  <2>1. At(w, pc) \in Tasks /\ At(w, pc).pc = pc /\ At(w, pc).doc = task[w].doc
    BY AtFacts DEF TaskPcs
  <2> QED
    BY <2>1 DEF Tasks
<1> HIDE DEF f, t
<1>4. /\ TaskInv(task[w], DocOf(w)) /\ (DocOf(w).image => DocOf(w).keys /\ task[w].keys)
      /\ DocOf(w).status \in Processing /\ DocOf(w) \in Files
  BY <1>0, Found
<1>5. DocOf(w).vectors = {}
  BY <1>0, <1>4 DEF TaskInv, Bare
<1>6. TaskInv(t("images"), f) /\ Inside(t("images").pc)
  BY <1>2, <1>3, <1>4, <1>5 DEF TaskInv, Inside, TaskPcs, Bare, Writing
<1>7. TaskInv(t("failed"), DocOf(w)) /\ Inside(t("failed").pc)
  BY <1>3, <1>4 DEF TaskInv, Inside, TaskPcs, Bare, Writing
<1>8. CASE Does(w, f, t("images"))
  BY <1>0, <1>2, <1>3, <1>6, <1>8, Done
<1>9. CASE Stops(w, DocOf(w), t("failed"))
  BY <1>0, <1>3, <1>4, <1>7, <1>9, Done
<1> QED
  BY <1>1, <1>8, <1>9

LEMMA StoreImagesKeeps ==
  ASSUME Typed, IngestInv, NEW w \in Ingesters, StoreImages(w)
  PROVE  Typed' /\ IngestInv'
<1>0. Inside(task[w].pc) /\ task[w].pc \notin Failing /\ task[w].pc = "images"
  BY DEF StoreImages, Working, Inside, TaskPcs, Failing
<1> DEFINE f(x) == [DocOf(w) EXCEPT !.image = x]
           t == At(w, "chunk")
<1>1. \/ Does(w, f(TRUE), t)
      \/ \E x \in BOOLEAN : Stops(w, f(x), At(w, "failed"))
  <2>1. DocOf(w).image \in BOOLEAN
    BY <1>0, Found DEF Files
  <2> QED
    BY <2>1 DEF StoreImages
<1>2. ASSUME NEW x \in BOOLEAN
      PROVE  /\ f(x) \in Files /\ f(x).status = DocOf(w).status
             /\ f(x).keys = DocOf(w).keys /\ f(x).vectors = DocOf(w).vectors
  BY <1>0, Found DEF Files
<1>3. t \in Tasks /\ t.pc = "chunk" /\ t.doc = task[w].doc /\ t.keys = task[w].keys
  BY AtFacts DEF TaskPcs
<1>4. TaskInv(task[w], DocOf(w)) /\ DocOf(w).status \in Processing
  BY <1>0, Found
<1>5. DocOf(w).keys /\ DocOf(w).vectors = {}
  BY <1>0, <1>4 DEF TaskInv, Bare
<1> HIDE DEF f, t
<1>6. CASE Does(w, f(TRUE), t) /\ task[w].keys
  <2>1. TaskInv(t, f(TRUE)) /\ Inside(t.pc)
    BY <1>2, <1>3, <1>4, <1>5, <1>6 DEF TaskInv, Inside, TaskPcs, Bare, Writing
  <2> QED
    BY <1>0, <1>2, <1>3, <1>5, <1>6, <2>1, Done
<1>7. CASE (\E x \in BOOLEAN : Stops(w, f(x), At(w, "failed"))) /\ task[w].keys
  <2>1. PICK x \in BOOLEAN : Stops(w, f(x), At(w, "failed"))
    BY <1>7
  <2> QED
    BY <1>0, <1>2, <1>4, <1>5, <1>7, <2>1, Stopped
<1> QED
  BY <1>0, <1>1, <1>4, <1>6, <1>7 DEF TaskInv

(* A stage that failed is repeated, from the prepared chunks on, or ends.   *)
LEMMA ChunksStopped ==
  ASSUME Typed, IngestInv, NEW w \in Ingesters, ChunkStops(w), Inside(task[w].pc),
         task[w].pc \notin Failing, DocOf(w).vectors = {}
  PROVE  Typed' /\ IngestInv'
<1>1. CASE Stops(w, DocOf(w), At(w, "failed"))
  BY <1>1, Found, Stopped
<1>2. CASE Stops(w, DocOf(w), At(w, "chunk"))
  <2> DEFINE t == At(w, "chunk")
  <2>1. t \in Tasks /\ t.pc = "chunk" /\ t.doc = task[w].doc /\ t.keys = task[w].keys
    BY AtFacts DEF TaskPcs
  <2> HIDE DEF t
  <2>2. /\ DocOf(w) \in Files /\ DocOf(w).status \in Processing
        /\ DocOf(w).image => DocOf(w).keys /\ task[w].keys
    BY Found
  <2>3. TaskInv(t, DocOf(w)) /\ Inside(t.pc)
    BY <2>1, <2>2 DEF TaskInv, Inside, TaskPcs, Bare, Writing
  <2> QED
    BY <1>2, <2>1, <2>2, <2>3, Done DEF t
<1> QED
  BY <1>1, <1>2 DEF ChunkStops

LEMMA ReplaceChunksKeeps ==
  ASSUME Typed, IngestInv, NEW w \in Ingesters, ReplaceChunks(w)
  PROVE  Typed' /\ IngestInv'
<1>0. Inside(task[w].pc) /\ task[w].pc \notin Failing /\ task[w].pc = "chunk"
  BY DEF ReplaceChunks, Working, Inside, TaskPcs, Failing
<1>1. CASE Stops(w, DocOf(w), At(w, "failed"))
  BY <1>0, <1>1, Found, Stopped
<1>2. CASE ~Stops(w, DocOf(w), At(w, "failed"))
  <2> DEFINE fresh == task[w].attempt = 0
             a == IF fresh THEN DocOf(w).prepared + 1 ELSE task[w].attempt
             prepared == IF fresh THEN a ELSE DocOf(w).prepared
             f == [DocOf(w) EXCEPT !.status = "chunking", !.rows = {}, !.prepared = prepared]
             t == [At(w, "parents") EXCEPT !.attempt = a]
  <2>1. a <= Attempts /\ Does(w, f, t)
    BY <1>2 DEF ReplaceChunks
  <2>2. /\ DocOf(w) \in Files /\ task[w] \in Tasks /\ TaskInv(task[w], DocOf(w))
        /\ DocOf(w).image => DocOf(w).keys /\ task[w].keys
    BY <1>0, Found
  <2>3. a \in 1 .. Attempts /\ prepared \in 0 .. Attempts
    <3>1. DocOf(w).prepared \in 0 .. Attempts /\ task[w].attempt \in 0 .. Attempts
      BY <2>2 DEF Files, Tasks
    <3> QED
      BY <2>1, <3>1, Bounds
  <2>4. DocOf(w).vectors = {}
    BY <1>0, <2>2 DEF TaskInv, Bare
  <2> HIDE DEF fresh, a, prepared
  <2>5. /\ f \in Files /\ f.status \in Processing /\ f.image = DocOf(w).image
        /\ f.keys = DocOf(w).keys /\ f.vectors = {} /\ f.rows = {}
    BY <2>2, <2>3, <2>4 DEF Files, Statuses, Processing
  <2>6. /\ At(w, "parents") \in Tasks /\ At(w, "parents").pc = "parents"
        /\ At(w, "parents").doc = task[w].doc /\ At(w, "parents").keys = task[w].keys
    BY AtFacts DEF TaskPcs
  <2>7. a \in 0 .. Attempts
    BY <2>3
  <2>8. /\ t \in Tasks /\ t.pc = "parents" /\ t.doc = task[w].doc /\ t.keys = task[w].keys
        /\ t.attempt = a
    BY <2>6, <2>7 DEF Tasks
  <2> HIDE DEF f, t
  <2>9. TaskInv(t, f) /\ Inside(t.pc)
    BY <2>2, <2>3, <2>5, <2>8 DEF TaskInv, Inside, TaskPcs, Bare, Writing
  <2> QED
    BY <1>0, <2>1, <2>2, <2>5, <2>8, <2>9, Done
<1> QED
  BY <1>1, <1>2

LEMMA CreateParentsKeeps ==
  ASSUME Typed, IngestInv, NEW w \in Ingesters, CreateParents(w)
  PROVE  Typed' /\ IngestInv'
<1>0. Inside(task[w].pc) /\ task[w].pc \notin Failing /\ task[w].pc = "parents"
  BY DEF CreateParents, Working, Inside, TaskPcs, Failing
<1>1. /\ DocOf(w) \in Files /\ task[w] \in Tasks /\ TaskInv(task[w], DocOf(w))
      /\ DocOf(w).image => DocOf(w).keys /\ task[w].keys
      /\ DocOf(w).status \in Processing
  BY <1>0, Found
<1>2. /\ DocOf(w).vectors = {} /\ DocOf(w).rows = {} /\ task[w].attempt \in 1 .. Attempts
  BY <1>0, <1>1 DEF TaskInv, Bare, Writing
<1> DEFINE more == DocOf(w).rows \cup {<<task[w].attempt, "parents">>}
           f == [DocOf(w) EXCEPT !.rows = more]
           t == At(w, "children")
<1>3. Does(w, f, t) \/ ChunkStops(w)
  BY DEF CreateParents
<1>4. more = {<<task[w].attempt, "parents">>} /\ more \in SUBSET AllChunks
  BY <1>2 DEF AllChunks, ChunksOf
<1> HIDE DEF more
<1>5. /\ f \in Files /\ f.status = DocOf(w).status /\ f.image = DocOf(w).image
      /\ f.keys = DocOf(w).keys /\ f.vectors = {} /\ f.rows = more
  BY <1>1, <1>2, <1>4 DEF Files
<1>6. /\ t \in Tasks /\ t.pc = "children" /\ t.doc = task[w].doc /\ t.keys = task[w].keys
      /\ t.attempt = task[w].attempt
  BY AtFacts DEF TaskPcs
<1> HIDE DEF f, t
<1>7. TaskInv(t, f) /\ Inside(t.pc)
  BY <1>1, <1>2, <1>4, <1>5, <1>6 DEF TaskInv, Inside, TaskPcs, Bare, Writing
<1>8. CASE Does(w, f, t)
  BY <1>0, <1>1, <1>5, <1>6, <1>7, <1>8, Done
<1>9. CASE ChunkStops(w)
  BY <1>0, <1>2, <1>9, ChunksStopped
<1> QED
  BY <1>3, <1>8, <1>9

LEMMA CreateChildrenKeeps ==
  ASSUME Typed, IngestInv, NEW w \in Ingesters, CreateChildren(w)
  PROVE  Typed' /\ IngestInv'
<1>0. Inside(task[w].pc) /\ task[w].pc \notin Failing /\ task[w].pc = "children"
  BY DEF CreateChildren, Working, Inside, TaskPcs, Failing
<1>1. /\ DocOf(w) \in Files /\ task[w] \in Tasks /\ TaskInv(task[w], DocOf(w))
      /\ DocOf(w).image => DocOf(w).keys /\ task[w].keys
      /\ DocOf(w).status \in Processing
  BY <1>0, Found
<1>2. /\ DocOf(w).vectors = {} /\ DocOf(w).rows = {<<task[w].attempt, "parents">>}
      /\ task[w].attempt \in 1 .. Attempts
  BY <1>0, <1>1 DEF TaskInv, Bare, Writing
<1> DEFINE more == DocOf(w).rows \cup {<<task[w].attempt, "children">>}
           f == [DocOf(w) EXCEPT !.rows = more]
           t == At(w, "count")
<1>3. Does(w, f, t) \/ ChunkStops(w)
  BY DEF CreateChildren
<1>4. more = ChunksOf(task[w].attempt) /\ more \in SUBSET AllChunks
  BY <1>2 DEF AllChunks, ChunksOf
<1> HIDE DEF more
<1>5. /\ f \in Files /\ f.status = DocOf(w).status /\ f.image = DocOf(w).image
      /\ f.keys = DocOf(w).keys /\ f.vectors = {} /\ f.rows = more
  BY <1>1, <1>2, <1>4 DEF Files
<1>6. /\ t \in Tasks /\ t.pc = "count" /\ t.doc = task[w].doc /\ t.keys = task[w].keys
      /\ t.attempt = task[w].attempt
  BY AtFacts DEF TaskPcs
<1> HIDE DEF f, t
<1>7. TaskInv(t, f) /\ Inside(t.pc)
  BY <1>1, <1>2, <1>4, <1>5, <1>6 DEF TaskInv, Inside, TaskPcs, Bare, Writing
<1>8. CASE Does(w, f, t)
  BY <1>0, <1>1, <1>5, <1>6, <1>7, <1>8, Done
<1>9. CASE ChunkStops(w)
  BY <1>0, <1>2, <1>9, ChunksStopped
<1> QED
  BY <1>3, <1>8, <1>9

LEMMA CountChunksKeeps ==
  ASSUME Typed, IngestInv, NEW w \in Ingesters, CountChunks(w)
  PROVE  Typed' /\ IngestInv'
<1>0. Inside(task[w].pc) /\ task[w].pc \notin Failing /\ task[w].pc = "count"
  BY DEF CountChunks, Working, Inside, TaskPcs, Failing
<1>1. /\ DocOf(w) \in Files /\ task[w] \in Tasks /\ TaskInv(task[w], DocOf(w))
      /\ DocOf(w).image => DocOf(w).keys /\ task[w].keys
      /\ DocOf(w).status \in Processing
  BY <1>0, Found
<1>2. /\ DocOf(w).vectors = {} /\ DocOf(w).rows = ChunksOf(task[w].attempt)
      /\ task[w].attempt \in 1 .. Attempts
  BY <1>0, <1>1 DEF TaskInv, Bare, Writing
<1> DEFINE f == [DocOf(w) EXCEPT !.keys = task[w].keys]
           t == At(w, "embed")
<1>3. Does(w, f, t) \/ ChunkStops(w)
  BY DEF CountChunks
<1>4. task[w].keys \in BOOLEAN
  BY <1>1 DEF Tasks
<1>5. /\ f \in Files /\ f.status = DocOf(w).status /\ f.image = DocOf(w).image
      /\ f.keys = task[w].keys /\ f.vectors = {} /\ f.rows = DocOf(w).rows
  BY <1>1, <1>2, <1>4 DEF Files
<1>6. /\ t \in Tasks /\ t.pc = "embed" /\ t.doc = task[w].doc /\ t.keys = task[w].keys
      /\ t.attempt = task[w].attempt
  BY AtFacts DEF TaskPcs
<1> HIDE DEF f, t
<1>7. TaskInv(t, f) /\ Inside(t.pc)
  BY <1>1, <1>2, <1>4, <1>5, <1>6 DEF TaskInv, Inside, TaskPcs, Bare, Writing
<1>8. CASE Does(w, f, t)
  BY <1>0, <1>1, <1>5, <1>6, <1>7, <1>8, Done
<1>9. CASE ChunkStops(w)
  BY <1>0, <1>2, <1>9, ChunksStopped
<1> QED
  BY <1>3, <1>8, <1>9

LEMMA InsertVectorsKeeps ==
  ASSUME Typed, IngestInv, NEW w \in Ingesters, InsertVectors(w)
  PROVE  Typed' /\ IngestInv'
<1>0. Inside(task[w].pc) /\ task[w].pc \notin Failing /\ task[w].pc = "embed"
  BY DEF InsertVectors, Working, Inside, TaskPcs, Failing
<1>1. /\ DocOf(w) \in Files /\ task[w] \in Tasks /\ TaskInv(task[w], DocOf(w))
      /\ DocOf(w).image => DocOf(w).keys /\ task[w].keys
  BY <1>0, Found
<1>2. /\ DocOf(w).vectors \subseteq {task[w].attempt}
      /\ DocOf(w).rows = ChunksOf(task[w].attempt) /\ task[w].attempt \in 1 .. Attempts
  BY <1>0, <1>1 DEF TaskInv, Bare, Writing
<1> DEFINE with == DocOf(w).vectors \cup {task[w].attempt}
           f(v) == [DocOf(w) EXCEPT !.status = "embedding", !.vectors = v]
<1>3. \/ Does(w, f(with), At(w, "ready"))
      \/ \E v \in {DocOf(w).vectors, with}, pc \in {"embed", "failed"} : Stops(w, f(v), At(w, pc))
  BY DEF InsertVectors
<1>4. with = {task[w].attempt}
  BY <1>2
<1>5. ASSUME NEW v \in {DocOf(w).vectors, with}
      PROVE  /\ f(v) \in Files /\ f(v).status \in Processing /\ f(v).image = DocOf(w).image
             /\ f(v).keys = DocOf(w).keys /\ f(v).vectors = v /\ f(v).rows = DocOf(w).rows
             /\ v \subseteq {task[w].attempt}
  <2>1. v \in SUBSET (1 .. Attempts) /\ v \subseteq {task[w].attempt}
    BY <1>2, <1>4, <1>5
  <2> QED
    BY <1>1, <2>1 DEF Files, Statuses, Processing
<1>6. ASSUME NEW pc \in {"embed", "ready"}
      PROVE  /\ At(w, pc) \in Tasks /\ At(w, pc).pc = pc /\ At(w, pc).doc = task[w].doc
             /\ At(w, pc).keys = task[w].keys /\ At(w, pc).attempt = task[w].attempt
  BY AtFacts DEF TaskPcs
<1> HIDE DEF f, with
<1>7. CASE Does(w, f(with), At(w, "ready"))
  <2>1. TaskInv(At(w, "ready"), f(with)) /\ Inside(At(w, "ready").pc)
    BY <1>1, <1>2, <1>4, <1>5, <1>6 DEF TaskInv, Inside, TaskPcs, Bare, Writing
  <2> QED
    BY <1>0, <1>1, <1>5, <1>6, <1>7, <2>1, Done
<1>8. ASSUME NEW v \in {DocOf(w).vectors, with}, Stops(w, f(v), At(w, "embed"))
      PROVE  Typed' /\ IngestInv'
  <2>1. TaskInv(At(w, "embed"), f(v)) /\ Inside(At(w, "embed").pc)
    BY <1>1, <1>2, <1>5, <1>6 DEF TaskInv, Inside, TaskPcs, Bare, Writing
  <2> QED
    BY <1>0, <1>1, <1>5, <1>6, <1>8, <2>1, Done
<1>9. ASSUME NEW v \in {DocOf(w).vectors, with}, Stops(w, f(v), At(w, "failed"))
      PROVE  Typed' /\ IngestInv'
  BY <1>0, <1>1, <1>5, <1>9, Stopped
<1> QED
  BY <1>3, <1>7, <1>8, <1>9

(* An event is acknowledged, or stays. *)
LEMMA AcknowledgedTyped ==
  ASSUME Typed, NEW w \in Ingesters, Acknowledged(w)
  PROVE  uploaded' \in [Documents -> Nat]
<1> DEFINE d == task[w].doc
           n == IF task[w].revoked \/ uploaded[d] = 0 THEN uploaded[d] ELSE uploaded[d] - 1
<1>1. d \in Documents
  BY WorkerFacts DEF Typed, Tasks
<1>2. uploaded[d] \in Nat
  BY <1>1 DEF Typed
<1>3. n \in Nat
  BY <1>2
<1>4. uploaded' = [uploaded EXCEPT ![d] = n]
  BY <1>1 DEF Acknowledged, Typed
<1> HIDE DEF d, n
<1> QED
  BY <1>1, <1>3, <1>4 DEF Typed

(* The last statement of a task under the lock, which is released. *)
LEMMA WorkerEnds ==
  ASSUME Typed, IngestInv, NEW w \in Ingesters, Inside(task[w].pc), NEW f \in Files,
         file' = [file EXCEPT ![task[w].doc] = f], TaskEnds(w), FileInv(f),
         UNCHANGED <<base, request>>, uploaded' \in [Documents -> Nat],
         SpendFault \/ UNCHANGED spent
  PROVE  Typed' /\ IngestInv'
<1> DEFINE d == task[w].doc
<1>1. d \in Documents /\ holding[d] = {w} /\ HasRow(d) /\ Alone(w, d)
  BY WorkerFacts
<1>2. holding' = [holding EXCEPT ![d] = {}]
  BY <1>1 DEF TaskEnds, Unlocked, Typed
<1>3. /\ task' = [task EXCEPT ![w] = NoTask] /\ file' = [file EXCEPT ![d] = f]
  BY DEF TaskEnds
<1>4. ~Inside(NoTask.pc) /\ NoTask \in Tasks
  BY Rests DEF Inside
<1>5. spent' \in [faults: 0 .. MaxIngestFaults, requests: 0 .. MaxRequests]
  BY Spent
<1>6. {} \in SUBSET {w} /\ task[w].doc = d
  OBVIOUS
<1> HIDE DEF d
<1> QED
  BY <1>1, <1>2, <1>3, <1>4, <1>5, <1>6, WorkerActs

LEMMA MarkReadyKeeps ==
  ASSUME Typed, IngestInv, NEW w \in Ingesters, MarkReady(w)
  PROVE  Typed' /\ IngestInv'
<1>0. Inside(task[w].pc) /\ task[w].pc \notin Failing /\ task[w].pc = "ready"
  BY DEF MarkReady, Working, Inside, TaskPcs, Failing
<1>1. /\ DocOf(w) \in Files /\ TaskInv(task[w], DocOf(w))
      /\ DocOf(w).image => DocOf(w).keys /\ task[w].keys
      /\ DocOf(w).status \in Processing /\ task[w].doc \in Documents
  BY <1>0, Found, WorkerFacts
<1>2. CASE Stops(w, DocOf(w), At(w, "failed"))
  BY <1>0, <1>1, <1>2, Stopped
<1>3. CASE /\ file' = [file EXCEPT ![task[w].doc].status = "ready"]
           /\ Acknowledged(w) /\ TaskEnds(w)
           /\ UNCHANGED <<base, request, spent>>
  <2> DEFINE f == [DocOf(w) EXCEPT !.status = "ready"]
  <2>1. file' = [file EXCEPT ![task[w].doc] = f]
    BY <1>3 DEF DocOf
  <2>2. /\ f \in Files /\ f.status = "ready" /\ f.image = DocOf(w).image
        /\ f.keys = DocOf(w).keys /\ f.vectors = DocOf(w).vectors /\ f.rows = DocOf(w).rows
    BY <1>1 DEF Files, Statuses, EndStates
  <2> HIDE DEF f
  <2>3. /\ task[w].attempt \in 1 .. Attempts /\ f.rows = ChunksOf(task[w].attempt)
        /\ f.vectors = {task[w].attempt}
    BY <1>0, <1>1, <2>2 DEF TaskInv, Writing
  <2>4. FileInv(f)
    BY <1>1, <2>2, <2>3 DEF FileInv
  <2>5. uploaded' \in [Documents -> Nat]
    BY <1>3, AcknowledgedTyped
  <2> QED
    BY <1>0, <1>3, <2>1, <2>2, <2>4, <2>5, WorkerEnds
<1> QED
  BY <1>2, <1>3 DEF MarkReady

(* The deferred part: whatever of it fails, the document no longer answers  *)
(* queries.                                                                 *)
LEMMA Failed ==
  ASSUME Typed, IngestInv, NEW w \in Ingesters, NEW f \in Files, NEW t \in Tasks,
         NEW at, FailStep(w, at, f, t), SpendFault \/ UNCHANGED spent,
         Inside(task[w].pc), t.pc \in Failing, t.doc = task[w].doc,
         f.status \in Processing \cup {"failed"}, f.image => f.keys /\ t.keys
  PROVE  Typed' /\ IngestInv'
<1>1. TaskInv(t, f) /\ Inside(t.pc)
  BY DEF TaskInv, Inside, TaskPcs, Failing, Bare, Writing
<1> QED
  BY <1>1, Done

LEMMA FailingKeeps ==
  ASSUME Typed, IngestInv, NEW w \in Ingesters,
         MarkFailed(w) \/ DropVectors(w) \/ DropRows(w) \/ DropImages(w)
  PROVE  Typed' /\ IngestInv'
<1>0. Inside(task[w].pc)
  BY DEF MarkFailed, DropVectors, DropRows, DropImages, FailStep, Working, Inside, TaskPcs
<1>1. /\ DocOf(w) \in Files /\ task[w] \in Tasks
      /\ DocOf(w).image => DocOf(w).keys /\ task[w].keys
      /\ DocOf(w).status \in Processing \cup {"failed"}
  BY <1>0, Found DEF TaskInv
<1>2. ASSUME NEW pc \in Failing
      PROVE  /\ At(w, pc) \in Tasks /\ At(w, pc).pc = pc /\ At(w, pc).doc = task[w].doc
             /\ At(w, pc).keys = task[w].keys
  BY AtFacts DEF TaskPcs, Failing
<1>3. /\ "dropVectors" \in Failing /\ "dropRows" \in Failing
      /\ "dropImages" \in Failing /\ "record" \in Failing
  BY DEF Failing
<1>4. ASSUME NEW at, NEW pc \in Failing, FailStep(w, at, DocOf(w), At(w, pc)),
             SpendFault \/ UNCHANGED spent
      PROVE  Typed' /\ IngestInv'
  BY <1>0, <1>1, <1>2, <1>4, Failed
<1>5. CASE MarkFailed(w)
  <2> DEFINE f == [DocOf(w) EXCEPT !.status = "failed"]
  <2>1. /\ f \in Files /\ f.status = "failed" /\ f.image = DocOf(w).image
        /\ f.keys = DocOf(w).keys
    BY <1>1 DEF Files, Statuses, EndStates
  <2>2. \/ FailStep(w, "failed", f, At(w, "dropVectors"))
        \/ FailStep(w, "failed", DocOf(w), At(w, "dropVectors"))
    BY <1>5 DEF MarkFailed
  <2>3. SpendFault \/ UNCHANGED spent
    BY <1>5 DEF MarkFailed
  <2> HIDE DEF f
  <2> QED
    BY <1>0, <1>1, <1>2, <1>3, <1>4, <2>1, <2>2, <2>3, Failed
<1>6. CASE DropVectors(w)
  <2> DEFINE f == [DocOf(w) EXCEPT !.vectors = {}]
  <2>1. /\ f \in Files /\ f.status = DocOf(w).status /\ f.image = DocOf(w).image
        /\ f.keys = DocOf(w).keys
    BY <1>1 DEF Files
  <2>2. \/ FailStep(w, "dropVectors", f, At(w, "dropRows"))
        \/ FailStep(w, "dropVectors", DocOf(w), At(w, "dropRows"))
    BY <1>6 DEF DropVectors
  <2>3. SpendFault \/ UNCHANGED spent
    BY <1>6 DEF DropVectors
  <2> HIDE DEF f
  <2> QED
    BY <1>0, <1>1, <1>2, <1>3, <1>4, <2>1, <2>2, <2>3, Failed
<1>7. CASE DropRows(w)
  <2> DEFINE f == [DocOf(w) EXCEPT !.rows = {}]
  <2>1. /\ f \in Files /\ f.status = DocOf(w).status /\ f.image = DocOf(w).image
        /\ f.keys = DocOf(w).keys
    BY <1>1 DEF Files
  <2>2. \/ FailStep(w, "dropRows", f, At(w, "dropImages"))
        \/ FailStep(w, "dropRows", DocOf(w), At(w, "dropImages"))
    BY <1>7 DEF DropRows
  <2>3. SpendFault \/ UNCHANGED spent
    BY <1>7 DEF DropRows
  <2> HIDE DEF f
  <2> QED
    BY <1>0, <1>1, <1>2, <1>3, <1>4, <2>1, <2>2, <2>3, Failed
<1>8. CASE DropImages(w)
  <2> DEFINE image == DocOf(w).image /\ ~task[w].keys
             f == [DocOf(w) EXCEPT !.image = image]
             t == [At(w, "record") EXCEPT !.keys = FALSE]
  <2>1. \/ FailStep(w, "dropImages", f, t)
        \/ FailStep(w, "dropImages", DocOf(w), At(w, "record"))
    BY <1>8 DEF DropImages
  <2>2. SpendFault \/ UNCHANGED spent
    BY <1>8 DEF DropImages
  <2>3. image = FALSE
    BY <1>1
  <2>4. t \in Tasks /\ t.pc = "record" /\ t.doc = task[w].doc
    <3>1. /\ At(w, "record") \in Tasks /\ At(w, "record").pc = "record"
          /\ At(w, "record").doc = task[w].doc
      BY <1>2, <1>3
    <3> QED
      BY <3>1 DEF Tasks
  <2> HIDE DEF image
  <2>5. f \in Files /\ f.status = DocOf(w).status /\ ~f.image
    BY <1>1, <2>3 DEF Files
  <2> HIDE DEF f, t
  <2> QED
    BY <1>0, <1>1, <1>3, <1>4, <2>1, <2>2, <2>4, <2>5, Failed
<1> QED
  BY <1>5, <1>6, <1>7, <1>8

LEMMA RecordFailureKeeps ==
  ASSUME Typed, IngestInv, NEW w \in Ingesters, RecordFailure(w)
  PROVE  Typed' /\ IngestInv'
<1>0. Inside(task[w].pc)
  BY DEF RecordFailure, Working, Inside, TaskPcs
<1>1. /\ DocOf(w) \in Files /\ task[w] \in Tasks /\ FileInv(DocOf(w))
      /\ DocOf(w).image => DocOf(w).keys /\ task[w].keys
      /\ DocOf(w) = file[task[w].doc] /\ task[w].doc \in Documents
  BY <1>0, Found, WorkerFacts DEF DocOf
<1> DEFINE f == [DocOf(w) EXCEPT !.status = "failed", !.keys = task[w].keys]
<1>2. /\ \/ file' = [file EXCEPT ![task[w].doc] = f]
         \/ file' = [file EXCEPT ![task[w].doc] = DocOf(w)]
      /\ SpendFault \/ UNCHANGED spent
      /\ TaskEnds(w) /\ UNCHANGED <<base, uploaded, request>>
  BY <1>1 DEF RecordFailure, DocOf, Typed
<1>3. task[w].keys \in BOOLEAN
  BY <1>1 DEF Tasks
<1>4. /\ f \in Files /\ f.status = "failed" /\ f.image = DocOf(w).image
      /\ f.keys = task[w].keys
  BY <1>1, <1>3 DEF Files, Statuses, EndStates
<1> HIDE DEF f
<1>5. FileInv(f)
  BY <1>1, <1>4 DEF FileInv
<1>6. uploaded' \in [Documents -> Nat]
  BY <1>2 DEF Typed
<1> QED
  BY <1>0, <1>1, <1>2, <1>4, <1>5, <1>6, WorkerEnds

LEMMA RunStartsKeeps ==
  ASSUME Typed, IngestInv, NEW w \in Ingesters, RunStarts(w)
  PROVE  Typed' /\ IngestInv'
<1> DEFINE d == task[w].doc
           t == [task[w] EXCEPT !.pc = IF base = "active" THEN "clear" ELSE "failed",
                                !.keys = file[d].keys]
<1>1. /\ d \in Documents /\ task[w] \in Tasks /\ file[d] \in Files /\ FileInv(file[d])
  BY WorkerFacts DEF DocOf
<1>2. /\ task[w].pc = "lock" /\ holding[d] = {} /\ file[d].status \in Processing
      /\ task' = [task EXCEPT ![w] = t] /\ holding' = [holding EXCEPT ![d] = {w}]
      /\ UNCHANGED <<base, file, uploaded, request, spent>>
  BY DEF RunStarts, Working, LockFree, Locked, Typed
<1>3. Alone(w, d) /\ HasRow(d) /\ ~Inside(task[w].pc)
  BY <1>1, <1>2, AloneThere DEF HasRow, Inside
<1>4. /\ t \in Tasks /\ t.pc \in {"clear", "failed"} /\ t.doc = d /\ t.keys = file[d].keys
  BY <1>1 DEF Tasks, TaskPcs, Files
<1> HIDE DEF t
<1>5. TaskInv(t, file[d]) /\ {w} \in SUBSET {w}
  BY <1>1, <1>2, <1>4 DEF TaskInv, FileInv, Bare, Writing
<1>6. /\ file' = [file EXCEPT ![d] = file[d]] /\ uploaded' \in [Documents -> Nat]
      /\ spent' \in [faults: 0 .. MaxIngestFaults, requests: 0 .. MaxRequests]
  BY <1>2 DEF Typed
<1> HIDE DEF d
<1> QED
  BY <1>1, <1>2, <1>3, <1>4, <1>5, <1>6, WorkerActs

(* Before the lock, after the task, and when a claim is lost. *)
LEMMA AroundKeeps ==
  ASSUME Typed, IngestInv, NEW w \in Ingesters,
         \/ \E d \in Documents : TakeEvent(w, d)
         \/ RunNothing(w) \/ RunAbandoned(w) \/ Revoke(w) \/ WorkerDies(w)
  PROVE  Typed' /\ IngestInv'
<1>1. /\ task[w] \in Tasks /\ task[w].doc \in Documents
  BY WorkerFacts
<1>2. UNCHANGED <<base, file, request>>
  BY DEF TakeEvent, RunNothing, RunAbandoned, Revoke, WorkerDies
<1>3. spent' \in [faults: 0 .. MaxIngestFaults, requests: 0 .. MaxRequests]
  BY Spent DEF TakeEvent, RunNothing, RunAbandoned, Revoke, WorkerDies
<1>4. NoTask \in Tasks /\ ~Inside(NoTask.pc)
  BY Rests DEF Inside
<1>5. ASSUME NEW d \in Documents, TakeEvent(w, d)
      PROVE  Typed' /\ IngestInv'
  <2> DEFINE t == [NoTask EXCEPT !.pc = "lock", !.doc = d]
  <2>1. t \in Tasks /\ t.pc = "lock"
    BY <1>4 DEF Tasks, TaskPcs
  <2>2. /\ uploaded[d] \in Nat /\ uploaded[d] > 0 /\ task[w].pc = "idle" /\ UNCHANGED holding
        /\ \/ task' = [task EXCEPT ![w] = t] /\ UNCHANGED uploaded
           \/ UNCHANGED task /\ uploaded' = [uploaded EXCEPT ![d] = @ - 1]
    BY <1>5 DEF TakeEvent, Working, Typed
  <2> HIDE DEF t
  <2>3. uploaded' \in [Documents -> Nat]
    BY <2>2 DEF Typed
  <2>4. CASE task' = [task EXCEPT ![w] = t]
    BY <1>2, <1>3, <2>1, <2>2, <2>3, <2>4, WorkerApart DEF Inside
  <2>5. CASE UNCHANGED task
    <3>1. task' = [task EXCEPT ![w] = task[w]]
      BY <2>5 DEF Typed
    <3>2. ~Inside(task[w].pc)
      BY <2>2 DEF Inside
    <3> QED
      BY <1>1, <1>2, <1>3, <2>2, <2>3, <3>1, <3>2, WorkerApart
  <2> QED
    BY <2>2, <2>4, <2>5
<1>6. CASE RunNothing(w) \/ RunAbandoned(w)
  <2>1. task' = [task EXCEPT ![w] = NoTask] /\ UNCHANGED holding
    BY <1>6 DEF RunNothing, RunAbandoned
  <2>2. uploaded' \in [Documents -> Nat]
    BY <1>6, AcknowledgedTyped DEF RunNothing, RunAbandoned, Typed
  <2> QED
    BY <1>2, <1>3, <1>4, <2>1, <2>2, WorkerApart
<1>7. CASE Revoke(w)
  <2> DEFINE t == [task[w] EXCEPT !.revoked = TRUE]
  <2>1. /\ t \in Tasks /\ t.pc = task[w].pc /\ t.doc = task[w].doc /\ t.keys = task[w].keys
        /\ t.broken = task[w].broken /\ t.attempt = task[w].attempt
    BY <1>1 DEF Tasks
  <2>2. task' = [task EXCEPT ![w] = t] /\ UNCHANGED holding /\ uploaded' \in [Documents -> Nat]
    BY <1>7 DEF Revoke, Typed
  <2> HIDE DEF t
  <2>3. Inside(t.pc) => Inside(task[w].pc) /\ TaskInv(t, file[t.doc])
    BY <2>1, WorkerFacts DEF TaskInv, DocOf
  <2> QED
    BY <1>2, <1>3, <2>1, <2>2, <2>3, WorkerApart
<1>8. CASE WorkerDies(w)
  <2>1. /\ task' = [task EXCEPT ![w] = NoTask] /\ \E d \in Documents : Unlocked(d, w)
        /\ uploaded' \in [Documents -> Nat]
    BY <1>1, <1>8 DEF WorkerDies, TaskEnds, Typed
  <2> QED
    BY <1>2, <1>3, <1>4, <2>1, WorkerApart
<1> QED
  BY <1>5, <1>6, <1>7, <1>8

LEMMA IngestStepKeeps ==
  ASSUME Typed, IngestInv, NEW w \in Ingesters, IngestStep(w)
  PROVE  Typed' /\ IngestInv'
<1>1. CASE \/ \E d \in Documents : TakeEvent(w, d)
           \/ RunNothing(w) \/ RunAbandoned(w) \/ Revoke(w) \/ WorkerDies(w)
  BY <1>1, AroundKeeps
<1>2. CASE RunStarts(w)
  BY <1>2, RunStartsKeeps
<1>3. CASE ClearVectors(w) \/ ClearRows(w) \/ ClearImages(w)
  BY <1>3, ClearVectorsKeeps, ClearRowsKeeps, ClearImagesKeeps
<1>4. CASE Parse(w) \/ PersistKeys(w) \/ StoreImages(w)
  BY <1>4, ParseKeeps, PersistKeysKeeps, StoreImagesKeeps
<1>5. CASE ReplaceChunks(w) \/ CreateParents(w) \/ CreateChildren(w) \/ CountChunks(w)
  BY <1>5, ReplaceChunksKeeps, CreateParentsKeeps, CreateChildrenKeeps, CountChunksKeeps
<1>6. CASE InsertVectors(w) \/ MarkReady(w) \/ RecordFailure(w)
  BY <1>6, InsertVectorsKeeps, MarkReadyKeeps, RecordFailureKeeps
<1>7. CASE MarkFailed(w) \/ DropVectors(w) \/ DropRows(w) \/ DropImages(w)
  BY <1>7, FailingKeeps
<1> QED
  BY <1>1, <1>2, <1>3, <1>4, <1>5, <1>6, <1>7 DEF IngestStep

-----------------------------------------------------------------------------
(* Requests                                                                 *)

LEMMA CallerFacts ==
  ASSUME Typed, IngestInv, NEW c \in Callers
  PROVE  /\ request[c] \in Requests /\ request[c].doc \in Documents
         /\ FileOf(c) \in Files /\ FileInv(FileOf(c)) /\ FileOf(c) = file[request[c].doc]
         /\ request[c].pc \in Deeds =>
               /\ holding[request[c].doc] = {c} /\ RequestInv(request[c].pc, FileOf(c))
               /\ Alone(c, request[c].doc)
         /\ base = "gone" => FileOf(c).status \notin Processing \cup EndStates
<1>1. request[c] \in Requests /\ request[c].doc \in Documents
  BY DEF Typed, Requests
<1>2. FileOf(c) \in Files /\ FileInv(FileOf(c)) /\ FileOf(c) = file[request[c].doc]
  BY <1>1 DEF FileOf, Typed, IngestInv, FilesInv
<1>3. ASSUME request[c].pc \in Deeds
      PROVE  /\ holding[request[c].doc] = {c} /\ RequestInv(request[c].pc, FileOf(c))
             /\ Alone(c, request[c].doc)
  <2>1. holding[request[c].doc] = {c} /\ RequestInv(request[c].pc, FileOf(c))
    BY <1>3 DEF IngestInv, CallersInv, FileOf
  <2> QED
    BY <1>1, <2>1, AloneThere
<1>4. base = "gone" => FileOf(c).status \notin Processing \cup EndStates
  BY <1>1, <1>2 DEF IngestInv, BaseInv, HasRow
<1> QED
  BY <1>1, <1>2, <1>3, <1>4

(* A request goes to another place and keeps its document. *)
LEMMA GoesFacts ==
  ASSUME Typed, NEW c \in Callers, NEW pc \in RequestPcs
  PROVE  LET r == [request[c] EXCEPT !.pc = pc]
         IN r \in Requests /\ r.pc = pc /\ r.doc = request[c].doc
  BY DEF Typed, Requests

(* One statement of a request under the lock. *)
LEMMA Puts ==
  ASSUME Typed, IngestInv, NEW c \in Callers, NEW f \in Files, NEW pc \in Deeds,
         PutsRow(c, f, pc), request[c].pc \in Deeds, FileInv(f), RequestInv(pc, f),
         base = "gone" => f.status \notin Processing \cup EndStates
  PROVE  Typed' /\ IngestInv'
<1> DEFINE d == request[c].doc
           r == [request[c] EXCEPT !.pc = pc]
<1>1. /\ file' = [file EXCEPT ![d] = f] /\ request' = [request EXCEPT ![c] = r]
      /\ UNCHANGED <<base, holding, uploaded, task, spent>>
  BY DEF PutsRow, Typed
<1>2. d \in Documents /\ holding[d] = {c} /\ Alone(c, d)
  BY CallerFacts
<1>3. holding' = [holding EXCEPT ![d] = {c}] /\ {c} \in SUBSET {c}
  BY <1>1, <1>2 DEF Typed
<1>4. r \in Requests /\ r.pc = pc /\ r.doc = d
  <2>1. pc \in RequestPcs
    BY DEF Deeds, RequestPcs
  <2> QED
    BY <2>1, GoesFacts
<1>5. /\ uploaded' \in [Documents -> Nat]
      /\ spent' \in [faults: 0 .. MaxIngestFaults, requests: 0 .. MaxRequests]
  BY <1>1 DEF Typed
<1>6. request[c].doc = d
  OBVIOUS
<1> HIDE DEF d, r
<1> QED
  BY <1>1, <1>2, <1>3, <1>4, <1>5, <1>6, CallerActs

(* The last statement of a request, which ends. *)
LEMMA PutsLast ==
  ASSUME Typed, IngestInv, NEW c \in Callers, NEW f \in Files,
         NEW r \in Requests, r.pc \notin Deeds,
         request' = [request EXCEPT ![c] = r], Unlocked(request[c].doc, c),
         file' = [file EXCEPT ![request[c].doc] = f], UNCHANGED <<base, task>>,
         uploaded' \in [Documents -> Nat], SpendFault \/ UNCHANGED spent,
         request[c].pc \in Deeds, FileInv(f),
         base = "gone" => f.status \notin Processing \cup EndStates
  PROVE  Typed' /\ IngestInv'
<1> DEFINE d == request[c].doc
<1>1. d \in Documents /\ holding[d] = {c} /\ Alone(c, d)
  BY CallerFacts
<1>2. holding' = [holding EXCEPT ![d] = {}] /\ {} \in SUBSET {c}
  BY <1>1 DEF Unlocked, Typed
<1>3. spent' \in [faults: 0 .. MaxIngestFaults, requests: 0 .. MaxRequests]
  BY Spent
<1>4. request[c].doc = d /\ file' = [file EXCEPT ![d] = f]
  OBVIOUS
<1> HIDE DEF d
<1> QED
  BY <1>1, <1>2, <1>3, <1>4, CallerActs

(* A request ends without writing anything. *)
LEMMA EndsKeeps ==
  ASSUME Typed, IngestInv, NEW c \in Callers, RequestEnds(c), UNCHANGED <<base, file, task>>,
         uploaded' \in [Documents -> Nat], SpendFault \/ UNCHANGED spent
  PROVE  Typed' /\ IngestInv'
<1>1. /\ request' = [request EXCEPT ![c] = NoRequest]
      /\ \E d \in Documents : Unlocked(d, c)
  BY CallerFacts DEF RequestEnds
<1>2. NoRequest \in Requests /\ NoRequest.pc \notin Deeds
  BY Rests DEF Deeds
<1>3. BaseInv' /\ base' \in {"active", "inactive", "deleting", "gone"}
  BY DEF IngestInv, BaseInv, HasRow, Typed
<1>4. spent' \in [faults: 0 .. MaxIngestFaults, requests: 0 .. MaxRequests]
  BY Spent
<1> QED
  BY <1>1, <1>2, <1>3, <1>4, CallerApart

LEMMA ErrsKeeps ==
  ASSUME Typed, IngestInv, NEW c \in Callers, Errs(c), UNCHANGED file
  PROVE  Typed' /\ IngestInv'
<1>1. uploaded' \in [Documents -> Nat]
  BY DEF Errs, Typed
<1> QED
  BY <1>1, EndsKeeps DEF Errs

(* A request goes on to a place outside the locks, or stays inside with the *)
(* document as it is.                                                       *)
LEMMA GoesKeeps ==
  ASSUME Typed, IngestInv, NEW c \in Callers, NEW r \in Requests,
         request' = [request EXCEPT ![c] = r], UNCHANGED <<file, task, holding>>,
         base' \in {base, "deleting"},
         uploaded' \in [Documents -> Nat],
         spent' \in [faults: 0 .. MaxIngestFaults, requests: 0 .. MaxRequests],
         r.pc \in Deeds => /\ request[c].pc \in Deeds /\ r.doc = request[c].doc
                           /\ RequestInv(r.pc, FileOf(c))
  PROVE  Typed' /\ IngestInv'
<1>1. BaseInv' /\ base' \in {"active", "inactive", "deleting", "gone"}
  BY DEF IngestInv, BaseInv, HasRow, Typed
<1>2. r.pc \in Deeds => RequestInv(r.pc, file[r.doc])
  BY DEF FileOf
<1> QED
  BY <1>1, <1>2, CallerApart

LEMMA UploadKeeps ==
  ASSUME Typed, IngestInv, NEW c \in Callers, NEW d \in Documents, Upload(c, d)
  PROVE  Typed' /\ IngestInv'
<1> DEFINE f == [file[d] EXCEPT !.status = "none"]
           r == [NoRequest EXCEPT !.pc = "put", !.doc = d]
<1>1. /\ file[d].status = "unborn" /\ request[c].pc = "idle"
      /\ spent.requests < MaxRequests /\ spent' = [spent EXCEPT !.requests = @ + 1]
      /\ file' = [file EXCEPT ![d] = f] /\ request' = [request EXCEPT ![c] = r]
      /\ holding' = [holding EXCEPT ![d] = {c}] /\ UNCHANGED <<base, uploaded, task>>
  BY DEF Upload, Locked
<1>2. file[d] \in Files /\ FileInv(file[d])
  BY DEF Typed, IngestInv, FilesInv
<1>3. /\ f \in Files /\ f.status = "none" /\ f.image = file[d].image /\ f.keys = file[d].keys
  BY <1>2 DEF Files, Statuses
<1>4. /\ r \in Requests /\ r.pc = "put" /\ r.doc = d
  BY Rests DEF Requests, RequestPcs
<1> HIDE DEF f, r
<1>5. FileInv(f) /\ RequestInv("put", f)
  BY <1>2, <1>3 DEF FileInv, RequestInv
<1>6. Alone(c, d) /\ request[c].pc \notin Deeds /\ {c} \in SUBSET {c}
  BY <1>1, AloneThere DEF Deeds
<1>7. f.status \notin Processing \cup EndStates
  BY <1>3 DEF Processing, EndStates
<1>8. /\ uploaded' \in [Documents -> Nat]
      /\ spent' \in [faults: 0 .. MaxIngestFaults, requests: 0 .. MaxRequests]
  BY <1>1, Spent DEF Typed
<1> DEFINE h == {c}
<1>9. /\ h \in SUBSET {c} /\ holding' = [holding EXCEPT ![d] = h]
      /\ r.pc \in Deeds => r.doc = d /\ h = {c} /\ RequestInv(r.pc, f)
      /\ request[c].pc \in Deeds => request[c].doc = d
      /\ base = "gone" => f.status \notin Processing \cup EndStates
      /\ UNCHANGED <<base, task>>
  BY <1>1, <1>4, <1>5, <1>6, <1>7
<1>10. file' = [file EXCEPT ![d] = f] /\ request' = [request EXCEPT ![c] = r]
  BY <1>1
<1> HIDE DEF h
<1> QED
  BY <1>3, <1>4, <1>5, <1>6, <1>8, <1>9, <1>10, CallerActs

LEMMA PutOriginalKeeps ==
  ASSUME Typed, IngestInv, NEW c \in Callers, PutOriginal(c)
  PROVE  Typed' /\ IngestInv'
<1> DEFINE f(x) == [FileOf(c) EXCEPT !.original = x]
<1>1. /\ request[c].pc = "put" /\ "put" \in Deeds /\ "create" \in Deeds
  BY DEF PutOriginal, Answering, Deeds
<1>2. FileOf(c) \in Files /\ FileInv(FileOf(c)) /\ FileOf(c).status = "none"
  BY <1>1, CallerFacts DEF RequestInv
<1>3. \/ PutsRow(c, f(TRUE), "create")
      \/ \E x \in BOOLEAN : file' = [file EXCEPT ![request[c].doc] = f(x)] /\ Errs(c)
  BY DEF PutOriginal, FileOf
<1>4. ASSUME NEW x \in BOOLEAN
      PROVE  /\ f(x) \in Files /\ f(x).status = "none" /\ f(x).image = FileOf(c).image
             /\ f(x).keys = FileOf(c).keys
  BY <1>2 DEF Files
<1> HIDE DEF f
<1>5. ASSUME NEW x \in BOOLEAN
      PROVE  /\ FileInv(f(x)) /\ RequestInv("create", f(x))
             /\ f(x).status \notin Processing \cup EndStates
  BY <1>2, <1>4 DEF FileInv, RequestInv, Processing, EndStates
<1>6. CASE PutsRow(c, f(TRUE), "create")
  BY <1>1, <1>4, <1>5, <1>6, Puts
<1>7. ASSUME NEW x \in BOOLEAN, file' = [file EXCEPT ![request[c].doc] = f(x)], Errs(c)
      PROVE  Typed' /\ IngestInv'
  <2>1. /\ request' = [request EXCEPT ![c] = NoRequest] /\ Unlocked(request[c].doc, c)
        /\ SpendFault /\ UNCHANGED <<base, task>> /\ uploaded' \in [Documents -> Nat]
    BY <1>7 DEF Errs, RequestEnds, Typed
  <2>2. NoRequest \in Requests /\ NoRequest.pc \notin Deeds
    BY Rests DEF Deeds
  <2> QED
    BY <1>1, <1>4, <1>5, <1>7, <2>1, <2>2, PutsLast
<1> QED
  BY <1>3, <1>6, <1>7

LEMMA CreateDocumentKeeps ==
  ASSUME Typed, IngestInv, NEW c \in Callers, CreateDocument(c)
  PROVE  Typed' /\ IngestInv'
<1> DEFINE f == [FileOf(c) EXCEPT !.status = "pending"]
           r == [request[c] EXCEPT !.pc = "unput"]
<1>1. /\ request[c].pc = "create" /\ "create" \in Deeds /\ "send" \in Deeds
      /\ "unput" \in Deeds
  BY DEF CreateDocument, Answering, Deeds
<1>2. /\ FileOf(c) \in Files /\ FileInv(FileOf(c)) /\ FileOf(c).status = "none"
      /\ RequestInv("unput", FileOf(c))
  BY <1>1, CallerFacts DEF RequestInv
<1>3. CASE base = "active" /\ PutsRow(c, f, "send")
  <2>1. /\ f \in Files /\ f.status = "pending" /\ f.image = FileOf(c).image
        /\ f.keys = FileOf(c).keys
    BY <1>2 DEF Files, Statuses, Processing
  <2> HIDE DEF f
  <2>2. FileInv(f) /\ RequestInv("send", f)
    BY <1>2, <2>1 DEF FileInv, RequestInv
  <2> QED
    BY <1>1, <1>3, <2>1, <2>2, Puts
<1>4. CASE PutsRow(c, FileOf(c), "unput")
  BY <1>1, <1>2, <1>4, CallerFacts, Puts
<1>5. CASE /\ SpendFault /\ request' = [request EXCEPT ![c] = r]
           /\ UNCHANGED <<base, file, holding, uploaded, task>>
  <2>1. r \in Requests /\ r.pc = "unput" /\ r.doc = request[c].doc
    BY GoesFacts DEF RequestPcs
  <2>2. /\ uploaded' \in [Documents -> Nat]
        /\ spent' \in [faults: 0 .. MaxIngestFaults, requests: 0 .. MaxRequests]
    BY <1>5, Spent DEF Typed
  <2> HIDE DEF r
  <2> QED
    BY <1>1, <1>2, <1>5, <2>1, <2>2, GoesKeeps
<1> QED
  BY <1>3, <1>4, <1>5 DEF CreateDocument

LEMMA RemoveUploadKeeps ==
  ASSUME Typed, IngestInv, NEW c \in Callers, RemoveUpload(c)
  PROVE  Typed' /\ IngestInv'
<1> DEFINE f == [FileOf(c) EXCEPT !.original = FALSE]
<1>1. request[c].pc = "unput" /\ "unput" \in Deeds
  BY DEF RemoveUpload, Answering, Deeds
<1>2. FileOf(c) \in Files /\ FileInv(FileOf(c)) /\ FileOf(c).status = "none"
  BY <1>1, CallerFacts DEF RequestInv
<1>3. \/ /\ file' = [file EXCEPT ![request[c].doc] = f]
         /\ RequestEnds(c) /\ UNCHANGED <<base, uploaded, task, spent>>
      \/ Errs(c) /\ UNCHANGED file
  BY DEF RemoveUpload, FileOf
<1>4. /\ f \in Files /\ f.status = "none" /\ f.image = FileOf(c).image
      /\ f.keys = FileOf(c).keys
  BY <1>2 DEF Files
<1> HIDE DEF f
<1>5. FileInv(f) /\ f.status \notin Processing \cup EndStates
  BY <1>2, <1>4 DEF FileInv, Processing, EndStates
<1>6. CASE /\ file' = [file EXCEPT ![request[c].doc] = f]
           /\ RequestEnds(c) /\ UNCHANGED <<base, uploaded, task, spent>>
  <2>1. /\ request' = [request EXCEPT ![c] = NoRequest] /\ Unlocked(request[c].doc, c)
        /\ uploaded' \in [Documents -> Nat]
    BY <1>6 DEF RequestEnds, Typed
  <2>2. NoRequest \in Requests /\ NoRequest.pc \notin Deeds
    BY Rests DEF Deeds
  <2> QED
    BY <1>1, <1>4, <1>5, <1>6, <2>1, <2>2, PutsLast
<1>7. CASE Errs(c) /\ UNCHANGED file
  BY <1>7, ErrsKeeps
<1> QED
  BY <1>3, <1>6, <1>7

LEMMA SendEventKeeps ==
  ASSUME Typed, IngestInv, NEW c \in Callers, SendEvent(c)
  PROVE  Typed' /\ IngestInv'
<1> DEFINE r == [request[c] EXCEPT !.pc = "unsend"]
<1>1. request[c].pc = "send" /\ "send" \in Deeds
  BY DEF SendEvent, Answering, Deeds
<1>2. FileOf(c) \in Files /\ RequestInv("unsend", FileOf(c)) /\ request[c].doc \in Documents
  BY <1>1, CallerFacts DEF RequestInv
<1>3. uploaded' \in [Documents -> Nat]
  BY <1>2 DEF SendEvent, Typed
<1>4. CASE RequestEnds(c) /\ UNCHANGED <<base, file, task, spent>>
  BY <1>3, <1>4, EndsKeeps
<1>5. CASE /\ SpendFault /\ request' = [request EXCEPT ![c] = r]
           /\ UNCHANGED <<base, file, holding, task>>
  <2>1. r \in Requests /\ r.pc = "unsend" /\ r.doc = request[c].doc
    BY GoesFacts DEF RequestPcs
  <2>2. spent' \in [faults: 0 .. MaxIngestFaults, requests: 0 .. MaxRequests]
    BY <1>5, Spent
  <2> HIDE DEF r
  <2> QED
    BY <1>1, <1>2, <1>3, <1>5, <2>1, <2>2, GoesKeeps
<1> QED
  BY <1>4, <1>5 DEF SendEvent

(* A row becomes "failed" under the lock. *)
LEMMA FailedFacts ==
  ASSUME Typed, IngestInv, NEW c \in Callers
  PROVE  LET f == [FileOf(c) EXCEPT !.status = "failed"]
         IN /\ f \in Files /\ f.status = "failed" /\ FileInv(f)
            /\ f.rows = FileOf(c).rows
<1> DEFINE f == [FileOf(c) EXCEPT !.status = "failed"]
<1>1. FileOf(c) \in Files /\ FileInv(FileOf(c))
  BY CallerFacts
<1>2. /\ f \in Files /\ f.status = "failed" /\ f.image = FileOf(c).image
      /\ f.keys = FileOf(c).keys /\ f.rows = FileOf(c).rows
  BY <1>1 DEF Files, Statuses, EndStates
<1> HIDE DEF f
<1>3. FileInv(f)
  BY <1>1, <1>2 DEF FileInv
<1> QED
  BY <1>2, <1>3 DEF f

LEMMA MarkUnsentKeeps ==
  ASSUME Typed, IngestInv, NEW c \in Callers, MarkUnsent(c)
  PROVE  Typed' /\ IngestInv'
<1> DEFINE f == [FileOf(c) EXCEPT !.status = "failed"]
<1>1. request[c].pc = "unsend" /\ "unsend" \in Deeds
  BY DEF MarkUnsent, Answering, Deeds
<1>2. FileOf(c).status = "pending" /\ base # "gone"
  BY <1>1, CallerFacts DEF RequestInv, Processing
<1>3. f \in Files /\ FileInv(f)
  BY FailedFacts
<1>4. \/ /\ file' = [file EXCEPT ![request[c].doc] = f]
         /\ RequestEnds(c) /\ UNCHANGED <<base, uploaded, task, spent>>
      \/ Errs(c) /\ UNCHANGED file
  BY DEF MarkUnsent, FileOf
<1> HIDE DEF f
<1>5. CASE /\ file' = [file EXCEPT ![request[c].doc] = f]
           /\ RequestEnds(c) /\ UNCHANGED <<base, uploaded, task, spent>>
  <2>1. /\ request' = [request EXCEPT ![c] = NoRequest] /\ Unlocked(request[c].doc, c)
        /\ uploaded' \in [Documents -> Nat]
    BY <1>5 DEF RequestEnds, Typed
  <2>2. NoRequest \in Requests /\ NoRequest.pc \notin Deeds
    BY Rests DEF Deeds
  <2> QED
    BY <1>1, <1>2, <1>3, <1>5, <2>1, <2>2, PutsLast
<1>6. CASE Errs(c) /\ UNCHANGED file
  BY <1>6, ErrsKeeps
<1> QED
  BY <1>4, <1>5, <1>6

(* The lock is taken, or the request ends or goes elsewhere without it. *)
LEMMA LockTaken ==
  ASSUME Typed, IngestInv, NEW c \in Callers, NEW pc \in Deeds,
         holding[request[c].doc] = {}, Locked(request[c].doc, c), request[c].pc \notin Deeds,
         request' = [request EXCEPT ![c].pc = pc], RequestInv(pc, FileOf(c)),
         UNCHANGED <<base, file, uploaded, task, spent>>
  PROVE  Typed' /\ IngestInv'
<1> DEFINE d == request[c].doc
           f == FileOf(c)
           r == [request[c] EXCEPT !.pc = pc]
           h == {c}
<1>1. /\ d \in Documents /\ f \in Files /\ FileInv(f) /\ f = file[d]
      /\ base = "gone" => f.status \notin Processing \cup EndStates
  BY CallerFacts
<1>2. Alone(c, d)
  BY <1>1, AloneThere
<1>3. /\ file' = [file EXCEPT ![d] = f] /\ request' = [request EXCEPT ![c] = r]
      /\ holding' = [holding EXCEPT ![d] = h]
  BY <1>1 DEF Locked, Typed
<1>4. r \in Requests /\ r.pc = pc /\ r.doc = d
  <2>1. pc \in RequestPcs
    BY DEF Deeds, RequestPcs
  <2> QED
    BY <2>1, GoesFacts
<1>5. /\ uploaded' \in [Documents -> Nat] /\ h \in SUBSET {c}
      /\ spent' \in [faults: 0 .. MaxIngestFaults, requests: 0 .. MaxRequests]
  BY DEF Typed
<1>6. r.pc \in Deeds => r.doc = d /\ h = {c} /\ RequestInv(r.pc, f)
  BY <1>4
<1> HIDE DEF d, f, r, h
<1> QED
  BY <1>1, <1>2, <1>3, <1>4, <1>5, <1>6, CallerActs

LEMMA UnderLockKeeps ==
  ASSUME Typed, IngestInv, NEW c \in Callers, RetryLocked(c) \/ DeleteLocked(c)
  PROVE  Typed' /\ IngestInv'
<1> DEFINE d == request[c].doc
<1>1. /\ holding[d] = {} /\ request[c].pc \notin Deeds
      /\ UNCHANGED <<base, file, uploaded, task, spent>>
      /\ \/ Locked(d, c) /\ Retryable(d) /\ request' = [request EXCEPT ![c].pc = "reset"]
         \/ Locked(d, c) /\ Deletable(d) /\ request' = [request EXCEPT ![c].pc = "invalidate"]
         \/ RequestEnds(c)
  BY DEF RetryLocked, DeleteLocked, UnderLock, Answering, LockFree, Deeds
<1>2. /\ Retryable(d) => RequestInv("reset", FileOf(c))
      /\ Deletable(d) => RequestInv("invalidate", FileOf(c))
  BY CallerFacts DEF Retryable, Deletable, RequestInv
<1>3. CASE Locked(d, c) /\ Retryable(d) /\ request' = [request EXCEPT ![c].pc = "reset"]
  <2>1. "reset" \in Deeds
    BY DEF Deeds
  <2> QED
    BY <1>1, <1>2, <1>3, <2>1, LockTaken
<1>4. CASE Locked(d, c) /\ Deletable(d) /\ request' = [request EXCEPT ![c].pc = "invalidate"]
  <2>1. "invalidate" \in Deeds
    BY DEF Deeds
  <2> QED
    BY <1>1, <1>2, <1>4, <2>1, LockTaken
<1>5. CASE RequestEnds(c)
  <2>1. uploaded' \in [Documents -> Nat]
    BY <1>1 DEF Typed
  <2> QED
    BY <1>1, <1>5, <2>1, EndsKeeps
<1> QED
  BY <1>1, <1>3, <1>4, <1>5

LEMMA ResetDocumentKeeps ==
  ASSUME Typed, IngestInv, NEW c \in Callers, ResetDocument(c)
  PROVE  Typed' /\ IngestInv'
<1> DEFINE f == [FileOf(c) EXCEPT !.status = "pending"]
<1>1. request[c].pc = "reset" /\ "reset" \in Deeds /\ "send" \in Deeds
  BY DEF ResetDocument, Answering, Deeds
<1>2. FileOf(c) \in Files /\ FileInv(FileOf(c)) /\ base # "gone"
  BY <1>1, CallerFacts DEF RequestInv, EndStates
<1>3. /\ f \in Files /\ f.status = "pending" /\ f.image = FileOf(c).image
      /\ f.keys = FileOf(c).keys
  BY <1>2 DEF Files, Statuses, Processing
<1>4. PutsRow(c, f, "send") \/ (Errs(c) /\ UNCHANGED file)
  BY DEF ResetDocument
<1> HIDE DEF f
<1>5. FileInv(f) /\ RequestInv("send", f)
  BY <1>2, <1>3 DEF FileInv, RequestInv
<1>6. CASE PutsRow(c, f, "send")
  BY <1>1, <1>2, <1>3, <1>5, <1>6, Puts
<1>7. CASE Errs(c) /\ UNCHANGED file
  BY <1>7, ErrsKeeps
<1> QED
  BY <1>4, <1>6, <1>7

(* Requests that ask, look around or drop the base; a process that dies.    *)
LEMMA AskForKeeps ==
  ASSUME Typed, IngestInv, NEW c \in Callers, NEW d \in Documents,
         Retry(c, d) \/ DeleteDocument(c, d)
  PROVE  Typed' /\ IngestInv'
<1>1. PICK pc \in {"retry", "delete"} : AskFor(c, d, pc)
  BY DEF Retry, DeleteDocument
<1> DEFINE r == [NoRequest EXCEPT !.pc = pc, !.doc = d]
<1>2. /\ request' = [request EXCEPT ![c] = r] /\ UNCHANGED <<base, file, holding, uploaded, task>>
      /\ spent.requests < MaxRequests /\ spent' = [spent EXCEPT !.requests = @ + 1]
  BY <1>1 DEF AskFor
<1>3. r \in Requests /\ r.pc = pc
  BY Rests DEF Requests, RequestPcs
<1>4. /\ uploaded' \in [Documents -> Nat] /\ pc \notin Deeds
      /\ spent' \in [faults: 0 .. MaxIngestFaults, requests: 0 .. MaxRequests]
  BY <1>2, Spent DEF Typed, Deeds
<1> HIDE DEF r
<1> QED
  BY <1>2, <1>3, <1>4, GoesKeeps

LEMMA DeleteBaseKeeps ==
  ASSUME Typed, IngestInv, NEW c \in Callers, DeleteBase(c)
  PROVE  Typed' /\ IngestInv'
<1> DEFINE r == [NoRequest EXCEPT !.pc = "list", !.whole = TRUE]
<1>1. /\ request' = [request EXCEPT ![c] = r] /\ UNCHANGED <<file, holding, uploaded, task>>
      /\ spent.requests < MaxRequests /\ spent' = [spent EXCEPT !.requests = @ + 1]
      /\ base' = "deleting"
  BY DEF DeleteBase
<1>2. r \in Requests /\ r.pc = "list"
  BY Rests DEF Requests, RequestPcs
<1>3. /\ uploaded' \in [Documents -> Nat] /\ "list" \notin Deeds
      /\ spent' \in [faults: 0 .. MaxIngestFaults, requests: 0 .. MaxRequests]
  BY <1>1, Spent DEF Typed, Deeds
<1> HIDE DEF r
<1> QED
  BY <1>1, <1>2, <1>3, GoesKeeps

LEMMA ListDocumentsKeeps ==
  ASSUME Typed, IngestInv, NEW c \in Callers, ListDocuments(c)
  PROVE  Typed' /\ IngestInv'
<1>1. /\ UNCHANGED <<base, file, holding, uploaded, task>>
      /\ SpendFault \/ UNCHANGED spent
  BY DEF ListDocuments
<1>2. PICK r \in Requests : r.pc \notin Deeds /\ request' = [request EXCEPT ![c] = r]
  <2>1. request[c] \in Requests
    BY CallerFacts
  <2>2. CASE request' = [request EXCEPT ![c].pc = "drop"]
    <3>1. [request[c] EXCEPT !.pc = "drop"] \in Requests
          /\ [request[c] EXCEPT !.pc = "drop"].pc \notin Deeds
      BY <2>1 DEF Requests, RequestPcs, Deeds
    <3> QED
      BY <2>2, <3>1
  <2>3. ASSUME NEW d \in Documents,
               request' = [request EXCEPT ![c].pc = "next", ![c].doc = d]
        PROVE  \E r \in Requests : r.pc \notin Deeds /\ request' = [request EXCEPT ![c] = r]
    <3>1. [request[c] EXCEPT !.pc = "next", !.doc = d] \in Requests
          /\ [request[c] EXCEPT !.pc = "next", !.doc = d].pc \notin Deeds
      BY <2>1 DEF Requests, RequestPcs, Deeds
    <3>2. request' = [request EXCEPT ![c] = [request[c] EXCEPT !.pc = "next", !.doc = d]]
      BY <2>3 DEF Typed
    <3> QED
      BY <3>1, <3>2
  <2>4. CASE request' = [request EXCEPT ![c] = NoRequest]
    BY <2>4, Rests DEF Deeds
  <2> QED
    BY <2>2, <2>3, <2>4 DEF ListDocuments
<1>3. /\ uploaded' \in [Documents -> Nat]
      /\ spent' \in [faults: 0 .. MaxIngestFaults, requests: 0 .. MaxRequests]
  BY <1>1, Spent DEF Typed
<1> QED
  BY <1>1, <1>2, <1>3, GoesKeeps

LEMMA NextLockedKeeps ==
  ASSUME Typed, IngestInv, NEW c \in Callers, NextLocked(c)
  PROVE  Typed' /\ IngestInv'
<1> DEFINE d == request[c].doc
<1>1. /\ request[c].pc \notin Deeds /\ holding[d] = {}
      /\ UNCHANGED <<base, file, uploaded, task, spent>>
      /\ "invalidate" \in Deeds /\ "list" \notin Deeds /\ "list" \in RequestPcs
  BY DEF NextLocked, Answering, LockFree, Deeds, RequestPcs
<1>2. CASE HasRow(d) /\ Locked(d, c) /\ request' = [request EXCEPT ![c].pc = "invalidate"]
  <2>1. RequestInv("invalidate", FileOf(c))
    BY <1>2, CallerFacts DEF RequestInv, HasRow
  <2> QED
    BY <1>1, <1>2, <2>1, LockTaken
<1>3. CASE request' = [request EXCEPT ![c].pc = "list"] /\ UNCHANGED holding
  <2> DEFINE r == [request[c] EXCEPT !.pc = "list"]
  <2>1. r \in Requests /\ r.pc = "list"
    BY <1>1, GoesFacts
  <2>2. request' = [request EXCEPT ![c] = r]
    BY <1>3
  <2>3. /\ uploaded' \in [Documents -> Nat]
        /\ spent' \in [faults: 0 .. MaxIngestFaults, requests: 0 .. MaxRequests]
    BY <1>1 DEF Typed
  <2> HIDE DEF r
  <2> QED
    BY <1>1, <1>3, <2>1, <2>2, <2>3, GoesKeeps
<1> QED
  BY <1>2, <1>3 DEF NextLocked

(* The only way to "gone": no document has a row. *)
LEMMA DropBaseKeeps ==
  ASSUME Typed, IngestInv, NEW c \in Callers, DropBase(c)
  PROVE  Typed' /\ IngestInv'
<1>1. /\ request' = [request EXCEPT ![c] = NoRequest] /\ UNCHANGED <<file, holding, uploaded, task>>
      /\ SpendFault \/ UNCHANGED spent
      /\ base' = base \/ (base' = "gone" /\ \A d \in Documents : ~HasRow(d))
  BY DEF DropBase
<1>2. BaseInv' /\ base' \in {"active", "inactive", "deleting", "gone"}
  BY <1>1 DEF IngestInv, BaseInv, HasRow, Typed
<1>3. /\ uploaded' \in [Documents -> Nat] /\ NoRequest \in Requests /\ NoRequest.pc \notin Deeds
      /\ spent' \in [faults: 0 .. MaxIngestFaults, requests: 0 .. MaxRequests]
  BY <1>1, Spent, Rests DEF Typed, Deeds
<1> QED
  BY <1>1, <1>2, <1>3, CallerApart

LEMMA CallerDiesKeeps ==
  ASSUME Typed, IngestInv, NEW c \in Callers, CallerDies(c)
  PROVE  Typed' /\ IngestInv'
<1>1. uploaded' \in [Documents -> Nat]
  BY DEF CallerDies, Typed
<1> QED
  BY <1>1, EndsKeeps DEF CallerDies

(* deleteDocumentData: one store after the other. *)
LEMMA RemovalKeeps ==
  ASSUME Typed, IngestInv, NEW c \in Callers,
         \/ Invalidate(c) \/ RemoveRows(c) \/ RemoveVectors(c) \/ RemoveImages(c)
         \/ RemoveOriginal(c)
  PROVE  Typed' /\ IngestInv'
<1>1. /\ "invalidate" \in Deeds /\ "rows" \in Deeds /\ "vectors" \in Deeds
      /\ "images" \in Deeds /\ "original" \in Deeds /\ "row" \in Deeds
  BY DEF Deeds
<1>2. /\ FileOf(c) \in Files /\ FileInv(FileOf(c))
      /\ request[c].pc \in Deeds => /\ RequestInv(request[c].pc, FileOf(c))
      /\ base = "gone" => FileOf(c).status \notin Processing \cup EndStates
  BY CallerFacts
<1>3. ASSUME NEW at \in Deeds, NEW f \in Files, NEW pc \in Deeds, Removal(c, at, f, pc),
             FileInv(f), RequestInv(pc, f), base # "gone"
      PROVE  Typed' /\ IngestInv'
  <2>1. /\ request[c].pc = at
        /\ PutsRow(c, f, pc) \/ (Errs(c) /\ UNCHANGED file)
    BY <1>3 DEF Removal, Answering
  <2>2. CASE PutsRow(c, f, pc)
    BY <1>3, <2>1, <2>2, Puts
  <2>3. CASE Errs(c) /\ UNCHANGED file
    BY <2>3, ErrsKeeps
  <2> QED
    BY <2>1, <2>2, <2>3
<1>4. CASE Invalidate(c)
  <2> DEFINE f == [FileOf(c) EXCEPT !.status = "failed"]
  <2>1. f \in Files /\ f.status = "failed" /\ FileInv(f)
    BY FailedFacts
  <2>2. Removal(c, "invalidate", f, "rows") /\ request[c].pc = "invalidate"
    BY <1>4 DEF Invalidate, Removal, Answering
  <2>3. base # "gone"
    BY <1>1, <1>2, <2>2 DEF RequestInv
  <2> HIDE DEF f
  <2>4. RequestInv("rows", f)
    BY <2>1 DEF RequestInv
  <2> QED
    BY <1>1, <1>3, <2>1, <2>2, <2>3, <2>4
<1>5. ASSUME request[c].pc \in {"rows", "vectors", "images", "original", "row"}
      PROVE  /\ FileOf(c).status = "failed" /\ base # "gone"
             /\ request[c].pc \in {"vectors", "images", "original", "row"} => FileOf(c).rows = {}
             /\ request[c].pc \in {"images", "original", "row"} => FileOf(c).vectors = {}
             /\ request[c].pc \in {"original", "row"} => ~FileOf(c).image
             /\ FileOf(c).image => FileOf(c).keys
  <2>1. RequestInv(request[c].pc, FileOf(c))
    BY <1>2, <1>5 DEF Deeds
  <2> QED
    BY <1>2, <1>5, <2>1 DEF RequestInv, FileInv, EndStates
<1>6. CASE RemoveRows(c)
  <2> DEFINE f == [FileOf(c) EXCEPT !.rows = {}]
  <2>1. Removal(c, "rows", f, "vectors") /\ request[c].pc = "rows"
    BY <1>6 DEF RemoveRows, Removal, Answering
  <2>2. /\ f \in Files /\ f.status = FileOf(c).status /\ f.image = FileOf(c).image
        /\ f.keys = FileOf(c).keys /\ f.rows = {}
    BY <1>2 DEF Files
  <2> HIDE DEF f
  <2>3. FileInv(f) /\ RequestInv("vectors", f)
    BY <1>5, <2>1, <2>2 DEF FileInv, RequestInv
  <2> QED
    BY <1>1, <1>3, <1>5, <2>1, <2>2, <2>3
<1>7. CASE RemoveVectors(c)
  <2> DEFINE f == [FileOf(c) EXCEPT !.vectors = {}]
  <2>1. Removal(c, "vectors", f, "images") /\ request[c].pc = "vectors"
    BY <1>7 DEF RemoveVectors, Removal, Answering
  <2>2. /\ f \in Files /\ f.status = FileOf(c).status /\ f.image = FileOf(c).image
        /\ f.keys = FileOf(c).keys /\ f.rows = FileOf(c).rows /\ f.vectors = {}
    BY <1>2 DEF Files
  <2> HIDE DEF f
  <2>3. FileInv(f) /\ RequestInv("images", f)
    BY <1>5, <2>1, <2>2 DEF FileInv, RequestInv
  <2> QED
    BY <1>1, <1>3, <1>5, <2>1, <2>2, <2>3
<1>8. CASE RemoveImages(c)
  <2> DEFINE image == FileOf(c).image /\ ~FileOf(c).keys
             f == [FileOf(c) EXCEPT !.image = image]
  <2>1. Removal(c, "images", f, "original") /\ request[c].pc = "images"
    BY <1>8 DEF RemoveImages, Removal, Answering
  <2>2. image = FALSE
    BY <1>5, <2>1
  <2> HIDE DEF image
  <2>3. /\ f \in Files /\ f.status = FileOf(c).status /\ ~f.image
        /\ f.rows = FileOf(c).rows /\ f.vectors = FileOf(c).vectors
    BY <1>2, <2>2 DEF Files
  <2> HIDE DEF f
  <2>4. FileInv(f) /\ RequestInv("original", f)
    BY <1>5, <2>1, <2>3 DEF FileInv, RequestInv
  <2> QED
    BY <1>1, <1>3, <1>5, <2>1, <2>3, <2>4
<1>9. CASE RemoveOriginal(c)
  <2> DEFINE f == [FileOf(c) EXCEPT !.original = FALSE]
  <2>1. Removal(c, "original", f, "row") /\ request[c].pc = "original"
    BY <1>9 DEF RemoveOriginal, Removal, Answering
  <2>2. /\ f \in Files /\ f.status = FileOf(c).status /\ f.image = FileOf(c).image
        /\ f.rows = FileOf(c).rows /\ f.vectors = FileOf(c).vectors /\ ~f.original
    BY <1>2 DEF Files
  <2> HIDE DEF f
  <2>3. FileInv(f) /\ RequestInv("row", f)
    BY <1>5, <2>1, <2>2 DEF FileInv, RequestInv
  <2> QED
    BY <1>1, <1>3, <1>5, <2>1, <2>2, <2>3
<1> QED
  BY <1>4, <1>6, <1>7, <1>8, <1>9

LEMMA RemoveDocumentKeeps ==
  ASSUME Typed, IngestInv, NEW c \in Callers, RemoveDocument(c)
  PROVE  Typed' /\ IngestInv'
<1>1. request[c].pc = "row" /\ "row" \in Deeds
  BY DEF RemoveDocument, Answering, Deeds
<1>2. /\ FileOf(c) \in Files /\ FileOf(c).rows = {} /\ FileOf(c).vectors = {}
      /\ ~FileOf(c).image /\ ~FileOf(c).original /\ request[c] \in Requests
  BY <1>1, CallerFacts DEF RequestInv
<1>3. CASE Errs(c) /\ UNCHANGED file
  BY <1>3, ErrsKeeps
<1>4. CASE ~(Errs(c) /\ UNCHANGED file)
  <2> DEFINE f == [FileOf(c) EXCEPT !.status = "gone", !.rows = {}, !.keys = FALSE]
             q == request[c]
             r == IF q.whole THEN [q EXCEPT !.pc = "list"] ELSE NoRequest
  <2>1. /\ file' = [file EXCEPT ![request[c].doc] = f]
        /\ Unlocked(request[c].doc, c) /\ UNCHANGED <<base, uploaded, task, spent>>
    BY <1>4 DEF RemoveDocument, FileOf
  <2>2. request' = [request EXCEPT ![c] = r]
    BY <1>4 DEF RemoveDocument, Typed
  <2>3. /\ f \in Files /\ f.status = "gone" /\ ~f.image /\ ~f.original
        /\ f.rows = {} /\ f.vectors = {}
    BY <1>2 DEF Files, Statuses
  <2>4. r \in Requests /\ r.pc \notin Deeds
    BY <1>2, Rests DEF Requests, RequestPcs, Deeds
  <2> HIDE DEF f, q, r
  <2>5. FileInv(f) /\ f.status \notin Processing \cup EndStates
    BY <2>3 DEF FileInv, Processing, EndStates
  <2>6. uploaded' \in [Documents -> Nat]
    BY <2>1 DEF Typed
  <2> QED
    BY <1>1, <2>1, <2>2, <2>3, <2>4, <2>5, <2>6, PutsLast
<1> QED
  BY <1>3, <1>4

LEMMA RequestStepKeeps ==
  ASSUME Typed, IngestInv, NEW c \in Callers, RequestStep(c)
  PROVE  Typed' /\ IngestInv'
<1>1. ASSUME NEW d \in Documents, Upload(c, d) \/ Retry(c, d) \/ DeleteDocument(c, d)
      PROVE  Typed' /\ IngestInv'
  BY <1>1, UploadKeeps, AskForKeeps
<1>2. CASE PutOriginal(c) \/ CreateDocument(c) \/ RemoveUpload(c)
  BY <1>2, PutOriginalKeeps, CreateDocumentKeeps, RemoveUploadKeeps
<1>3. CASE SendEvent(c) \/ MarkUnsent(c) \/ ResetDocument(c)
  BY <1>3, SendEventKeeps, MarkUnsentKeeps, ResetDocumentKeeps
<1>4. CASE RetryLocked(c) \/ DeleteLocked(c)
  BY <1>4, UnderLockKeeps
<1>5. CASE DeleteBase(c) \/ ListDocuments(c) \/ NextLocked(c) \/ DropBase(c)
  BY <1>5, DeleteBaseKeeps, ListDocumentsKeeps, NextLockedKeeps, DropBaseKeeps
<1>6. CASE \/ Invalidate(c) \/ RemoveRows(c) \/ RemoveVectors(c) \/ RemoveImages(c)
           \/ RemoveOriginal(c)
  BY <1>6, RemovalKeeps
<1>7. CASE RemoveDocument(c) \/ CallerDies(c)
  BY <1>7, RemoveDocumentKeeps, CallerDiesKeeps
<1> QED
  BY <1>1, <1>2, <1>3, <1>4, <1>5, <1>6, <1>7 DEF RequestStep

-----------------------------------------------------------------------------
(* Theorems                                                                 *)

LEMMA IngestInvInit == IngestInit => Typed /\ IngestInv
<1> SUFFICES ASSUME IngestInit PROVE Typed /\ IngestInv
  OBVIOUS
<1>1. NoFile \in Files /\ FileInv(NoFile) /\ NoFile.status = "unborn"
  BY Bounds DEF NoFile, Files, FileInv, Statuses
<1>2. Typed
  BY <1>1, Bounds, Rests DEF IngestInit, Typed
<1>3. FilesInv /\ BaseInv
  BY <1>1 DEF IngestInit, FilesInv, BaseInv
<1>4. WorkersInv /\ CallersInv
  BY Rests DEF IngestInit, WorkersInv, CallersInv, Inside, Deeds
<1> QED
  BY <1>2, <1>3, <1>4 DEF IngestInv

LEMMA IngestInvStep == Typed /\ IngestInv /\ [IngestNext]_ingestVars => Typed' /\ IngestInv'
<1> SUFFICES ASSUME Typed, IngestInv, [IngestNext]_ingestVars PROVE Typed' /\ IngestInv'
  OBVIOUS
<1>1. ASSUME NEW w \in Ingesters, IngestStep(w) PROVE Typed' /\ IngestInv'
  BY <1>1, IngestStepKeeps
<1>2. ASSUME NEW c \in Callers, RequestStep(c) PROVE Typed' /\ IngestInv'
  BY <1>2, RequestStepKeeps
<1>3. CASE UpdateBase
  <2>1. /\ base' \in {"active", "inactive"}
        /\ UNCHANGED <<file, holding, uploaded, task, request, spent>>
    BY <1>3 DEF UpdateBase
  <2> QED
    BY <2>1 DEF Typed, IngestInv, FilesInv, WorkersInv, CallersInv, BaseInv
<1>4. CASE UNCHANGED ingestVars
  BY <1>4 DEF ingestVars, Typed, IngestInv, FilesInv, WorkersInv, CallersInv, BaseInv, HasRow
<1> QED
  BY <1>1, <1>2, <1>3, <1>4 DEF IngestNext

(* Every document keeps the invariant of whoever is at work on it. *)
THEOREM IngestHolds == IngestSpec => [](Typed /\ IngestInv)
  BY IngestInvInit, IngestInvStep, PTL DEF IngestSpec

(* A document that answers queries has the chunks of one attempt, all of    *)
(* them, and the vectors of exactly these: Run clears what interrupted work *)
(* left before it builds anew, the lock keeps everybody else away until     *)
(* MarkReady, and whoever shrinks a document takes "ready" from it first.   *)
THEOREM AnswersWithOneAttempt == IngestSpec => []ReadyIsExact
<1>1. IngestInv => ReadyIsExact
  BY DEF IngestInv, FilesInv, FileInv, ReadyIsExact
<1> QED
  BY <1>1, IngestHolds, PTL

(* deleteDocumentData empties every store before it drops the row, nothing  *)
(* that was still at work on the document brings something back, and a      *)
(* knowledge base is dropped only when none of its documents is left.       *)
THEOREM DeletionIsComplete == IngestSpec => []DeletedLeavesNothing
<1>1. IngestInv => DeletedLeavesNothing
  BY DEF IngestInv, FilesInv, FileInv, BaseInv, DeletedLeavesNothing
<1> QED
  BY <1>1, IngestHolds, PTL

-----------------------------------------------------------------------------
(* How many events may wait                                                 *)

(* A request sends at most one event, and these have theirs still to send.  *)
Sends == {"put", "create", "send", "retry", "reset"}
SendersIn(asked) == {c \in Callers : asked[c].pc \in Sends}
QueueInv ==
    \A d \in Documents : uploaded[d] + Cardinality(SendersIn(request)) <= spent.requests

LEMMA SendersFinite ==
  ASSUME NEW asked
  PROVE  IsFiniteSet(SendersIn(asked)) /\ Cardinality(SendersIn(asked)) \in Nat
<1>1. IsFiniteSet(Callers) /\ SendersIn(asked) \subseteq Callers
  BY IngestAssumption DEF SendersIn
<1> QED
  BY <1>1, FS_Subset, FS_CardinalityType

(* Nothing is sent, and nobody has more to send. *)
LEMMA QueueShrinks ==
  ASSUME Typed, Typed', QueueInv, \A d \in Documents : uploaded'[d] <= uploaded[d],
         SendersIn(request') \subseteq SendersIn(request), spent'.requests = spent.requests
  PROVE  QueueInv'
<1>1. PICK n : n = Cardinality(SendersIn(request))
  OBVIOUS
<1>2. PICK m : m = Cardinality(SendersIn(request'))
  OBVIOUS
<1>3. n \in Nat /\ m \in Nat /\ m <= n
  BY <1>1, <1>2, SendersFinite, FS_Subset
<1>4. \A d \in Documents : uploaded[d] \in Nat /\ uploaded'[d] \in Nat
  BY DEF Typed
<1>5. spent.requests \in Nat
  BY Bounds DEF Typed
<1>6. \A d \in Documents : uploaded[d] + n <= spent.requests
  BY <1>1 DEF QueueInv
<1>7. \A d \in Documents : uploaded'[d] + m <= spent'.requests
  BY <1>3, <1>4, <1>5, <1>6
<1> QED
  BY <1>2, <1>7 DEF QueueInv

(* A request more. *)
LEMMA QueueGrows ==
  ASSUME Typed, Typed', QueueInv, NEW c \in Callers, uploaded' = uploaded,
         SendersIn(request') \subseteq SendersIn(request) \cup {c},
         spent'.requests = spent.requests + 1
  PROVE  QueueInv'
<1>1. PICK n : n = Cardinality(SendersIn(request))
  OBVIOUS
<1>2. PICK m : m = Cardinality(SendersIn(request'))
  OBVIOUS
<1>3. n \in Nat /\ m \in Nat /\ m <= n + 1
  <2>1. /\ IsFiniteSet(SendersIn(request) \cup {c})
        /\ Cardinality(SendersIn(request) \cup {c}) <= n + 1
        /\ Cardinality(SendersIn(request) \cup {c}) \in Nat
    <3>1. IsFiniteSet(SendersIn(request)) /\ n \in Nat
      BY <1>1, SendersFinite
    <3>2. /\ IsFiniteSet(SendersIn(request) \cup {c})
          /\ Cardinality(SendersIn(request) \cup {c})
             = IF c \in SendersIn(request) THEN n ELSE n + 1
      BY <1>1, <3>1, FS_AddElement
    <3> QED
      BY <3>1, <3>2
  <2>2. m <= Cardinality(SendersIn(request) \cup {c})
    BY <1>2, <2>1, FS_Subset
  <2>3. n \in Nat /\ m \in Nat
    BY <1>1, <1>2, SendersFinite
  <2> QED
    BY <2>1, <2>2, <2>3
<1>4. \A d \in Documents : uploaded[d] \in Nat
  BY DEF Typed
<1>5. spent.requests \in Nat
  BY Bounds DEF Typed
<1>6. \A d \in Documents : uploaded[d] + n <= spent.requests
  BY <1>1 DEF QueueInv
<1>7. \A d \in Documents : uploaded[d] + m <= spent'.requests
  BY <1>3, <1>4, <1>5, <1>6
<1> QED
  BY <1>2, <1>7 DEF QueueInv

(* A request sends its event. *)
LEMMA QueueSent ==
  ASSUME Typed, Typed', QueueInv, NEW c \in SendersIn(request),
         \A d \in Documents : uploaded'[d] <= uploaded[d] + 1,
         SendersIn(request') \subseteq SendersIn(request) \ {c},
         spent'.requests = spent.requests
  PROVE  QueueInv'
<1>1. PICK n : n = Cardinality(SendersIn(request))
  OBVIOUS
<1>2. PICK m : m = Cardinality(SendersIn(request'))
  OBVIOUS
<1>3. n \in Nat /\ m \in Nat /\ m + 1 <= n
  <2>1. /\ IsFiniteSet(SendersIn(request) \ {c})
        /\ Cardinality(SendersIn(request) \ {c}) = n - 1
    BY <1>1, SendersFinite, FS_RemoveElement
  <2>2. m <= Cardinality(SendersIn(request) \ {c})
    BY <1>2, <2>1, FS_Subset
  <2>3. n \in Nat /\ m \in Nat
    BY <1>1, <1>2, SendersFinite
  <2> QED
    BY <2>1, <2>2, <2>3
<1>4. \A d \in Documents : uploaded[d] \in Nat /\ uploaded'[d] \in Nat
  BY DEF Typed
<1>5. spent.requests \in Nat
  BY Bounds DEF Typed
<1>6. \A d \in Documents : uploaded[d] + n <= spent.requests
  BY <1>1 DEF QueueInv
<1>7. \A d \in Documents : uploaded'[d] + m <= spent'.requests
  BY <1>3, <1>4, <1>5, <1>6
<1> QED
  BY <1>2, <1>7 DEF QueueInv

LEMMA SpentOnFaults ==
  ASSUME Typed, SpendFault \/ UNCHANGED spent PROVE spent'.requests = spent.requests
  BY DEF Typed, SpendFault

LEMMA AcknowledgedShrinks ==
  ASSUME Typed, NEW w \in Ingesters, Acknowledged(w)
  PROVE  \A d \in Documents : uploaded'[d] <= uploaded[d]
<1> SUFFICES ASSUME NEW d \in Documents PROVE uploaded'[d] <= uploaded[d]
  OBVIOUS
<1>1. PICK e : e = task[w].doc
  OBVIOUS
<1>2. PICK n : n = IF task[w].revoked \/ uploaded[e] = 0 THEN uploaded[e] ELSE uploaded[e] - 1
  OBVIOUS
<1>3. uploaded' = [uploaded EXCEPT ![e] = n] /\ e \in Documents
  BY <1>1, <1>2 DEF Acknowledged, Typed, Tasks
<1>4. uploaded[d] \in Nat /\ uploaded[e] \in Nat /\ uploaded \in [Documents -> Nat]
  BY <1>3 DEF Typed
<1>5. n <= uploaded[e]
  BY <1>2, <1>4
<1> QED
  BY <1>3, <1>4, <1>5

(* A worker sends nothing. *)
LEMMA WorkersTake ==
  ASSUME Typed, NEW w \in Ingesters, IngestStep(w)
  PROVE  /\ request' = request /\ spent'.requests = spent.requests
         /\ \A d \in Documents : uploaded'[d] <= uploaded[d]
<1> DEFINE Takes == \/ uploaded' = uploaded
                    \/ Acknowledged(w)
                    \/ \E d \in Documents : uploaded' = [uploaded EXCEPT ![d] = @ - 1]
           Sound == request' = request /\ (SpendFault \/ UNCHANGED spent) /\ Takes
<1>1. ASSUME NEW doc, NEW next, Does(w, doc, next) PROVE Sound
  BY <1>1 DEF Does
<1>2. ASSUME NEW doc, NEW next, Stops(w, doc, next) PROVE Sound
  BY <1>2 DEF Stops, Cancelled
<1>3. ASSUME NEW at, NEW doc, NEW next, FailStep(w, at, doc, next),
             SpendFault \/ UNCHANGED spent
      PROVE  Sound
  BY <1>3 DEF FailStep
<1>4. Sound
  <2>1. CASE \E d \in Documents : TakeEvent(w, d)
    BY <2>1 DEF TakeEvent
  <2>2. CASE RunNothing(w)
    BY <2>2 DEF RunNothing
  <2>3. CASE RunStarts(w)
    BY <2>3 DEF RunStarts
  <2>4. CASE RunAbandoned(w)
    BY <2>4 DEF RunAbandoned
  <2>5. CASE MarkReady(w)
    <3>1. CASE \E next : Stops(w, DocOf(w), next)
      BY <1>2, <3>1
    <3>2. CASE Acknowledged(w) /\ UNCHANGED <<base, request, spent>>
      BY <3>2
    <3> QED
      BY <2>5, <3>1, <3>2 DEF MarkReady
  <2>6. CASE RecordFailure(w) \/ Revoke(w) \/ WorkerDies(w)
    BY <2>6 DEF RecordFailure, Revoke, WorkerDies
  <2>7. CASE MarkFailed(w) \/ DropVectors(w) \/ DropRows(w) \/ DropImages(w)
    <3> HIDE DEF Sound
    <3> QED
      BY <1>3, <2>7, Zenon DEF MarkFailed, DropVectors, DropRows, DropImages
  <2>8. CASE ClearVectors(w) \/ ClearRows(w) \/ ClearImages(w)
    <3> HIDE DEF Sound
    <3> QED
      BY <1>1, <1>2, <2>8, Zenon DEF ClearVectors, ClearRows, ClearImages
  <2>9. CASE Parse(w) \/ PersistKeys(w) \/ StoreImages(w)
    <3> HIDE DEF Sound
    <3> QED
      BY <1>1, <1>2, <2>9, Zenon DEF Parse, PersistKeys, StoreImages
  <2>10. CASE ReplaceChunks(w) \/ CreateParents(w) \/ CreateChildren(w)
    <3> HIDE DEF Sound
    <3> QED
      BY <1>1, <1>2, <2>10, Zenon
      DEF ReplaceChunks, CreateParents, CreateChildren, ChunkStops
  <2>11. CASE CountChunks(w) \/ InsertVectors(w)
    <3> HIDE DEF Sound
    <3> QED
      BY <1>1, <1>2, <2>11, Zenon DEF CountChunks, InsertVectors, ChunkStops
  <2> HIDE DEF Sound
  <2> QED
    BY <2>1, <2>2, <2>3, <2>4, <2>5, <2>6, <2>7, <2>8, <2>9, <2>10, <2>11, Zenon
    DEF IngestStep
<1>5. \A d \in Documents : uploaded[d] \in Nat
  BY DEF Typed
<1>6. CASE uploaded' = uploaded
  BY <1>4, <1>5, <1>6, SpentOnFaults
<1>7. CASE Acknowledged(w)
  BY <1>4, <1>7, SpentOnFaults, AcknowledgedShrinks
<1>8. CASE \E d \in Documents : uploaded' = [uploaded EXCEPT ![d] = @ - 1]
  <2>1. PICK d \in Documents : uploaded' = [uploaded EXCEPT ![d] = @ - 1]
    BY <1>8
  <2>2. \A e \in Documents : uploaded'[e] <= uploaded[e]
    BY <1>5, <2>1 DEF Typed
  <2> QED
    BY <1>4, <2>2, SpentOnFaults
<1> QED
  BY <1>4, <1>6, <1>7, <1>8

(* What a step of a request makes of the events.                            *)
Becomes(c, r) == request' = [request EXCEPT ![c] = r]
Keeps(c) == /\ uploaded' = uploaded /\ (SpendFault \/ UNCHANGED spent)
            /\ \E r : Becomes(c, r) /\ (r.pc \in Sends => request[c].pc \in Sends)
Asks(c) == /\ uploaded' = uploaded /\ spent' = [spent EXCEPT !.requests = @ + 1]
           /\ \E r : Becomes(c, r)
SendsOne(c) == /\ \/ uploaded' = uploaded
                  \/ uploaded' = [uploaded EXCEPT ![request[c].doc] = @ + 1]
               /\ (SpendFault \/ UNCHANGED spent) /\ request[c].pc = "send"
               /\ \E r : Becomes(c, r) /\ r.pc \notin Sends

LEMMA BecomesIs ==
  ASSUME Typed, NEW c \in Callers, NEW r, Becomes(c, r)
  PROVE  /\ SendersIn(request') \subseteq SendersIn(request) \cup {c}
         /\ (r.pc \in Sends => request[c].pc \in Sends)
              => SendersIn(request') \subseteq SendersIn(request)
         /\ r.pc \notin Sends => SendersIn(request') \subseteq SendersIn(request) \ {c}
<1>1. /\ request'[c] = r /\ \A e \in Callers : e # c => request'[e] = request[e]
  BY DEF Typed, Becomes
<1> QED
  BY <1>1 DEF SendersIn

LEMMA GoesTo ==
  ASSUME Typed, NEW c \in Callers, NEW pc, request' = [request EXCEPT ![c].pc = pc]
  PROVE  \E r : Becomes(c, r) /\ r.pc = pc
<1>1. PICK q \in Requests : q = request[c]
  BY DEF Typed
<1>2. PICK r : r = [q EXCEPT !.pc = pc]
  OBVIOUS
<1>3. r.pc = pc
  BY <1>2 DEF Requests
<1>4. request' = [request EXCEPT ![c] = r]
  BY <1>1, <1>2
<1> QED
  BY <1>3, <1>4 DEF Becomes

LEMMA Rested ==
  ASSUME Typed, NEW c \in Callers, request' = [request EXCEPT ![c] = NoRequest]
  PROVE  \E r : Becomes(c, r) /\ r.pc \notin Sends
<1>1. Becomes(c, NoRequest) /\ NoRequest.pc \notin Sends
  BY Rests DEF Becomes, Sends
<1> QED
  BY <1>1

LEMMA Quietly ==
  ASSUME Typed, NEW c \in Callers
  PROVE  /\ \A doc, pc : PutsRow(c, doc, pc) /\ (pc \in Sends => request[c].pc \in Sends)
                            => Keeps(c)
         /\ Errs(c) => Keeps(c)
         /\ RequestEnds(c) /\ UNCHANGED uploaded /\ (SpendFault \/ UNCHANGED spent)
               => Keeps(c)
<1>1. ASSUME NEW doc, NEW pc, PutsRow(c, doc, pc), pc \in Sends => request[c].pc \in Sends
      PROVE  Keeps(c)
  <2>1. \E r : Becomes(c, r) /\ r.pc = pc
    BY <1>1, GoesTo DEF PutsRow
  <2> QED
    BY <1>1, <2>1 DEF Keeps, PutsRow
<1>2. ASSUME RequestEnds(c), UNCHANGED uploaded, SpendFault \/ UNCHANGED spent
      PROVE  Keeps(c)
  <2>1. \E r : Becomes(c, r) /\ r.pc \notin Sends
    BY <1>2, Rested DEF RequestEnds
  <2> QED
    BY <1>2, <2>1 DEF Keeps
<1>3. ASSUME Errs(c) PROVE Keeps(c)
  BY <1>2, <1>3 DEF Errs
<1> QED
  BY <1>1, <1>2, <1>3

LEMMA CallersSend ==
  ASSUME Typed, NEW c \in Callers, RequestStep(c)
  PROVE  Keeps(c) \/ Asks(c) \/ SendsOne(c)
<1>1. ASSUME NEW doc, NEW pc, PutsRow(c, doc, pc), pc \in Sends => request[c].pc \in Sends
      PROVE  Keeps(c)
  BY <1>1, Quietly
<1>2. Errs(c) => Keeps(c)
  BY Quietly
<1>3. RequestEnds(c) /\ UNCHANGED uploaded /\ (SpendFault \/ UNCHANGED spent) => Keeps(c)
  BY Quietly
<1>4. ASSUME NEW pc, request' = [request EXCEPT ![c].pc = pc],
             pc \in Sends => request[c].pc \in Sends,
             UNCHANGED uploaded, SpendFault \/ UNCHANGED spent
      PROVE  Keeps(c)
  <2>1. PICK r : Becomes(c, r) /\ r.pc = pc
    BY <1>4, GoesTo
  <2> QED
    BY <1>4, <2>1 DEF Keeps
<1>5. CASE \E d \in Documents : Upload(c, d) \/ Retry(c, d) \/ DeleteDocument(c, d)
  BY <1>5 DEF Upload, Retry, DeleteDocument, AskFor, Asks, Becomes
<1>6. CASE DeleteBase(c)
  BY <1>6 DEF DeleteBase, Asks, Becomes
<1>7. CASE SendEvent(c)
  <2>1. CASE RequestEnds(c) /\ UNCHANGED spent
    BY <1>7, <2>1, Rested DEF SendEvent, SendsOne, RequestEnds, Answering
  <2>2. CASE SpendFault /\ request' = [request EXCEPT ![c].pc = "unsend"]
    <3>1. PICK r : Becomes(c, r) /\ r.pc = "unsend"
      BY <2>2, GoesTo
    <3>2. r.pc \notin Sends
      BY <3>1 DEF Sends
    <3> QED
      BY <1>7, <2>2, <3>1, <3>2 DEF SendEvent, SendsOne, Answering
  <2> QED
    BY <1>7, <2>1, <2>2 DEF SendEvent
<1>8. CASE PutOriginal(c)
  BY <1>1, <1>2, <1>8 DEF PutOriginal, Answering, Sends
<1>9. CASE CreateDocument(c)
  BY <1>1, <1>4, <1>9 DEF CreateDocument, Answering, Sends
<1>10. CASE RemoveUpload(c)
  BY <1>2, <1>3, <1>10 DEF RemoveUpload
<1>11. CASE MarkUnsent(c)
  BY <1>2, <1>3, <1>11 DEF MarkUnsent
<1>12. CASE RetryLocked(c)
  BY <1>3, <1>4, <1>12 DEF RetryLocked, UnderLock, Answering, Sends
<1>13. CASE DeleteLocked(c)
  BY <1>3, <1>4, <1>13 DEF DeleteLocked, UnderLock, Answering, Sends
<1>14. CASE ResetDocument(c)
  BY <1>1, <1>2, <1>14 DEF ResetDocument, Answering, Sends
<1>15. CASE NextLocked(c)
  BY <1>4, <1>15 DEF NextLocked, Answering, Sends
<1>16. CASE DropBase(c)
  BY <1>16, Rested DEF DropBase, Keeps
<1>17. CASE Invalidate(c)
  BY <1>1, <1>2, <1>17 DEF Invalidate, Removal, Sends
<1>18. CASE RemoveRows(c)
  BY <1>1, <1>2, <1>18 DEF RemoveRows, Removal, Sends
<1>19. CASE RemoveVectors(c)
  BY <1>1, <1>2, <1>19 DEF RemoveVectors, Removal, Sends
<1>20. CASE RemoveImages(c)
  BY <1>1, <1>2, <1>20 DEF RemoveImages, Removal, Sends
<1>21. CASE RemoveOriginal(c)
  BY <1>1, <1>2, <1>21 DEF RemoveOriginal, Removal, Sends
<1>22. CASE CallerDies(c)
  BY <1>3, <1>22 DEF CallerDies
<1>23. CASE RemoveDocument(c)
  <2>1. CASE Errs(c)
    BY <1>2, <2>1
  <2>2. CASE ~Errs(c)
    <3>1. PICK q \in Requests : q = request[c]
      BY DEF Typed
    <3>2. PICK r : r = IF q.whole THEN [q EXCEPT !.pc = "list"] ELSE NoRequest
      OBVIOUS
    <3>3. r.pc \notin Sends
      BY <3>2, Rests DEF Requests, Sends
    <3>4. Becomes(c, r) /\ UNCHANGED <<uploaded, spent>>
      BY <1>23, <2>2, <3>1, <3>2 DEF RemoveDocument, Becomes
    <3> QED
      BY <3>3, <3>4 DEF Keeps
  <2> QED
    BY <2>1, <2>2
<1>24. CASE ListDocuments(c)
  <2>1. CASE request' = [request EXCEPT ![c] = NoRequest]
    BY <1>24, <2>1, Rested DEF ListDocuments, Keeps
  <2>2. CASE request' = [request EXCEPT ![c].pc = "drop"]
    BY <1>4, <1>24, <2>2 DEF ListDocuments, Sends
  <2>3. CASE \E d \in Documents : request' = [request EXCEPT ![c].pc = "next", ![c].doc = d]
    <3>1. PICK d \in Documents : request' = [request EXCEPT ![c].pc = "next", ![c].doc = d]
      BY <2>3
    <3>2. PICK q \in Requests : q = request[c]
      BY DEF Typed
    <3>3. PICK r : r = [[q EXCEPT !.pc = "next"] EXCEPT !.doc = d]
      OBVIOUS
    <3>4. r.pc \notin Sends
      BY <3>3 DEF Requests, Sends
    <3>5. request' = [request EXCEPT ![c] = r]
      BY <3>1, <3>2, <3>3 DEF Typed
    <3> QED
      BY <1>24, <3>4, <3>5 DEF ListDocuments, Keeps, Becomes
  <2> QED
    BY <1>24, <2>1, <2>2, <2>3 DEF ListDocuments
<1> QED
  BY <1>5, <1>6, <1>7, <1>8, <1>9, <1>10, <1>11, <1>12, <1>13, <1>14, <1>15, <1>16, <1>17,
     <1>18, <1>19, <1>20, <1>21, <1>22, <1>23, <1>24 DEF RequestStep

LEMMA QueueStep ==
  Typed /\ IngestInv /\ QueueInv /\ [IngestNext]_ingestVars => QueueInv'
<1> SUFFICES ASSUME Typed, IngestInv, QueueInv, [IngestNext]_ingestVars PROVE QueueInv'
  OBVIOUS
<1>0. Typed'
  BY IngestInvStep
<1>1. ASSUME NEW w \in Ingesters, IngestStep(w) PROVE QueueInv'
  <2>1. /\ request' = request /\ spent'.requests = spent.requests
        /\ \A d \in Documents : uploaded'[d] <= uploaded[d]
    BY <1>1, WorkersTake
  <2> QED
    BY <1>0, <2>1, QueueShrinks
<1>2. ASSUME NEW c \in Callers, RequestStep(c) PROVE QueueInv'
  <2>1. \A d \in Documents : uploaded[d] \in Nat
    BY DEF Typed
  <2>2. CASE Keeps(c)
    <3>1. PICK r : Becomes(c, r) /\ (r.pc \in Sends => request[c].pc \in Sends)
      BY <2>2 DEF Keeps
    <3>2. SendersIn(request') \subseteq SendersIn(request)
      BY <3>1, BecomesIs
    <3>3. uploaded' = uploaded /\ spent'.requests = spent.requests
      BY <2>2, SpentOnFaults DEF Keeps
    <3>4. \A d \in Documents : uploaded'[d] <= uploaded[d]
      BY <2>1, <3>3
    <3> QED
      BY <1>0, <3>2, <3>3, <3>4, QueueShrinks
  <2>3. CASE Asks(c)
    <3>1. SendersIn(request') \subseteq SendersIn(request) \cup {c}
      BY <2>3, BecomesIs DEF Asks
    <3>2. uploaded' = uploaded /\ spent'.requests = spent.requests + 1
      BY <2>3 DEF Asks, Typed
    <3> QED
      BY <1>0, <3>1, <3>2, QueueGrows
  <2>4. CASE SendsOne(c)
    <3>1. PICK r : Becomes(c, r) /\ r.pc \notin Sends
      BY <2>4 DEF SendsOne
    <3>2. SendersIn(request') \subseteq SendersIn(request) \ {c}
      BY <3>1, BecomesIs
    <3>3. c \in SendersIn(request)
      BY <2>4 DEF SendsOne, SendersIn, Sends
    <3>4. PICK e \in Documents : e = request[c].doc
      BY DEF Typed, Requests
    <3>5. \A d \in Documents : uploaded'[d] <= uploaded[d] + 1
      BY <2>1, <2>4, <3>4 DEF SendsOne, Typed
    <3>6. spent'.requests = spent.requests
      BY <2>4, SpentOnFaults DEF SendsOne
    <3> QED
      BY <1>0, <3>2, <3>3, <3>5, <3>6, QueueSent
  <2> QED
    BY <1>2, <2>2, <2>3, <2>4, CallersSend
<1>3. CASE UpdateBase \/ UNCHANGED ingestVars
  BY <1>3 DEF UpdateBase, ingestVars, QueueInv
<1> QED
  BY <1>1, <1>2, <1>3 DEF IngestNext

LEMMA QueueInit == IngestInit => QueueInv
<1> SUFFICES ASSUME IngestInit PROVE QueueInv
  OBVIOUS
<1>1. /\ request = [c \in Callers |-> NoRequest]
      /\ uploaded = [d \in Documents |-> 0]
      /\ spent = [faults |-> 0, requests |-> 0]
  BY DEF IngestInit
<1>2. SendersIn(request) = {}
  BY <1>1, Rests DEF SendersIn, Sends
<1>3. Cardinality(SendersIn(request)) = 0
  BY <1>2, FS_EmptySet
<1>4. spent.requests = 0
  BY <1>1
<1>5. ASSUME NEW d \in Documents
      PROVE  uploaded[d] + Cardinality(SendersIn(request)) <= spent.requests
  <2>1. uploaded[d] = 0
    BY <1>1
  <2> QED
    BY <1>3, <1>4, <2>1
<1> QED
  BY <1>5 DEF QueueInv

(* The records of the pipeline have their types, and no more events wait    *)
(* for a document than uploads and retries were asked for: each of them     *)
(* sends at most one, and only Send adds one.                               *)
THEOREM IngestTyped == IngestSpec => []IngestTypeOK
<1>1. Typed /\ QueueInv => IngestTypeOK
  <2> SUFFICES ASSUME Typed, QueueInv PROVE IngestTypeOK
    OBVIOUS
  <2>1. PICK n \in Nat : n = Cardinality(SendersIn(request))
    BY SendersFinite
  <2>2. spent.requests \in 0 .. MaxRequests /\ MaxRequests \in Nat
    BY Bounds DEF Typed
  <2>3. \A d \in Documents : uploaded[d] \in Nat /\ uploaded[d] + n <= spent.requests
    BY <2>1 DEF QueueInv, Typed
  <2>4. \A d \in Documents : uploaded[d] \in 0 .. MaxRequests
    BY <2>2, <2>3
  <2>5. uploaded \in [Documents -> 0 .. MaxRequests]
    BY <2>4 DEF Typed
  <2> QED
    BY <2>5 DEF Typed, IngestTypeOK
<1> QED
  BY <1>1, QueueInit, QueueStep, IngestHolds, PTL DEF IngestSpec

=============================================================================
