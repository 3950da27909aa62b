-------------------------- MODULE KnowledgeIngest --------------------------
(***************************************************************************)
(* The documents of one knowledge base: upload, ingestion by the consumers *)
(* of document.uploaded, retry, deletion of a document and of the base.    *)
(* A document lives in four stores (its row, its chunk rows, its vectors   *)
(* in Milvus, its objects in MinIO) that no transaction joins; an advisory *)
(* lock per document orders what the processes do to it.                   *)
(*                                                                         *)
(* One statement of Postgres and one call of Milvus or MinIO is one step,  *)
(* and each of them may fail.  A Postgres statement that reports an error  *)
(* was not applied; a call of Milvus or MinIO may have been.  The session  *)
(* of an advisory lock lives as long as the process that took it.          *)
(***************************************************************************)
EXTENDS Naturals, FiniteSets

CONSTANTS Documents,        \* the document ids of the base
          Ingesters,        \* the claims of the ingest consumer group
          Callers,          \* the requests of users in flight
          Attempts,         \* bound: sets of chunks prepared per document
          MaxRequests,      \* bound: requests of users
          MaxIngestFaults   \* bound: failed calls, revoked claims, dead processes

ASSUME IngestAssumption ==
    /\ IsFiniteSet(Documents) /\ Documents # {}
    /\ IsFiniteSet(Ingesters) /\ IsFiniteSet(Callers)
    /\ Ingesters \cap Callers = {}
    /\ Attempts \in Nat /\ MaxRequests \in Nat /\ MaxIngestFaults \in Nat

VARIABLES base,       \* status of the row of knowledge_bases; "gone" once deleted
          file,       \* what the four stores hold of each document
          holding,    \* who holds the advisory lock of each document
          uploaded,   \* unacknowledged document.uploaded events of each document
          task,       \* the ingest workers
          request,    \* the requests of users
          spent       \* what the bounds have seen

ingestVars == <<base, file, holding, uploaded, task, request, spent>>

-----------------------------------------------------------------------------
(* Values *)

Processing == {"pending", "parsing", "chunking", "embedding"}
EndStates == {"ready", "failed"}

(* "unborn" and "none" have no row yet, "gone" has none any more. *)
Statuses == Processing \cup EndStates \cup {"unborn", "none", "gone"}
HasRow(d) == file[d].status \in Processing \cup EndStates

(* The chunks of one attempt: its parents, written one by one, then its    *)
(* children in one insert.  Only children have vectors.                    *)
ChunksOf(a) == {<<a, "parents">>, <<a, "children">>}
AllChunks == UNION {ChunksOf(a) : a \in 1 .. Attempts}

Files == [status: Statuses, keys: BOOLEAN, rows: SUBSET AllChunks,
          vectors: SUBSET (1 .. Attempts), image: BOOLEAN, original: BOOLEAN,
          prepared: 0 .. Attempts]

TaskPcs == {"idle", "lock", "clear", "clearRows", "clearImages", "parse",
            "keys", "images", "chunk", "parents", "children", "count",
            "embed", "ready", "failed", "dropVectors", "dropRows",
            "dropImages", "record"}
Tasks == [pc: TaskPcs, doc: Documents, attempt: 0 .. Attempts,
          keys: BOOLEAN, broken: BOOLEAN, revoked: BOOLEAN]

RequestPcs == {"idle", "put", "create", "unput", "send", "unsend", "retry",
               "reset", "delete", "list", "next", "invalidate", "rows",
               "vectors", "images", "original", "row", "drop"}
Requests == [pc: RequestPcs, doc: Documents, whole: BOOLEAN]

IngestTypeOK ==
    /\ base \in {"active", "inactive", "deleting", "gone"}
    /\ file \in [Documents -> Files]
    /\ holding \in [Documents -> SUBSET (Ingesters \cup Callers)]
    /\ uploaded \in [Documents -> 0 .. MaxRequests]
    /\ task \in [Ingesters -> Tasks]
    /\ request \in [Callers -> Requests]
    /\ spent \in [faults: 0 .. MaxIngestFaults, requests: 0 .. MaxRequests]

AnyDocument == CHOOSE d \in Documents : TRUE
NoTask == [pc |-> "idle", doc |-> AnyDocument, attempt |-> 0, keys |-> FALSE,
           broken |-> FALSE, revoked |-> FALSE]
NoRequest == [pc |-> "idle", doc |-> AnyDocument, whole |-> FALSE]
NoFile == [status |-> "unborn", keys |-> FALSE, rows |-> {}, vectors |-> {},
           image |-> FALSE, original |-> FALSE, prepared |-> 0]

IngestInit ==
    /\ base = "active"
    /\ file = [d \in Documents |-> NoFile]
    /\ holding = [d \in Documents |-> {}]
    /\ uploaded = [d \in Documents |-> 0]
    /\ task = [w \in Ingesters |-> NoTask]
    /\ request = [c \in Callers |-> NoRequest]
    /\ spent = [faults |-> 0, requests |-> 0]

-----------------------------------------------------------------------------
(* Steps *)

SpendFault ==
    /\ spent.faults < MaxIngestFaults
    /\ spent' = [spent EXCEPT !.faults = @ + 1]

(* Mutant: the workers lock the documents, the users' requests do not. *)
LockFreeOfCallers(d) == holding[d] \cap Callers = {}
LockFree(d) == holding[d] = {}
Locked(d, who) == holding' = [holding EXCEPT ![d] = {who}]
Unlocked(d, who) == holding' = [holding EXCEPT ![d] = @ \ {who}]

(* The statement or the call of worker w at pc succeeds: the fields of the *)
(* document that it writes, and where w goes next.                         *)
Working(w, at) == task[w].pc = at
DocOf(w) == file[task[w].doc]
Does(w, doc, next) ==
    /\ file' = [file EXCEPT ![task[w].doc] = doc]
    /\ task' = [task EXCEPT ![w] = next]
    /\ UNCHANGED <<base, holding, uploaded, request, spent>>

(* It fails: a fault, or the context of a revoked claim is cancelled.      *)
Cancelled(w) ==
    \/ SpendFault
    \/ task[w].revoked /\ UNCHANGED spent
Stops(w, doc, next) ==
    /\ Cancelled(w)
    /\ file' = [file EXCEPT ![task[w].doc] = doc]
    /\ task' = [task EXCEPT ![w] = next]
    /\ UNCHANGED <<base, holding, uploaded, request>>

At(w, pc) == [task[w] EXCEPT !.pc = pc]

(* The worker leaves WithDocumentLock.  MarkMessage only follows a nil     *)
(* error in a session that is still alive.                                 *)
Acknowledged(w) ==
    uploaded' = [uploaded EXCEPT
        ![task[w].doc] = IF task[w].revoked \/ @ = 0 THEN @ ELSE @ - 1]
TaskEnds(w) ==
    /\ task' = [task EXCEPT ![w] = NoTask]
    /\ Unlocked(task[w].doc, w)

-----------------------------------------------------------------------------
(* Ingestion: ConsumeClaim, Handle, Run *)

(* Events carry the document id as their key, so one claim of the living   *)
(* session has them all; a revoked claim may still be at work.             *)
Unclaimed(d) == \A w \in Ingesters :
    task[w].pc /= "idle" /\ ~task[w].revoked => task[w].doc /= d

(* Handle: a document that is absent or settled is acknowledged unseen.    *)
TakeEvent(w, d) ==
    /\ Working(w, "idle") /\ uploaded[d] > 0 /\ Unclaimed(d)
    /\ IF file[d].status \in Processing
         THEN /\ task' = [task EXCEPT ![w] = [NoTask EXCEPT !.pc = "lock", !.doc = d]]
              /\ UNCHANGED uploaded
         ELSE /\ uploaded' = [uploaded EXCEPT ![d] = @ - 1]
              /\ UNCHANGED task
    /\ UNCHANGED <<base, file, holding, request, spent>>

(* Run under the lock: settled, or the base is being deleted: nothing to   *)
(* do.  A document that has gone is an error; the event is looked at again.*)
RunNothing(w) ==
    LET d == task[w].doc IN
    /\ Working(w, "lock") /\ LockFree(d) /\ ~task[w].revoked
    /\ \/ /\ file[d].status \in EndStates \/ (HasRow(d) /\ base = "deleting")
          /\ Acknowledged(w)
       \/ ~HasRow(d) /\ UNCHANGED uploaded
    /\ task' = [task EXCEPT ![w] = NoTask]
    /\ UNCHANGED <<base, file, holding, request, spent>>

(* Mutant: interrupted work is taken up without clearing what it left. *)
RunResumes(w) ==
    LET d == task[w].doc IN
    /\ Working(w, "lock") /\ LockFree(d) /\ ~task[w].revoked
    /\ file[d].status \in Processing /\ base /= "deleting"
    /\ task' = [task EXCEPT ![w] =
          [@ EXCEPT !.pc = IF base = "active" THEN "parse" ELSE "failed",
                    !.keys = file[d].keys]]
    /\ Locked(d, w)
    /\ UNCHANGED <<base, file, uploaded, request, spent>>

(* A document in process is interrupted work.  A base that is not active   *)
(* fails it at once.                                                       *)
RunStarts(w) ==
    LET d == task[w].doc IN
    /\ Working(w, "lock") /\ LockFree(d) /\ ~task[w].revoked
    /\ file[d].status \in Processing /\ base /= "deleting"
    /\ task' = [task EXCEPT ![w] =
          [@ EXCEPT !.pc = IF base = "active" THEN "clear" ELSE "failed",
                    !.keys = file[d].keys]]
    /\ Locked(d, w)
    /\ UNCHANGED <<base, file, uploaded, request, spent>>

(* The claim ends while its worker waits for the lock. *)
RunAbandoned(w) ==
    /\ Working(w, "lock") /\ task[w].revoked
    /\ task' = [task EXCEPT ![w] = NoTask]
    /\ UNCHANGED <<base, file, holding, uploaded, request, spent>>

(* clearChunks tries both representations before it reports an error. *)
ClearVectors(w) ==
    /\ Working(w, "clear")
    /\ \/ Does(w, [DocOf(w) EXCEPT !.vectors = {}], At(w, "clearRows"))
       \/ \E v \in {{}, DocOf(w).vectors} :
             Stops(w, [DocOf(w) EXCEPT !.vectors = v],
                   [At(w, "clearRows") EXCEPT !.broken = TRUE])

ClearRows(w) ==
    /\ Working(w, "clearRows")
    /\ \/ Does(w, [DocOf(w) EXCEPT !.rows = {}],
               At(w, IF task[w].broken THEN "failed" ELSE "clearImages"))
       \/ Stops(w, DocOf(w), At(w, "failed"))

(* clearImages deletes the objects the row names and forgets their keys in *)
(* memory; the row keeps them until the next Update.                       *)
ClearImages(w) ==
    /\ Working(w, "clearImages")
    /\ \/ Does(w, [DocOf(w) EXCEPT !.image = @ /\ ~task[w].keys],
               [At(w, "parse") EXCEPT !.keys = FALSE])
       \/ task[w].keys /\ Stops(w, DocOf(w), At(w, "failed"))

(* Stage 1.  The document has images or it has none. *)
Parse(w) ==
    LET parsing == [DocOf(w) EXCEPT !.status = "parsing"] IN
    /\ Working(w, "parse")
    /\ \/ DocOf(w).original /\ \E pc \in {"keys", "chunk"} : Does(w, parsing, At(w, pc))
       \/ ~DocOf(w).original /\ Does(w, parsing, At(w, "failed"))
       \/ \E doc \in {parsing, DocOf(w)} : Stops(w, doc, At(w, "failed"))

(* The keys are in the row before the first object is stored. *)
PersistKeys(w) ==
    LET next(pc) == [At(w, pc) EXCEPT !.keys = TRUE] IN
    /\ Working(w, "keys")
    /\ \/ Does(w, [DocOf(w) EXCEPT !.keys = TRUE], next("images"))
       \/ Stops(w, DocOf(w), next("failed"))

StoreImages(w) ==
    /\ Working(w, "images")
    /\ \/ Does(w, [DocOf(w) EXCEPT !.image = TRUE], At(w, "chunk"))
       \/ \E stored \in {TRUE, DocOf(w).image} :
             Stops(w, [DocOf(w) EXCEPT !.image = stored], At(w, "failed"))

(* Stage 2.  A repeated stage keeps the ids prepared the first time and    *)
(* replaces the prefix that the failed one committed.                      *)
ChunkStops(w) == \E pc \in {"chunk", "failed"} : Stops(w, DocOf(w), At(w, pc))

ReplaceChunks(w) ==
    LET fresh == task[w].attempt = 0
        a == IF fresh THEN DocOf(w).prepared + 1 ELSE task[w].attempt IN
    /\ Working(w, "chunk")
    /\ \/ /\ a <= Attempts
          /\ Does(w, [DocOf(w) EXCEPT !.status = "chunking", !.rows = {},
                                      !.prepared = IF fresh THEN a ELSE @],
                  [At(w, "parents") EXCEPT !.attempt = a])
       \/ Stops(w, DocOf(w), At(w, "failed"))

CreateParents(w) ==
    /\ Working(w, "parents")
    /\ \/ Does(w, [DocOf(w) EXCEPT !.rows = @ \cup {<<task[w].attempt, "parents">>}],
               At(w, "children"))
       \/ ChunkStops(w)

CreateChildren(w) ==
    /\ Working(w, "children")
    /\ \/ Does(w, [DocOf(w) EXCEPT !.rows = @ \cup {<<task[w].attempt, "children">>}],
               At(w, "count"))
       \/ ChunkStops(w)

(* The Update of the chunk count writes the metadata too. *)
CountChunks(w) ==
    /\ Working(w, "count")
    /\ \/ Does(w, [DocOf(w) EXCEPT !.keys = task[w].keys], At(w, "embed"))
       \/ ChunkStops(w)

(* Stage 3.  Insert is an upsert under the ids of the rows. *)
InsertVectors(w) ==
    LET with == DocOf(w).vectors \cup {task[w].attempt} IN
    /\ Working(w, "embed")
    /\ \/ Does(w, [DocOf(w) EXCEPT !.status = "embedding", !.vectors = with],
               At(w, "ready"))
       \/ \E v \in {DocOf(w).vectors, with}, pc \in {"embed", "failed"} :
             Stops(w, [DocOf(w) EXCEPT !.status = "embedding", !.vectors = v],
                   At(w, pc))

MarkReady(w) ==
    /\ Working(w, "ready")
    /\ \/ /\ file' = [file EXCEPT ![task[w].doc].status = "ready"]
          /\ Acknowledged(w) /\ TaskEnds(w)
          /\ UNCHANGED <<base, request, spent>>
       \/ Stops(w, DocOf(w), At(w, "failed"))

-----------------------------------------------------------------------------
(* The deferred part of run, after an error.  Its context outlives the     *)
(* claim; each of its statements may fail and the next one runs all the    *)
(* same.                                                                   *)

FailStep(w, at, doc, next) ==
    /\ Working(w, at)
    /\ file' = [file EXCEPT ![task[w].doc] = doc]
    /\ task' = [task EXCEPT ![w] = next]
    /\ UNCHANGED <<base, holding, uploaded, request>>

MarkFailed(w) ==
    \/ /\ FailStep(w, "failed", [DocOf(w) EXCEPT !.status = "failed"], At(w, "dropVectors"))
       /\ UNCHANGED spent
    \/ FailStep(w, "failed", DocOf(w), At(w, "dropVectors")) /\ SpendFault

DropVectors(w) ==
    \/ /\ FailStep(w, "dropVectors", [DocOf(w) EXCEPT !.vectors = {}], At(w, "dropRows"))
       /\ UNCHANGED spent
    \/ FailStep(w, "dropVectors", DocOf(w), At(w, "dropRows")) /\ SpendFault

DropRows(w) ==
    \/ /\ FailStep(w, "dropRows", [DocOf(w) EXCEPT !.rows = {}], At(w, "dropImages"))
       /\ UNCHANGED spent
    \/ FailStep(w, "dropRows", DocOf(w), At(w, "dropImages")) /\ SpendFault

DropImages(w) ==
    \/ /\ FailStep(w, "dropImages", [DocOf(w) EXCEPT !.image = @ /\ ~task[w].keys],
                   [At(w, "record") EXCEPT !.keys = FALSE])
       /\ UNCHANGED spent
    \/ FailStep(w, "dropImages", DocOf(w), At(w, "record")) /\ SpendFault

(* The whole row, then the lock; the event is not acknowledged. *)
RecordFailure(w) ==
    /\ Working(w, "record")
    /\ \/ /\ file' = [file EXCEPT ![task[w].doc] =
                        [@ EXCEPT !.status = "failed", !.keys = task[w].keys]]
          /\ UNCHANGED spent
       \/ SpendFault /\ UNCHANGED file
    /\ TaskEnds(w)
    /\ UNCHANGED <<base, uploaded, request>>

(* A rebalance, a shutdown or the deadline of twenty minutes cancels the   *)
(* context of the claim; the process of a worker dies and takes the        *)
(* session of the lock with it.                                            *)
Revoke(w) ==
    /\ task[w].pc /= "idle" /\ ~task[w].revoked
    /\ SpendFault
    /\ task' = [task EXCEPT ![w].revoked = TRUE]
    /\ UNCHANGED <<base, file, holding, uploaded, request>>

WorkerDies(w) ==
    /\ task[w].pc /= "idle"
    /\ SpendFault /\ TaskEnds(w)
    /\ UNCHANGED <<base, file, uploaded, request>>

-----------------------------------------------------------------------------
(* Requests of users *)

Answering(c, at) == request[c].pc = at
FileOf(c) == file[request[c].doc]

(* One statement of a request: what it writes and where the request goes. *)
PutsRow(c, doc, pc) ==
    /\ file' = [file EXCEPT ![request[c].doc] = doc]
    /\ request' = [request EXCEPT ![c].pc = pc]
    /\ UNCHANGED <<base, holding, uploaded, task, spent>>

(* The request ends, with an answer or with an error. *)
RequestEnds(c) ==
    /\ request' = [request EXCEPT ![c] = NoRequest]
    /\ Unlocked(request[c].doc, c)
Errs(c) == SpendFault /\ RequestEnds(c) /\ UNCHANGED <<base, uploaded, task>>

(* UploadDocument: the id is new, so its lock is free. *)
Upload(c, d) ==
    /\ base = "active" /\ file[d].status = "unborn"
    /\ request[c].pc = "idle" /\ spent.requests < MaxRequests
    /\ spent' = [spent EXCEPT !.requests = @ + 1]
    /\ request' = [request EXCEPT ![c] = [NoRequest EXCEPT !.pc = "put", !.doc = d]]
    /\ file' = [file EXCEPT ![d].status = "none"]
    /\ Locked(d, c)
    /\ UNCHANGED <<base, uploaded, task>>

PutOriginal(c) ==
    /\ Answering(c, "put")
    /\ \/ PutsRow(c, [FileOf(c) EXCEPT !.original = TRUE], "create")
       \/ \E stored \in BOOLEAN :
             /\ file' = [file EXCEPT ![request[c].doc].original = stored]
             /\ Errs(c)

(* Create locks the row of the base: it commits before a deletion starts   *)
(* or it fails.                                                            *)
CreateDocument(c) ==
    /\ Answering(c, "create")
    /\ \/ base = "active" /\ PutsRow(c, [FileOf(c) EXCEPT !.status = "pending"], "send")
       \/ base /= "active" /\ PutsRow(c, FileOf(c), "unput")
       \/ /\ SpendFault
          /\ request' = [request EXCEPT ![c].pc = "unput"]
          /\ UNCHANGED <<base, file, holding, uploaded, task>>

RemoveUpload(c) ==
    /\ Answering(c, "unput")
    /\ \/ /\ file' = [file EXCEPT ![request[c].doc].original = FALSE]
          /\ RequestEnds(c)
          /\ UNCHANGED <<base, uploaded, task, spent>>
       \/ Errs(c) /\ UNCHANGED file

(* Shared by UploadDocument and RetryDocument.  An event whose Send failed *)
(* may still arrive.                                                       *)
SendEvent(c) ==
    LET sent == [uploaded EXCEPT ![request[c].doc] = @ + 1] IN
    /\ Answering(c, "send")
    /\ \/ /\ uploaded' = sent
          /\ RequestEnds(c)
          /\ UNCHANGED <<base, file, task, spent>>
       \/ /\ SpendFault
          /\ uploaded' \in {uploaded, sent}
          /\ request' = [request EXCEPT ![c].pc = "unsend"]
          /\ UNCHANGED <<base, file, holding, task>>

MarkUnsent(c) ==
    /\ Answering(c, "unsend")
    /\ \/ /\ file' = [file EXCEPT ![request[c].doc].status = "failed"]
          /\ RequestEnds(c)
          /\ UNCHANGED <<base, uploaded, task, spent>>
       \/ Errs(c) /\ UNCHANGED file

(* RetryDocument and DeleteDocument look at the document again under its   *)
(* lock; the base is read before the document is reset.                    *)
AskFor(c, d, pc) ==
    /\ HasRow(d)
    /\ request[c].pc = "idle" /\ spent.requests < MaxRequests
    /\ spent' = [spent EXCEPT !.requests = @ + 1]
    /\ request' = [request EXCEPT ![c] = [NoRequest EXCEPT !.pc = pc, !.doc = d]]
    /\ UNCHANGED <<base, file, holding, uploaded, task>>
Retry(c, d) == AskFor(c, d, "retry")
DeleteDocument(c, d) == AskFor(c, d, "delete")

Retryable(d) == file[d].status = "failed" /\ base = "active"
Deletable(d) == file[d].status \in EndStates

UnderLock(c, at, allowed, pc) ==
    LET d == request[c].doc IN
    /\ Answering(c, at) /\ LockFree(d)
    /\ \/ /\ allowed /\ Locked(d, c)
          /\ request' = [request EXCEPT ![c].pc = pc]
       \/ /\ ~allowed /\ RequestEnds(c)
    /\ UNCHANGED <<base, file, uploaded, task, spent>>
RetryLocked(c) == UnderLock(c, "retry", Retryable(request[c].doc), "reset")
DeleteLocked(c) == UnderLock(c, "delete", Deletable(request[c].doc), "invalidate")

ResetDocument(c) ==
    /\ Answering(c, "reset")
    /\ \/ PutsRow(c, [FileOf(c) EXCEPT !.status = "pending"], "send")
       \/ Errs(c) /\ UNCHANGED file

(* UpdateKB never touches a base that is being deleted. *)
UpdateBase ==
    /\ base \in {"active", "inactive"}
    /\ base' \in {"active", "inactive"} \ {base}
    /\ UNCHANGED <<file, holding, uploaded, task, request, spent>>

(* DeleteKB: mark the base, empty it, drop it.  It may fail midway and be  *)
(* called again.                                                           *)
DeleteBase(c) ==
    /\ base /= "gone" /\ base' = "deleting"
    /\ request[c].pc = "idle" /\ spent.requests < MaxRequests
    /\ spent' = [spent EXCEPT !.requests = @ + 1]
    /\ request' = [request EXCEPT ![c] = [NoRequest EXCEPT !.pc = "list", !.whole = TRUE]]
    /\ UNCHANGED <<file, holding, uploaded, task>>

ListDocuments(c) ==
    /\ Answering(c, "list")
    /\ \/ /\ \A d \in Documents : ~HasRow(d)
          /\ request' = [request EXCEPT ![c].pc = "drop"]
          /\ UNCHANGED spent
       \/ /\ \E d \in Documents :
                /\ HasRow(d)
                /\ request' = [request EXCEPT ![c].pc = "next", ![c].doc = d]
          /\ UNCHANGED spent
       \/ SpendFault /\ request' = [request EXCEPT ![c] = NoRequest]
    /\ UNCHANGED <<base, file, holding, uploaded, task>>

NextLocked(c) ==
    LET d == request[c].doc IN
    /\ Answering(c, "next") /\ LockFree(d)
    /\ \/ /\ HasRow(d) /\ Locked(d, c)
          /\ request' = [request EXCEPT ![c].pc = "invalidate"]
       \/ /\ ~HasRow(d)
          /\ request' = [request EXCEPT ![c].pc = "list"]
          /\ UNCHANGED holding
    /\ UNCHANGED <<base, file, uploaded, task, spent>>

(* The foreign key of documents refuses to drop a base that has some. *)
DropBase(c) ==
    /\ Answering(c, "drop")
    /\ \/ /\ base' = IF \E d \in Documents : HasRow(d) THEN base ELSE "gone"
          /\ UNCHANGED spent
       \/ SpendFault /\ UNCHANGED base
    /\ request' = [request EXCEPT ![c] = NoRequest]
    /\ UNCHANGED <<file, holding, uploaded, task>>

-----------------------------------------------------------------------------
(* deleteDocumentData: one store after the other, the row last.  The first *)
(* error ends it; what is left can be deleted again.                       *)

Removal(c, at, doc, pc) ==
    /\ Answering(c, at)
    /\ \/ PutsRow(c, doc, pc)
       \/ Errs(c) /\ UNCHANGED file

Invalidate(c) == Removal(c, "invalidate", [FileOf(c) EXCEPT !.status = "failed"], "rows")
RemoveRows(c) == Removal(c, "rows", [FileOf(c) EXCEPT !.rows = {}], "vectors")
RemoveVectors(c) == Removal(c, "vectors", [FileOf(c) EXCEPT !.vectors = {}], "images")
RemoveImages(c) ==
    Removal(c, "images", [FileOf(c) EXCEPT !.image = @ /\ ~FileOf(c).keys], "original")
RemoveOriginal(c) ==
    Removal(c, "original", [FileOf(c) EXCEPT !.original = FALSE], "row")

RemoveDocument(c) ==
    /\ Answering(c, "row")
    /\ \/ /\ file' = [file EXCEPT ![request[c].doc] =
                        [@ EXCEPT !.status = "gone", !.rows = {}, !.keys = FALSE]]
          /\ request' = [request EXCEPT ![c] =
                IF @.whole THEN [@ EXCEPT !.pc = "list"] ELSE NoRequest]
          /\ Unlocked(request[c].doc, c)
          /\ UNCHANGED <<base, uploaded, task, spent>>
       \/ Errs(c) /\ UNCHANGED file

CallerDies(c) ==
    /\ request[c].pc /= "idle"
    /\ SpendFault /\ RequestEnds(c)
    /\ UNCHANGED <<base, file, uploaded, task>>

-----------------------------------------------------------------------------

IngestStep(w) ==
    \/ \E d \in Documents : TakeEvent(w, d)
    \/ RunNothing(w) \/ RunStarts(w) \/ RunAbandoned(w)
    \/ ClearVectors(w) \/ ClearRows(w) \/ ClearImages(w)
    \/ Parse(w) \/ PersistKeys(w) \/ StoreImages(w)
    \/ ReplaceChunks(w) \/ CreateParents(w) \/ CreateChildren(w) \/ CountChunks(w)
    \/ InsertVectors(w) \/ MarkReady(w)
    \/ MarkFailed(w) \/ DropVectors(w) \/ DropRows(w) \/ DropImages(w)
    \/ RecordFailure(w)
    \/ Revoke(w) \/ WorkerDies(w)

RequestStep(c) ==
    \/ \E d \in Documents : Upload(c, d) \/ Retry(c, d) \/ DeleteDocument(c, d)
    \/ PutOriginal(c) \/ CreateDocument(c) \/ RemoveUpload(c)
    \/ SendEvent(c) \/ MarkUnsent(c)
    \/ RetryLocked(c) \/ ResetDocument(c) \/ DeleteLocked(c)
    \/ DeleteBase(c) \/ ListDocuments(c) \/ NextLocked(c) \/ DropBase(c)
    \/ Invalidate(c) \/ RemoveRows(c) \/ RemoveVectors(c) \/ RemoveImages(c)
    \/ RemoveOriginal(c) \/ RemoveDocument(c)
    \/ CallerDies(c)

IngestNext ==
    \/ \E w \in Ingesters : IngestStep(w)
    \/ \E c \in Callers : RequestStep(c)
    \/ UpdateBase

IngestSpec == IngestInit /\ [][IngestNext]_ingestVars

-----------------------------------------------------------------------------
(* Properties *)

(* A document that answers queries has the chunks of one attempt, all of   *)
(* them, and the vectors of exactly these chunks: whatever earlier         *)
(* attempts, crashes and half-done deletions left behind is gone before    *)
(* MarkReady, and nothing shrinks a document that is still ready.          *)
ReadyIsExact == \A d \in Documents :
    file[d].status = "ready" =>
        \E a \in 1 .. Attempts : file[d].rows = ChunksOf(a) /\ file[d].vectors = {a}

(* Once the row of a document is deleted no store holds anything of it,    *)
(* and nothing that was still at work on it ever brings something back;    *)
(* a base is dropped only when every one of its documents is.              *)
DeletedLeavesNothing ==
    /\ \A d \in Documents : file[d].status = "gone" =>
          /\ file[d].rows = {} /\ file[d].vectors = {}
          /\ ~file[d].image /\ ~file[d].original
    /\ base = "gone" => \A d \in Documents : ~HasRow(d)
=============================================================================
