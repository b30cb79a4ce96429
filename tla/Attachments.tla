---------------------------- MODULE Attachments ----------------------------
(***************************************************************************)
(* A heavy file on its way: the uploader (web/lib/attachments.ts), the     *)
(* opaque chunk store (attachments.controller.ts) and the device that      *)
(* loads the file and keeps a copy (useAttachment.ts, attachments.ts).     *)
(*                                                                         *)
(* Every HTTP request is retried, and an attempt the client gave up on may *)
(* still be running on the server: attempts are members of requests until  *)
(* their last statement is done, and the client listens only to the newest *)
(* attempt of an operation it waits for.  A handler that reads and then    *)
(* writes does so in two steps.  Encryption, progress and the sizes of     *)
(* chunks are abstracted: all files are of one size, Room of which fit the *)
(* owner's quota.                                                          *)
(***************************************************************************)
EXTENDS Integers, FiniteSets

CONSTANTS
    Chunks,       \* chunks of the file
    MaxAttempts,  \* attempts of one request (MAX_ATTEMPTS)
    Lanes,        \* requests of the pool in flight (CONCURRENCY)
    Room,         \* files that still fit the quota (MAX_OWNER_STORED_BYTES)
    Bubble        \* mounted views of the message on the receiving device

ASSUME AttachmentAssumption ==
    /\ Chunks \in Nat \ {0}
    /\ MaxAttempts \in Nat \ {0}
    /\ Lanes \in Nat \ {0}
    /\ Room \in Nat

VARIABLES
    file,      \* the Attachment row made by each attempt of the create request
    stored,    \* its chunk rows
    requests,  \* attempts the server has not finished with
    overlap,   \* two creates were between sum and write together (auxiliary)
    upload,    \* uploadAttachment: phase, id, chunks done, failure of the pool
    attempt,   \* the last attempt of each operation
    waiting,   \* operations whose answer the client waits for
    load,      \* the shared load of the message's file
    parts,     \* chunks decrypted by that load
    local,     \* the copy in the blob store is there
    post,      \* the message on the receiving device
    bubble,    \* useAttachment's status in each view
    raced      \* a load was under way when the copy was dropped, or started
               \* before the view was refreshed (auxiliary)

storeVars == <<file, stored, requests, overlap>>
uploadVars == <<upload, attempt, waiting>>
loadVars == <<load, parts, local, post, bubble, raced>>
attachVars == <<storeVars, uploadVars, loadVars>>

Chunk == 1 .. Chunks
Create == 0
Complete == Chunks + 1
Op == Create .. Complete
Attempt == 1 .. MaxAttempts

Request == [op : Op, n : Attempt, at : {"sent", "found", "checked"}]
Fresh(op, n) == [op |-> op, n |-> n, at |-> "sent"]

Phases == {"idle", "creating", "sending", "completing",
           "done", "failed", "rejected", "cancelled"}

AttachTypeOK ==
    /\ file \in [Attempt -> {"none", "open", "complete", "purged"}]
    /\ stored \in [Attempt -> SUBSET Chunk]
    /\ requests \subseteq Request
    /\ overlap \in BOOLEAN
    /\ upload \in [phase : Phases, id : {0} \cup Attempt, done : SUBSET Chunk,
                   failure : {"", "failed", "rejected"}]
    /\ attempt \in [Op -> {0} \cup Attempt]
    /\ waiting \subseteq Op
    /\ load \in {"none", "looking", "fetching", "failing", "storing"}
    /\ parts \subseteq Chunk
    /\ local \in BOOLEAN
    /\ post \in {"none", "there", "deleting", "dropped", "gone"}
    /\ bubble \in [Bubble -> {"unmounted", "checking", "idle", "downloading", "ready", "error"}]
    /\ raced \in BOOLEAN

AttachInit ==
    /\ file = [n \in Attempt |-> "none"]
    /\ stored = [n \in Attempt |-> {}]
    /\ requests = {}
    /\ overlap = FALSE
    /\ upload = [phase |-> "idle", id |-> 0, done |-> {}, failure |-> ""]
    /\ attempt = [op \in Op |-> 0]
    /\ waiting = {}
    /\ load = "none"
    /\ parts = {}
    /\ local = FALSE
    /\ post = "none"
    /\ bubble = [b \in Bubble |-> "unmounted"]
    /\ raced = FALSE

-----------------------------------------------------------------------------
(* The uploader.  Succeed and GiveUp are what an answer does to the client;*)
(* the requests the server keeps are rest.                                 *)

Busy == upload.phase \in {"creating", "sending", "completing"}

\* The client still listens to the attempt r.
Live(r) == r.op \in waiting /\ attempt[r.op] = r.n

\* Puts the first attempts of ops on the wire, next to rest.
Start(ops, rest) ==
    /\ attempt' = [op \in Op |-> IF op \in ops THEN 1 ELSE attempt[op]]
    /\ requests' = rest \cup {Fresh(op, 1) : op \in ops}

\* handleFileSelected with a file too large to travel in the message.
PickFile ==
    /\ upload.phase = "idle"
    /\ upload' = [upload EXCEPT !.phase = "creating"]
    /\ waiting' = {Create}
    /\ Start({Create}, requests)
    /\ UNCHANGED <<file, stored, overlap, loadVars>>

Untouched == {c \in Chunk : attempt[c] = 0}

\* The chunk the pool hands out next, if any.
NextChunk == {c \in Untouched : \A d \in Untouched : c <= d}

\* The create request was answered: each lane takes a chunk.
Created(r, rest) ==
    LET first == {c \in Chunk : c <= Lanes} IN
    /\ r.op = Create
    /\ upload' = [upload EXCEPT !.phase = "sending", !.id = r.n]
    /\ waiting' = first
    /\ Start(first, rest)

\* A chunk was taken: the lane goes on, unless the pool has failed; the last
\* lane to end lets runPool return or throw.
ChunkTaken(r, rest) ==
    LET done == upload.done \cup {r.op}
        more == IF upload.failure = "" THEN NextChunk ELSE {}
        left == (waiting \ {r.op}) \cup more IN
    /\ r.op \in Chunk
    /\ \/ /\ left # {}
          /\ upload' = [upload EXCEPT !.done = done]
          /\ waiting' = left
          /\ Start(more, rest)
       \/ /\ left = {} /\ upload.failure = ""
          /\ upload' = [upload EXCEPT !.done = done, !.phase = "completing"]
          /\ waiting' = {Complete}
          /\ Start({Complete}, rest)
       \/ /\ left = {} /\ upload.failure # ""
          /\ upload' = [upload EXCEPT !.done = done, !.phase = upload.failure]
          /\ waiting' = {}
          /\ Start({}, rest)

Completed(r, rest) ==
    /\ r.op = Complete
    /\ upload' = [upload EXCEPT !.phase = "done"]
    /\ waiting' = {}
    /\ Start({}, rest)

Succeed(r, rest) == Created(r, rest) \/ ChunkTaken(r, rest) \/ Completed(r, rest)

\* An operation failed for good, for the reason why: its lane ends, and the
\* upload when no other lane is left.
GiveUp(op, why, rest) ==
    LET first == IF upload.failure = "" THEN why ELSE upload.failure
        left == waiting \ {op} IN
    /\ upload' = [upload EXCEPT !.failure = first,
                                !.phase = IF left = {} THEN first ELSE @]
    /\ waiting' = left
    /\ requests' = rest
    /\ UNCHANGED attempt

\* Mutation: when the attempts are used up nobody is told.
RetryNoEnd(op, rest) ==
    /\ attempt' = [attempt EXCEPT ![op] = IF @ < MaxAttempts THEN @ + 1 ELSE @]
    /\ requests' = IF attempt[op] < MaxAttempts THEN rest \cup {Fresh(op, attempt[op] + 1)} ELSE rest
    /\ UNCHANGED <<upload, waiting>>

\* A network error, a 408, 429 or 5xx: the next attempt after a pause.
Retry(op, rest) ==
    \/ /\ attempt[op] < MaxAttempts
       /\ attempt' = [attempt EXCEPT ![op] = @ + 1]
       /\ requests' = rest \cup {Fresh(op, attempt[op] + 1)}
       /\ UNCHANGED <<upload, waiting>>
    \/ /\ attempt[op] = MaxAttempts
       /\ GiveUp(op, "failed", rest)

\* The server answers the attempt r: 2xx, 5xx, or an error a retry cannot mend.
\* An answer nobody listens to is dropped.
Answer(r, status) ==
    LET rest == requests \ {r} IN
    \/ ~Live(r) /\ requests' = rest /\ UNCHANGED uploadVars
    \/ Live(r) /\ status = "ok" /\ Succeed(r, rest)
    \/ Live(r) /\ status = "5xx" /\ Retry(r.op, rest)
    \/ Live(r) /\ status = "404" /\ GiveUp(r.op, "failed", rest)
    \/ Live(r) /\ status \in {"409", "413"}
       /\ GiveUp(r.op, IF status = "409" THEN "rejected" ELSE "failed", rest)

\* The connection drops: the attempt may have reached the server or not.
LoseAttempt(op) ==
    /\ op \in waiting
    /\ \E rest \in {requests, {r \in requests : ~Live(r) \/ r.op # op}} : Retry(op, rest)
    /\ UNCHANGED <<file, stored, overlap, loadVars>>

\* The user cancels: every pending fetch is aborted.
CancelUpload ==
    /\ Busy
    /\ upload' = [upload EXCEPT !.phase = "cancelled"]
    /\ waiting' = {}
    /\ UNCHANGED <<attempt, storeVars, loadVars>>

-----------------------------------------------------------------------------
(* The server. *)

Rows == {n \in Attempt : file[n] \in {"open", "complete"}}

\* Mutation: a file fits when the quota is just used up.
CheckQuotaLoose(r) ==
    /\ r \in requests /\ r.op = Create /\ r.at = "sent"
    /\ Cardinality(Rows) <= Room
    /\ requests' = (requests \ {r}) \cup {[r EXCEPT !.at = "checked"]}
    /\ overlap' = (overlap \/ \E q \in requests : q.op = Create /\ q.at = "checked")
    /\ UNCHANGED <<uploadVars, file, stored, loadVars>>

\* createAttachment sums what the owner has stored ...
CheckQuota(r) ==
    /\ r \in requests /\ r.op = Create /\ r.at = "sent"
    /\ \/ /\ Cardinality(Rows) < Room
          /\ requests' = (requests \ {r}) \cup {[r EXCEPT !.at = "checked"]}
          /\ overlap' = (overlap \/ \E q \in requests : q.op = Create /\ q.at = "checked")
          /\ UNCHANGED uploadVars
       \/ /\ Cardinality(Rows) >= Room
          /\ Answer(r, "413")
          /\ UNCHANGED overlap
    /\ UNCHANGED <<file, stored, loadVars>>

\* ... and then adds the row.
CreateRow(r) ==
    /\ r \in requests /\ r.op = Create /\ r.at = "checked"
    /\ file' = [file EXCEPT ![r.n] = "open"]
    /\ Answer(r, "ok")
    /\ UNCHANGED <<stored, overlap, loadVars>>

Target == upload.id

\* putChunk looks the attachment up ...
FindForChunk(r) ==
    /\ r \in requests /\ r.op \in Chunk /\ r.at = "sent"
    /\ \/ /\ file[Target] = "open"
          /\ requests' = (requests \ {r}) \cup {[r EXCEPT !.at = "checked"]}
          /\ UNCHANGED uploadVars
       \/ file[Target] = "complete" /\ Answer(r, "409")
       \/ file[Target] = "purged" /\ Answer(r, "404")
    /\ UNCHANGED <<file, stored, overlap, loadVars>>

\* ... and writes the chunk, whatever has become of the attachment; the foreign
\* key refuses it when the row is gone.
PutChunk(r) ==
    /\ r \in requests /\ r.op \in Chunk /\ r.at = "checked"
    /\ \/ /\ file[Target] # "purged"
          /\ stored' = [stored EXCEPT ![Target] = @ \cup {r.op}]
          /\ Answer(r, "ok")
       \/ /\ file[Target] = "purged"
          /\ Answer(r, "5xx")
          /\ UNCHANGED stored
    /\ UNCHANGED <<file, overlap, loadVars>>

\* Mutation: a complete attachment is refused, as a chunk for it is.
FindForCompleteOnce(r) ==
    /\ r \in requests /\ r.op = Complete /\ r.at = "sent"
    /\ \/ /\ file[Target] = "open"
          /\ requests' = (requests \ {r}) \cup {[r EXCEPT !.at = "found"]}
          /\ UNCHANGED uploadVars
       \/ file[Target] = "complete" /\ Answer(r, "409")
       \/ file[Target] = "purged" /\ Answer(r, "404")
    /\ UNCHANGED <<file, stored, overlap, loadVars>>

\* completeAttachment: find, count the chunks, update.
FindForComplete(r) ==
    /\ r \in requests /\ r.op = Complete /\ r.at = "sent"
    /\ \/ /\ file[Target] # "purged"
          /\ requests' = (requests \ {r}) \cup {[r EXCEPT !.at = "found"]}
          /\ UNCHANGED uploadVars
       \/ file[Target] = "purged" /\ Answer(r, "404")
    /\ UNCHANGED <<file, stored, overlap, loadVars>>

CountChunks(r) ==
    /\ r \in requests /\ r.op = Complete /\ r.at = "found"
    /\ \/ /\ stored[Target] = Chunk
          /\ requests' = (requests \ {r}) \cup {[r EXCEPT !.at = "checked"]}
          /\ UNCHANGED uploadVars
       \/ stored[Target] # Chunk /\ Answer(r, "409")
    /\ UNCHANGED <<file, stored, overlap, loadVars>>

MarkComplete(r) ==
    /\ r \in requests /\ r.op = Complete /\ r.at = "checked"
    /\ \/ /\ file[Target] # "purged"
          /\ file' = [file EXCEPT ![Target] = "complete"]
          /\ Answer(r, "ok")
       \/ /\ file[Target] = "purged"
          /\ Answer(r, "5xx")
          /\ UNCHANGED file
    /\ UNCHANGED <<stored, overlap, loadVars>>

\* purgeExpiredAttachments: an upload abandoned for an hour, a file of 14 days.
PurgeFile(n) ==
    /\ n \in Rows
    /\ file' = [file EXCEPT ![n] = "purged"]
    /\ stored' = [stored EXCEPT ![n] = {}]
    /\ UNCHANGED <<requests, overlap, uploadVars, loadVars>>

Serve(r) ==
    \/ CheckQuota(r) \/ CreateRow(r)
    \/ FindForChunk(r) \/ PutChunk(r)
    \/ FindForComplete(r) \/ CountChunks(r) \/ MarkComplete(r)

-----------------------------------------------------------------------------
(* The receiving device. *)

\* The message with the reference has arrived.
ReceiveFile ==
    /\ upload.phase = "done" /\ post = "none"
    /\ post' = "there"
    /\ UNCHANGED <<storeVars, uploadVars, load, parts, local, bubble, raced>>

Mount(b) ==
    /\ post \in {"there", "deleting", "dropped"} /\ bubble[b] = "unmounted"
    /\ bubble' = [bubble EXCEPT ![b] = "checking"]
    /\ UNCHANGED <<storeVars, uploadVars, load, parts, local, post, raced>>

Unmount(b) ==
    /\ bubble[b] # "unmounted"
    /\ bubble' = [bubble EXCEPT ![b] = "unmounted"]
    /\ UNCHANGED <<storeVars, uploadVars, load, parts, local, post, raced>>

\* ensure: joins the load under way or starts one.
Ensure(b) ==
    /\ bubble' = [bubble EXCEPT ![b] = "downloading"]
    /\ load' = IF load = "none" THEN "looking" ELSE load
    /\ parts' = IF load = "none" THEN {} ELSE parts
    /\ raced' = (raced \/ post = "dropped")

\* The effect on mount: the local copy, an automatic download, or a tap to come.
CheckCache(b) ==
    /\ bubble[b] = "checking"
    /\ \/ /\ local
          /\ bubble' = [bubble EXCEPT ![b] = "ready"]
          /\ UNCHANGED <<load, parts, raced>>
       \/ ~local /\ Ensure(b)
       \/ /\ ~local
          /\ bubble' = [bubble EXCEPT ![b] = "idle"]
          /\ UNCHANGED <<load, parts, raced>>
    /\ UNCHANGED <<storeVars, uploadVars, local, post>>

TapFile(b) ==
    /\ bubble[b] \in {"idle", "error"}
    /\ Ensure(b)
    /\ UNCHANGED <<storeVars, uploadVars, local, post>>

\* The load is over: inflight.delete, and every view that waits is told.
LoadEnds(status) ==
    /\ load' = "none"
    /\ bubble' = [b \in Bubble |-> IF bubble[b] = "downloading" THEN status ELSE bubble[b]]
    /\ UNCHANGED parts

LookUp ==
    /\ load = "looking"
    /\ \/ local /\ LoadEnds("ready")
       \/ ~local /\ load' = "fetching" /\ UNCHANGED <<parts, bubble>>
    /\ UNCHANGED <<storeVars, uploadVars, local, post, raced>>

\* getChunk serves the chunks of a complete attachment only.
FetchChunk(c) ==
    /\ load = "fetching" /\ c \in Chunk \ parts
    /\ \/ /\ file[Target] = "complete" /\ c \in stored[Target]
          /\ parts' = parts \cup {c}
          /\ load' = IF parts' = Chunk THEN "storing" ELSE load
       \/ /\ file[Target] # "complete" \/ c \notin stored[Target]
          /\ load' = "failing"
          /\ UNCHANGED parts
    /\ UNCHANGED <<storeVars, uploadVars, local, post, bubble, raced>>

\* The retries of a chunk are used up.
FetchFails ==
    /\ load = "fetching"
    /\ load' = "failing"
    /\ UNCHANGED <<storeVars, uploadVars, parts, local, post, bubble, raced>>

\* The other lanes have ended: the load rejects.
LoadFails ==
    /\ load = "failing"
    /\ LoadEnds("error")
    /\ UNCHANGED <<storeVars, uploadVars, local, post, raced>>

\* cacheFile: the copy is kept unless the storage is full.
StoreCopy ==
    /\ load = "storing"
    /\ local' \in {local, TRUE}
    /\ LoadEnds("ready")
    /\ UNCHANGED <<storeVars, uploadVars, post, raced>>

\* handleDeleteMessage: the message, then its copy, then the view.
DeletePost ==
    /\ post = "there"
    /\ post' = "deleting"
    /\ UNCHANGED <<storeVars, uploadVars, load, parts, local, bubble, raced>>

\* Mutation: the copy is deleted only if a view shows it.
DropCopyIfShown ==
    /\ post = "deleting"
    /\ post' = "dropped"
    /\ local' = (local /\ \A b \in Bubble : bubble[b] # "ready")
    /\ raced' = (load # "none")
    /\ UNCHANGED <<storeVars, uploadVars, load, parts, bubble>>

DropCopy ==
    /\ post = "deleting"
    /\ post' = "dropped"
    /\ local' = FALSE
    /\ raced' = (load # "none")
    /\ UNCHANGED <<storeVars, uploadVars, load, parts, bubble>>

RefreshView ==
    /\ post = "dropped"
    /\ post' = "gone"
    /\ bubble' = [b \in Bubble |-> "unmounted"]
    /\ UNCHANGED <<storeVars, uploadVars, load, parts, local, raced>>

Load == LookUp \/ (\E c \in Chunk : FetchChunk(c)) \/ LoadFails \/ StoreCopy
Deletion == DropCopy \/ RefreshView

-----------------------------------------------------------------------------
AttachNext ==
    \/ PickFile
    \/ \E op \in Op : LoseAttempt(op)
    \/ CancelUpload
    \/ \E r \in requests : Serve(r)
    \/ \E n \in Attempt : PurgeFile(n)
    \/ ReceiveFile
    \/ \E b \in Bubble : Mount(b) \/ Unmount(b) \/ CheckCache(b) \/ TapFile(b)
    \/ Load
    \/ FetchFails
    \/ DeletePost
    \/ Deletion

AttachSpec == AttachInit /\ [][AttachNext]_attachVars

\* The server works on, and the browser's own steps happen; users are not fair.
AttachFairness ==
    /\ WF_attachVars(\E r \in requests : Serve(r))
    /\ WF_attachVars(Load)
    /\ WF_attachVars(Deletion)

-----------------------------------------------------------------------------
(* What must hold. *)

\* The owner's stored files stay within the quota, unless two creates were
\* between their sum and their write together: the retry of a create whose
\* first attempt is still running is enough for that.
QuotaHeld == Cardinality(Rows) > Room => overlap

\* The uploader is told that its upload is finished already, or not complete
\* yet, only if the purge took it: it finishes after the last chunk was
\* acknowledged, and no chunk it still waits for can find the attachment
\* finished, however late the abandoned attempts of either request arrive.
RejectedOnlyIfPurged == upload.failure = "rejected" => file[upload.id] = "purged"

\* The copy of a deleted message is gone, unless a load of the file was under
\* way when the copy was dropped, or a view that was still on screen asked again.
CopyDropped == (post = "gone" /\ local) => raced

\* The chunk store keeps the promise of BlobStore although a chunk is written
\* without another look at the file, a file is completed after its chunks were
\* counted, and attempts that were given up arrive late: a file is complete only
\* with all its chunks, it does not change then, and no load reads of another.
Blobs == INSTANCE BlobStore WITH
    Name <- Attempt, Piece <- Chunk,
    state <- file, pieces <- stored, read <- {<<Target, c>> : c \in parts}

WriteOnce == Blobs!Spec

\* Every upload comes to an end, and so does every load a view waits for.
TransfersEnd ==
    /\ Busy ~> ~Busy
    /\ load # "none" ~> load = "none"
=============================================================================
