------------------------- MODULE AttachmentsProofs --------------------------
(*****************************************************************************)
(* Theorems about Attachments, for any number of chunks, attempts, lanes     *)
(* and views, and any room in the quota.                                     *)
(*****************************************************************************)
EXTENDS Attachments, FiniteSetTheorems, TLAPS

-----------------------------------------------------------------------------
(* Uploads and copies.                                                       *)

Failure == {"", "failed", "rejected"}
UploadRecord == [phase : Phases, id : {0} \cup Attempt, done : SUBSET Chunk, failure : Failure]

-----------------------------------------------------------------------------
(* The quota. *)

\* Creates between their sum and their write.
Summed == {r \in requests : r.op = Create /\ r.at = "checked"}

\* As long as no two of them have met there is room for the one there is.
QuotaKept ==
    ~overlap =>
        /\ \A q, r \in Summed : q = r
        /\ Cardinality(Rows) <= Room
        /\ Summed # {} => Cardinality(Rows) < Room

\* What an answer, a retry or a failure leaves among the requests: no create that
\* was not there, but for one that is still to sum.
NoNewSum(rest) == \A q \in requests' : q \in rest \/ q.at = "sent"

\* The operations are the create, the chunks and the completion, all different.
LEMMA OpKinds ==
  /\ Create \notin Chunk /\ Complete \notin Chunk /\ Create # Complete
  /\ Op = {Create, Complete} \cup Chunk
  /\ Create \in Op /\ Complete \in Op /\ Chunk \subseteq Op
BY AttachmentAssumption DEF Create, Complete, Chunk, Op

\* First attempts have only been sent.
LEMMA StartsSent ==
  ASSUME NEW ops, NEW rest, Start(ops, rest)
  PROVE  NoNewSum(rest)
BY DEF Start, NoNewSum, Fresh

\* So has the attempt a retry makes.
LEMMA RetriesSent ==
  ASSUME NEW op, NEW rest, Retry(op, rest)
  PROVE  NoNewSum(rest)
BY DEF Retry, GiveUp, NoNewSum, Fresh

\* And whatever else an answer leads to.
LEMMA AnswersOnWire ==
  ASSUME NEW r, NEW status, Answer(r, status)
  PROVE  NoNewSum(requests \ {r})
<1> DEFINE rest == requests \ {r}
<1>1. CASE requests' = rest
  BY <1>1 DEF NoNewSum
<1>2. CASE Succeed(r, rest)
  <2> HIDE DEF rest
  <2>1. \E ops : Start(ops, rest)
    BY <1>2 DEF Succeed, Created, ChunkTaken, Completed
  <2>2. NoNewSum(rest)
    BY <2>1, StartsSent
  <2>3. QED BY <2>2 DEF rest
<1>3. CASE Retry(r.op, rest)
  BY <1>3, RetriesSent
<1>4. CASE \E why : GiveUp(r.op, why, rest)
  BY <1>4 DEF GiveUp, NoNewSum
<1>5. QED
  BY <1>1, <1>2, <1>3, <1>4 DEF Answer

\* Rows are finitely many, and their number is a number.
LEMMA RowsCount ==
  ASSUME AttachTypeOK
  PROVE  /\ IsFiniteSet(Rows) /\ Cardinality(Rows) \in Nat
         /\ \A n \in Attempt : /\ Cardinality(Rows \cup {n}) <= Cardinality(Rows) + 1
                               /\ Cardinality(Rows \ {n}) <= Cardinality(Rows)
<1>1. IsFiniteSet(Attempt)
  BY AttachmentAssumption, FS_Interval DEF Attempt
<1>2. IsFiniteSet(Rows)
  BY <1>1, FS_Subset DEF Rows
<1>3. Cardinality(Rows) \in Nat
  BY <1>2, FS_CardinalityType
<1>4. ASSUME NEW n \in Attempt
      PROVE  /\ Cardinality(Rows \cup {n}) <= Cardinality(Rows) + 1
             /\ Cardinality(Rows \ {n}) <= Cardinality(Rows)
  <2>1. Cardinality(Rows \cup {n}) = IF n \in Rows THEN Cardinality(Rows) ELSE Cardinality(Rows) + 1
    BY <1>2, FS_AddElement
  <2>2. Cardinality(Rows \cup {n}) <= Cardinality(Rows) + 1
    BY <1>3, <2>1
  <2>3. Rows \ {n} \in SUBSET Rows
    OBVIOUS
  <2>4. Cardinality(Rows \ {n}) <= Cardinality(Rows)
    BY <1>2, <2>3, FS_Subset
  <2>5. QED BY <2>2, <2>4
<1>5. QED BY <1>2, <1>3, <1>4

\* A step that adds no row and no create with its sum made keeps the quota.
LEMMA NoNewRows ==
  ASSUME AttachTypeOK, QuotaKept, Rows' \subseteq Rows, Summed' \subseteq Summed, overlap' = overlap,
         Cardinality(Rows') <= Cardinality(Rows), Cardinality(Rows') \in Nat
  PROVE  QuotaKept'
<1>1. Cardinality(Rows) \in Nat
  BY RowsCount
<1>2. QED
  BY <1>1, AttachmentAssumption DEF QuotaKept

\* A create whose sum is made becomes a row.
LEMMA CreateRowQuota ==
  ASSUME AttachTypeOK, QuotaKept, NEW r \in requests, CreateRow(r), IsFiniteSet(Rows')
  PROVE  QuotaKept'
<1>1. r \in Summed /\ r.n \in Attempt
  BY DEF CreateRow, Summed, AttachTypeOK, Request
<1>2. Rows' = Rows \cup {r.n}
  BY <1>1 DEF CreateRow, Rows, AttachTypeOK
<1>3. NoNewSum(requests \ {r})
  BY AnswersOnWire DEF CreateRow
<1>4. Summed' \subseteq Summed \ {r}
  BY <1>3 DEF Summed, NoNewSum
<1>5. Cardinality(Rows') <= Cardinality(Rows) + 1 /\ Cardinality(Rows) \in Nat
  BY <1>1, <1>2, RowsCount
<1>6. Cardinality(Rows') \in Nat
  BY FS_CardinalityType
<1>7. overlap' = overlap
  BY DEF CreateRow
<1>8. QED
  <2> SUFFICES ASSUME ~overlap
               PROVE  /\ \A q, s \in Summed' : q = s
                      /\ Cardinality(Rows') <= Room
                      /\ Summed' # {} => Cardinality(Rows') < Room
    BY <1>7 DEF QuotaKept
  <2>1. Summed' = {} /\ Cardinality(Rows) < Room
    BY <1>1, <1>4 DEF QuotaKept
  <2>2. QED BY <1>5, <1>6, <2>1, AttachmentAssumption

\* A sum that leaves room; another one that was made already is noted.
LEMMA CheckQuotaQuota ==
  ASSUME AttachTypeOK, QuotaKept, NEW r \in requests, CheckQuota(r)
  PROVE  QuotaKept'
<1>1. Rows' = Rows /\ Cardinality(Rows) \in Nat
  BY RowsCount DEF CheckQuota, Rows
<1>2. CASE Cardinality(Rows) < Room /\ UNCHANGED uploadVars
  <2>1. r \in Request
    BY DEF AttachTypeOK
  <2> DEFINE next == [r EXCEPT !.at = "checked"]
  <2>0. ~(Cardinality(Rows) >= Room)
    BY <1>1, <1>2, AttachmentAssumption
  <2>2. /\ requests' = (requests \ {r}) \cup {next}
        /\ overlap' = (overlap \/ \E q \in requests : q.op = Create /\ q.at = "checked")
    BY <2>0, Zenon DEF CheckQuota
  <2> HIDE DEF next
  <2>3. ~overlap' => Summed' \subseteq {next}
    BY <2>2 DEF Summed
  <2>4. ~overlap' => ~overlap
    BY <2>2
  <2>5. QED BY <1>1, <1>2, <2>3, <2>4, AttachmentAssumption DEF QuotaKept
<1>3. CASE Answer(r, "413") /\ UNCHANGED overlap
  <2>1. Summed' \subseteq Summed
    BY <1>3, AnswersOnWire DEF NoNewSum, Summed
  <2>2. QED BY <1>1, <1>3, <2>1, AttachmentAssumption DEF QuotaKept
<1>4. QED BY <1>2, <1>3 DEF CheckQuota

-----------------------------------------------------------------------------
(* The uploader. *)

\* What the client waits for in each phase.
ClientOK ==
    /\ upload.phase = "idle" => \A op \in Op : attempt[op] = 0
    /\ upload.phase \in {"idle", "creating"} => upload.id = 0 /\ upload.failure = ""
    /\ upload.phase = "creating" => waiting = {Create}
    /\ upload.phase = "sending" => waiting \subseteq Chunk /\ upload.id # 0 /\ attempt[Complete] = 0
    /\ upload.phase = "completing" =>
        waiting = {Complete} /\ upload.id # 0 /\ upload.done = Chunk /\ upload.failure = ""
    /\ ~Busy => waiting = {}
    /\ upload.id = 0 => upload.done = {} /\ \A op \in Op \ {Create} : attempt[op] = 0
    /\ \A op \in waiting : attempt[op] # 0

\* The pool hands chunks out in order, and does not forget one it handed out.
HandedOut ==
    upload.phase = "sending" =>
        /\ \E k \in 0 .. Chunks : \A c \in Chunk : attempt[c] = 0 <=> c > k
        /\ upload.failure = "" => \A c \in Chunk : attempt[c] # 0 => c \in waiting \cup upload.done

\* Attempts are numbered; the one that made the upload's row is over.
WireOK ==
    /\ \A r \in requests : r.n <= attempt[r.op]
    /\ \A q, r \in requests : q.op = r.op /\ q.n = r.n => q = r
    /\ \A r \in requests : r.op = Create => r.n # upload.id

\* What the server has of the upload: every chunk that was acknowledged, and not
\* completed before completion was asked for -- or nothing, after the purge.
StoreOK ==
    /\ upload.id # 0 => /\ file[upload.id] # "none"
                        /\ upload.done \subseteq stored[upload.id] \/ file[upload.id] = "purged"
    /\ \A n \in Attempt : file[n] = "complete" => attempt[Complete] # 0
    /\ upload.failure = "rejected" => upload.id # 0 /\ file[upload.id] = "purged"

UploadOK == ClientOK /\ HandedOut /\ WireOK

\* The row a create request makes.
RowAdded(r) == {n \in {r.n} : r.op = Create}

\* What a step of the client may do to what StoreOK speaks of, new being the chunk
\* it takes for acknowledged, and ids the row it is given, if any.
Carries(new, ids) ==
    /\ \/ upload'.id = upload.id /\ upload'.done \subseteq upload.done \cup new
       \/ upload.id = 0 /\ upload'.id \in ids /\ upload'.done = {}
    /\ attempt[Complete] # 0 => attempt'[Complete] # 0
    /\ upload'.failure = "rejected" => upload.failure = "rejected"

\* The part of the type invariant that the client's steps disturb.
WireType ==
    /\ requests' \subseteq Request
    /\ upload' \in UploadRecord
    /\ attempt' \in [Op -> {0} \cup Attempt]
    /\ waiting' \subseteq Op

\* The types, with attempts as the numbers they are.
LEMMA AttachTypes ==
  ASSUME AttachTypeOK
  PROVE  /\ upload \in UploadRecord
         /\ attempt \in [Op -> {0} \cup Attempt]
         /\ waiting \subseteq Op
         /\ requests \subseteq Request
         /\ \A n \in Attempt : n \in Nat /\ n >= 1 /\ n # 0
         /\ 1 \in Attempt
         /\ \A op \in Op : attempt[op] \in Nat
         /\ \A r \in requests : r.op \in Op /\ r.n \in Attempt
<1>1. /\ \A n \in Attempt : n \in Nat /\ n >= 1 /\ n # 0
      /\ 1 \in Attempt
  BY AttachmentAssumption DEF Attempt
<1>2. \A r \in requests : r.op \in Op /\ r.n \in Attempt
  BY DEF AttachTypeOK, Request
<1>3. ASSUME NEW op \in Op PROVE attempt[op] \in Nat
  <2>1. attempt[op] \in {0} \cup Attempt
    BY DEF AttachTypeOK
  <2>2. QED BY <1>1, <2>1
<1>4. QED
  BY <1>1, <1>2, <1>3 DEF AttachTypeOK, UploadRecord, Failure

\* First attempts are of their type.
LEMMA StartType ==
  ASSUME AttachTypeOK, NEW ops \in SUBSET Op, NEW rest \in SUBSET requests, Start(ops, rest)
  PROVE  requests' \subseteq Request /\ attempt' \in [Op -> {0} \cup Attempt]
<1>1. \A op \in ops : Fresh(op, 1) \in Request
  BY AttachTypes DEF Fresh, Request
<1>2. requests' \subseteq Request
  BY <1>1, AttachTypes DEF Start
<1>3. attempt' \in [Op -> {0} \cup Attempt]
  BY AttachTypes DEF Start
<1>4. QED BY <1>2, <1>3

\* First attempts of operations that were not tried yet.
LEMMA StartWire ==
  ASSUME AttachTypeOK, WireOK, NEW ops \in SUBSET Op, NEW rest \in SUBSET requests, Start(ops, rest),
         \A op \in ops : attempt[op] = 0,
         upload'.id = upload.id \/ \A r \in rest : r.op = Create => r.n # upload'.id,
         Create \in ops => upload'.id = 0
  PROVE  WireOK'
<1>1. \A r \in rest : r.op \in Op /\ r.n \in Nat /\ r.n >= 1 /\ r.op \notin ops /\ r.n <= attempt[r.op]
  <2>1. \A r \in rest : r \in requests /\ r.op \in Op /\ r.n \in Nat /\ r.n >= 1 /\ r.n <= attempt[r.op]
    BY AttachTypes DEF WireOK
  <2>2. QED BY <2>1
<1>2. \A r \in requests' : \/ r \in rest
                           \/ r.op \in ops /\ r = Fresh(r.op, 1) /\ r.n = 1
  BY DEF Start, Fresh
<1>3. \A r \in requests' : r.n <= attempt'[r.op]
  BY <1>1, <1>2 DEF Start, WireOK
<1>4. \A q, r \in requests' : q.op = r.op /\ q.n = r.n => q = r
  BY <1>1, <1>2 DEF WireOK
<1>5. \A r \in requests' : r.op = Create => r.n # upload'.id
  BY <1>1, <1>2 DEF WireOK
<1>6. QED BY <1>3, <1>4, <1>5 DEF WireOK

\* The create was answered.
LEMMA CreatedStep ==
  ASSUME AttachTypeOK, UploadOK, NEW r \in requests, Live(r), Created(r, requests \ {r})
  PROVE  UploadOK' /\ WireType /\ Carries({}, {r.n})
<1> DEFINE first == {c \in Chunk : c <= Lanes}
<1> USE OpKinds DEF UploadOK
<1>1. /\ r.op = Create /\ Create \in waiting /\ r.n \in Attempt /\ r.n # 0
      /\ upload' = [upload EXCEPT !.phase = "sending", !.id = r.n]
      /\ waiting' = first /\ Start(first, requests \ {r})
  BY AttachTypes DEF Created, Live
<1>2. upload \in UploadRecord
  BY AttachTypes
<1>3. upload.phase = "creating"
  BY <1>1, <1>2 DEF ClientOK, Busy, UploadRecord
<1>4. /\ upload.id = 0 /\ upload.failure = "" /\ upload.done = {}
      /\ \A op \in Op \ {Create} : attempt[op] = 0
  BY <1>3 DEF ClientOK
<1>5. /\ upload' \in UploadRecord /\ upload'.phase = "sending" /\ upload'.id = r.n
      /\ upload'.done = {} /\ upload'.failure = ""
  BY <1>1, <1>2, <1>4 DEF UploadRecord, Phases
<1>6. first \subseteq Chunk
  OBVIOUS
<1>7. \A op \in Op : attempt'[op] = IF op \in first THEN 1 ELSE attempt[op]
  <2> HIDE DEF first
  <2>1. QED BY <1>1 DEF Start
<1> HIDE DEF first
<1>8. ClientOK'
  <2>1. attempt'[Complete] = 0
    BY <1>4, <1>6, <1>7
  <2>2. \A op \in waiting' : attempt'[op] # 0
    BY <1>1, <1>6, <1>7
  <2>3. QED BY <1>1, <1>5, <1>6, <2>1, <2>2 DEF ClientOK, Busy
<1>9. HandedOut'
  <2> DEFINE k == IF Lanes < Chunks THEN Lanes ELSE Chunks
  <2>1. k \in 0 .. Chunks
    BY AttachmentAssumption
  <2>2. \A c \in Chunk : attempt'[c] = 0 <=> c > k
    <3>1. \A c \in Chunk : attempt'[c] = IF c \in first THEN 1 ELSE 0
      BY <1>4, <1>7
    <3>2. \A c \in Chunk : c \in first <=> ~(c > k)
      BY AttachmentAssumption DEF first, Chunk
    <3>3. QED BY <3>1, <3>2
  <2>3. \A c \in Chunk : attempt'[c] # 0 => c \in waiting'
    BY <1>1, <1>4, <1>7
  <2>4. QED BY <2>1, <2>2, <2>3 DEF HandedOut
<1>10. WireOK'
  <2>1. \A q \in requests \ {r} : q.op = Create => q.n # r.n
    BY <1>1 DEF WireOK
  <2>2. QED BY <1>1, <1>4, <1>5, <1>6, <2>1, StartWire
<1>11. WireType
  BY <1>1, <1>5, <1>6, StartType DEF WireType
<1>12. Carries({}, {r.n})
  BY <1>1, <1>4, <1>5, <1>6, <1>7 DEF Carries
<1>13. QED BY <1>8, <1>9, <1>10, <1>11, <1>12

\* What the pool hands out next, when k chunks are handed out.
LEMMA NextChunkIs ==
  ASSUME NEW k \in 0 .. Chunks, \A c \in Chunk : attempt[c] = 0 <=> c > k
  PROVE  NextChunk = {c \in Chunk : c = k + 1}
<1>1. \A c \in Chunk : c \in Untouched <=> c > k
  BY DEF Untouched
<1>2. \A c \in Chunk : c \in Int /\ c <= Chunks
  BY AttachmentAssumption DEF Chunk
<1>3. k < Chunks => k + 1 \in Chunk
  BY AttachmentAssumption DEF Chunk
<1>4. Untouched \subseteq Chunk
  BY DEF Untouched
<1>5. ASSUME NEW c \in Chunk, c = k + 1 PROVE c \in NextChunk
  BY <1>1, <1>2, <1>4, <1>5 DEF NextChunk
<1>6. ASSUME NEW c \in NextChunk PROVE c = k + 1
  <2>1. c \in Chunk /\ c > k /\ \A d \in Untouched : c <= d
    BY <1>1, <1>4 DEF NextChunk
  <2>2. k < Chunks
    BY <1>2, <2>1, AttachmentAssumption
  <2>3. k + 1 \in Chunk /\ k + 1 > k
    BY <1>3, <2>2
  <2>4. k + 1 \in Untouched
    BY <1>1, <2>3
  <2>5. QED BY <1>2, <2>1, <2>4
<1>7. NextChunk \subseteq Chunk
  BY <1>4 DEF NextChunk
<1>8. QED BY <1>5, <1>6, <1>7

\* A chunk was taken.
LEMMA ChunkTakenStep ==
  ASSUME AttachTypeOK, UploadOK, NEW r \in requests, Live(r), ChunkTaken(r, requests \ {r})
  PROVE  UploadOK' /\ WireType /\ Carries({r.op}, {})
<1> DEFINE done == upload.done \cup {r.op}
           more == IF upload.failure = "" THEN NextChunk ELSE {}
           left == (waiting \ {r.op}) \cup more
           rest == requests \ {r}
<1> USE OpKinds DEF UploadOK
<1>1. r.op \in Chunk /\ r.op \in waiting
  BY DEF ChunkTaken, Live
<1>2. upload \in UploadRecord /\ waiting \subseteq Op /\ rest \in SUBSET requests
  BY AttachTypes
<1>3. upload.phase = "sending"
  BY <1>1, <1>2 DEF ClientOK, Busy, UploadRecord
<1>4. waiting \subseteq Chunk /\ upload.id # 0 /\ attempt[Complete] = 0 /\ \A op \in waiting : attempt[op] # 0
  BY <1>3 DEF ClientOK
<1>5. PICK k \in 0 .. Chunks : \A c \in Chunk : attempt[c] = 0 <=> c > k
  BY <1>3 DEF HandedOut
<1>6. more \subseteq {c \in Chunk : c = k + 1} /\ (upload.failure = "" => more = {c \in Chunk : c = k + 1})
  BY <1>5, NextChunkIs
<1>7. done \subseteq Chunk /\ left \subseteq Chunk /\ more \subseteq left
  BY <1>1, <1>2, <1>4, <1>6 DEF UploadRecord
<1>8. upload.failure = "" => \A c \in Chunk : attempt[c] # 0 => c \in waiting \cup upload.done
  BY <1>3 DEF HandedOut
<1>9. \A c \in more : c \in Op /\ attempt[c] = 0
  <2>1. k + 1 > k
    BY <1>5, AttachmentAssumption
  <2>2. \A c \in more : c \in Chunk /\ c = k + 1
    BY <1>6
  <2>3. QED BY <1>5, <2>1, <2>2
<1>10. CASE left # {}
  <2>1. /\ upload' = [upload EXCEPT !.done = done]
        /\ waiting' = left
        /\ Start(more, rest)
    BY <1>10 DEF ChunkTaken
  <2> HIDE DEF done, more, left, rest
  <2>2. \A op \in Op : attempt'[op] = IF op \in more THEN 1 ELSE attempt[op]
    BY <2>1 DEF Start
  <2>3. /\ upload' \in UploadRecord /\ upload'.phase = "sending" /\ upload'.id = upload.id
        /\ upload'.done = done /\ upload'.failure = upload.failure
    BY <1>2, <1>3, <1>7, <2>1 DEF UploadRecord
  <2>4. ClientOK'
    <3>1. attempt'[Complete] = 0
      BY <1>4, <1>6, <2>2
    <3>2. \A op \in waiting' : attempt'[op] # 0
      BY <1>4, <1>7, <2>1, <2>2 DEF left
    <3>3. QED BY <1>4, <1>7, <2>1, <2>3, <3>1, <3>2 DEF ClientOK, Busy
  <2>5. HandedOut'
    <3>1. \E i \in 0 .. Chunks : \A c \in Chunk : attempt'[c] = 0 <=> c > i
      <4>1. CASE more = {}
        BY <1>5, <2>2, <4>1
      <4>2. CASE more # {}
        <5>1. k + 1 \in more /\ k + 1 \in Chunk /\ k + 1 \in 0 .. Chunks
          <6>1. k + 1 \in more /\ k + 1 \in Chunk
            BY <1>6, <4>2
          <6>2. QED BY <1>5, <6>1, AttachmentAssumption DEF Chunk
        <5>2. \A c \in Chunk : attempt'[c] = IF c = k + 1 THEN 1 ELSE attempt[c]
          BY <1>6, <2>2, <5>1
        <5>3. \A c \in Chunk : attempt'[c] = 0 <=> c > k + 1
          BY <1>5, <5>1, <5>2, AttachmentAssumption DEF Chunk
        <5>4. QED BY <5>1, <5>3
      <4>3. QED BY <4>1, <4>2
    <3>2. upload'.failure = "" => \A c \in Chunk : attempt'[c] # 0 => c \in waiting' \cup upload'.done
      BY <1>8, <2>1, <2>2, <2>3 DEF left, done
    <3>3. QED BY <3>1, <3>2 DEF HandedOut
  <2>6. WireOK'
    BY <1>2, <1>6, <1>7, <1>9, <2>1, <2>3, StartWire
  <2>7. WireType
    BY <1>2, <1>7, <2>1, <2>3, StartType DEF WireType
  <2>8. Carries({r.op}, {})
    BY <1>4, <2>3 DEF Carries, done
  <2>9. QED BY <2>4, <2>5, <2>6, <2>7, <2>8
<1>11. CASE left = {} /\ upload.failure = ""
  <2>1. /\ upload' = [upload EXCEPT !.done = done, !.phase = "completing"]
        /\ waiting' = {Complete} /\ Start({Complete}, rest)
    BY <1>11 DEF ChunkTaken
  <2>2. done = Chunk
    <3>1. waiting \subseteq {r.op} /\ \A c \in Chunk : c # k + 1
      BY <1>6, <1>11
    <3>2. k = Chunks
      BY <3>1, AttachmentAssumption DEF Chunk
    <3>3. \A c \in Chunk : attempt[c] # 0
      BY <1>5, <3>2, AttachmentAssumption DEF Chunk
    <3>4. QED BY <1>7, <1>8, <1>11, <3>1, <3>3
  <2> HIDE DEF done, more, left, rest
  <2>3. \A op \in Op : attempt'[op] = IF op = Complete THEN 1 ELSE attempt[op]
    BY <2>1 DEF Start
  <2>4. /\ upload' \in UploadRecord /\ upload'.phase = "completing" /\ upload'.id = upload.id
        /\ upload'.done = Chunk /\ upload'.failure = ""
    BY <1>2, <1>11, <2>1, <2>2 DEF UploadRecord, Phases
  <2>5. attempt'[Complete] # 0
    BY <2>3
  <2>6. ClientOK' /\ HandedOut'
    BY <1>4, <2>1, <2>4, <2>5 DEF ClientOK, HandedOut, Busy
  <2>7. WireOK'
    <3>1. /\ {Complete} \in SUBSET Op /\ \A op \in {Complete} : attempt[op] = 0
          /\ Create \notin {Complete}
      BY <1>4
    <3>2. QED BY <1>2, <2>1, <2>4, <3>1, StartWire
  <2>8. WireType
    BY <1>2, <2>1, <2>4, StartType DEF WireType
  <2>9. Carries({r.op}, {})
    BY <2>2, <2>4, <2>5 DEF Carries, done
  <2>10. QED BY <2>6, <2>7, <2>8, <2>9
<1>12. CASE left = {} /\ upload.failure # ""
  <2>1. /\ upload' = [upload EXCEPT !.done = done, !.phase = upload.failure]
        /\ waiting' = {} /\ Start({}, rest)
    BY <1>12 DEF ChunkTaken
  <2> HIDE DEF done, more, left, rest
  <2>2. attempt' = attempt
    BY <2>1, AttachTypes DEF Start
  <2>3. /\ upload' \in UploadRecord /\ upload'.phase \in {"failed", "rejected"} /\ upload'.id = upload.id
        /\ upload'.done = done /\ upload'.failure = upload.failure
    BY <1>2, <1>7, <1>12, <2>1 DEF UploadRecord, Phases, Failure
  <2>4. ClientOK' /\ HandedOut'
    BY <1>4, <2>1, <2>2, <2>3 DEF ClientOK, HandedOut, Busy
  <2>5. WireOK'
    BY <1>2, <2>1, <2>3, StartWire
  <2>6. WireType
    BY <1>2, <2>1, <2>3, StartType DEF WireType
  <2>7. Carries({r.op}, {})
    BY <2>2, <2>3 DEF Carries, done
  <2>8. QED BY <2>4, <2>5, <2>6, <2>7
<1>13. QED BY <1>10, <1>11, <1>12

\* The upload is complete.
LEMMA CompletedStep ==
  ASSUME AttachTypeOK, UploadOK, NEW r \in requests, Live(r), Completed(r, requests \ {r})
  PROVE  UploadOK' /\ WireType /\ Carries({}, {})
<1> USE OpKinds DEF UploadOK
<1>1. /\ r.op = Complete /\ Complete \in waiting
      /\ upload' = [upload EXCEPT !.phase = "done"] /\ waiting' = {} /\ Start({}, requests \ {r})
  BY DEF Completed, Live
<1>2. upload \in UploadRecord
  BY AttachTypes
<1>3. upload.phase = "completing"
  BY <1>1, <1>2 DEF ClientOK, Busy, UploadRecord
<1>4. attempt' = attempt
  BY <1>1, AttachTypes DEF Start
<1>5. /\ upload' \in UploadRecord /\ upload'.phase = "done" /\ upload'.id = upload.id
      /\ upload'.done = upload.done /\ upload'.failure = upload.failure
  BY <1>1, <1>2 DEF UploadRecord, Phases
<1>6. ClientOK' /\ HandedOut'
  BY <1>1, <1>3, <1>4, <1>5 DEF ClientOK, HandedOut, Busy
<1>7. WireOK'
  BY <1>1, <1>5, StartWire
<1>8. WireType
  BY <1>1, <1>5, StartType DEF WireType
<1>9. Carries({}, {})
  BY <1>4, <1>5 DEF Carries
<1>10. QED BY <1>6, <1>7, <1>8, <1>9

\* An operation failed for good.
LEMMA GiveUpStep ==
  ASSUME AttachTypeOK, UploadOK, NEW op \in waiting, NEW why \in {"failed", "rejected"},
         NEW rest \in SUBSET requests, GiveUp(op, why, rest)
  PROVE  /\ UploadOK' /\ WireType
         /\ upload'.id = upload.id /\ upload'.done = upload.done /\ attempt' = attempt
         /\ upload'.failure = "rejected" => upload.failure = "rejected" \/ why = "rejected"
<1> DEFINE first == IF upload.failure = "" THEN why ELSE upload.failure
           left == waiting \ {op}
<1> USE OpKinds DEF UploadOK
<1>1. /\ upload \in UploadRecord /\ requests \subseteq Request
      /\ attempt \in [Op -> {0} \cup Attempt] /\ waiting \subseteq Op
  BY AttachTypes
<1>2. /\ upload' = [upload EXCEPT !.failure = first, !.phase = IF left = {} THEN first ELSE @]
      /\ waiting' = left /\ requests' = rest /\ attempt' = attempt
  BY DEF GiveUp
<1>3. first \in {"failed", "rejected"} /\ first \in Phases /\ first \in Failure /\ first # ""
  BY <1>1 DEF UploadRecord, Failure, Phases
<1>4. first = "rejected" => upload.failure = "rejected" \/ why = "rejected"
  OBVIOUS
<1> HIDE DEF first
<1>5. /\ upload' \in UploadRecord /\ upload'.phase = IF left = {} THEN first ELSE upload.phase
      /\ upload'.id = upload.id /\ upload'.done = upload.done /\ upload'.failure = first
  BY <1>1, <1>2, <1>3 DEF UploadRecord
<1>6. upload.phase \in {"creating", "sending", "completing"}
  BY DEF ClientOK, Busy
<1>7. ClientOK'
  <2>1. CASE left = {}
    BY <1>2, <1>3, <1>5, <1>6, <2>1 DEF ClientOK, Busy
  <2>2. CASE left # {}
    <3>1. upload.phase = "sending"
      BY <1>6, <2>2 DEF ClientOK
    <3>2. QED BY <1>2, <1>3, <1>5, <2>2, <3>1 DEF ClientOK, Busy
  <2>3. QED BY <2>1, <2>2
<1>8. HandedOut'
  BY <1>2, <1>3, <1>5 DEF HandedOut
<1>9. WireOK'
  BY <1>2, <1>5 DEF WireOK
<1>10. WireType
  BY <1>1, <1>2, <1>5 DEF WireType
<1>11. QED BY <1>2, <1>4, <1>5, <1>7, <1>8, <1>9, <1>10

\* An operation is tried again, or was tried often enough.
LEMMA RetryStep ==
  ASSUME AttachTypeOK, UploadOK, NEW op \in waiting, NEW rest \in SUBSET requests, Retry(op, rest)
  PROVE  UploadOK' /\ WireType /\ Carries({}, {})
<1> USE OpKinds DEF UploadOK
<1>1. CASE GiveUp(op, "failed", rest)
  <2>1. /\ UploadOK' /\ WireType
        /\ upload'.id = upload.id /\ upload'.done = upload.done /\ attempt' = attempt
        /\ upload'.failure = "rejected" => upload.failure = "rejected"
    BY <1>1, GiveUpStep
  <2>2. QED BY <2>1 DEF Carries
<1>2. CASE /\ attempt[op] < MaxAttempts
           /\ attempt' = [attempt EXCEPT ![op] = @ + 1]
           /\ requests' = rest \cup {Fresh(op, attempt[op] + 1)}
           /\ UNCHANGED <<upload, waiting>>
  <2> DEFINE n == attempt[op] + 1
  <2>1. op \in Op /\ attempt[op] \in Nat /\ attempt[op] # 0 /\ n \in Attempt /\ n # 0 /\ n > attempt[op]
    <3>1. op \in Op /\ attempt[op] \in Nat /\ attempt[op] # 0
      BY AttachTypes DEF ClientOK
    <3>2. QED BY <1>2, <3>1, AttachmentAssumption DEF Attempt
  <2>2. /\ upload' = upload /\ waiting' = waiting
        /\ requests' = rest \cup {Fresh(op, n)}
        /\ \A o \in Op : attempt'[o] = IF o = op THEN n ELSE attempt[o]
        /\ attempt' \in [Op -> {0} \cup Attempt]
    BY <1>2, <2>1, AttachTypes
  <2> HIDE DEF n
  <2>3. \A o \in Op : attempt'[o] = 0 <=> attempt[o] = 0
    BY <2>1, <2>2
  <2>4. ClientOK'
    BY <2>2, <2>3, AttachTypes DEF ClientOK, Busy
  <2>5. HandedOut'
    BY <2>2, <2>3 DEF HandedOut
  <2>6. WireOK'
    <3>1. /\ Fresh(op, n).op = op /\ Fresh(op, n).n = n
          /\ \A r \in rest : r \in requests /\ r.op \in Op /\ r.n \in Nat /\ r.n <= attempt[r.op]
      BY AttachTypes DEF Fresh, WireOK
    <3>2. \A r \in rest : r.op = op => r.n # n
      BY <2>1, <3>1
    <3>3. \A r \in requests' : r.n <= attempt'[r.op]
      <4>1. \A r \in rest : r.n <= attempt'[r.op]
        <5>1. ASSUME NEW r \in rest, r.op = op PROVE r.n <= attempt'[r.op]
          <6>1. r.n <= attempt[op] /\ attempt'[op] = n /\ n \in Nat
            BY <2>1, <2>2, <3>1, <5>1, AttachTypes
          <6>2. QED BY <2>1, <3>1, <5>1, <6>1
        <5>2. QED BY <2>2, <3>1, <5>1
      <4>2. n <= attempt'[op]
        BY <2>1, <2>2, AttachTypes
      <4>3. QED BY <2>2, <3>1, <4>1, <4>2
    <3>4. \A q, r \in requests' : q.op = r.op /\ q.n = r.n => q = r
      BY <2>2, <3>1, <3>2 DEF WireOK
    <3>5. \A r \in requests' : r.op = Create => r.n # upload'.id
      <4>1. op = Create => upload.id = 0
        BY DEF ClientOK, Busy
      <4>2. QED BY <2>1, <2>2, <3>1, <4>1 DEF WireOK
    <3>6. QED BY <3>3, <3>4, <3>5 DEF WireOK
  <2>7. Fresh(op, n) \in Request
    BY <2>1 DEF Fresh, Request
  <2>8. WireType
    BY <2>2, <2>7, AttachTypes DEF WireType
  <2>9. Carries({}, {})
    BY <2>2, <2>3 DEF Carries
  <2>10. QED BY <2>4, <2>5, <2>6, <2>8, <2>9
<1>3. QED BY <1>1, <1>2 DEF Retry

\* The server answers with anything but a conflict.
LEMMA UploadAnswerStep ==
  ASSUME AttachTypeOK, UploadOK, NEW r \in requests, NEW status \in {"ok", "5xx", "404", "413"},
         Answer(r, status)
  PROVE  UploadOK' /\ WireType /\ Carries({r.op} \cap Chunk, RowAdded(r)) /\ (status # "ok" => Carries({}, {}))
<1> DEFINE rest == requests \ {r}
<1>0. rest \in SUBSET requests
  OBVIOUS
<1>1. CASE ~Live(r) /\ requests' = rest /\ UNCHANGED uploadVars
  <2>1. UploadOK'
    BY <1>1 DEF UploadOK, ClientOK, HandedOut, WireOK, Busy, uploadVars
  <2>2. WireType /\ Carries({}, {})
    BY <1>1, AttachTypes DEF WireType, Carries, uploadVars
  <2>3. QED BY <2>1, <2>2 DEF Carries
<1>2. CASE Live(r) /\ status = "ok" /\ Succeed(r, rest)
  <2>1. CASE Created(r, rest)
    <3>1. RowAdded(r) = {r.n}
      BY <2>1 DEF Created, RowAdded
    <3>2. QED BY <1>2, <2>1, <3>1, CreatedStep DEF Carries
  <2>2. CASE ChunkTaken(r, rest)
    <3>1. {r.op} \cap Chunk = {r.op} /\ RowAdded(r) = {}
      BY <2>2, OpKinds DEF ChunkTaken, RowAdded
    <3>2. QED BY <1>2, <2>2, <3>1, ChunkTakenStep
  <2>3. CASE Completed(r, rest)
    BY <1>2, <2>3, CompletedStep DEF Carries
  <2>4. QED BY <1>2, <2>1, <2>2, <2>3 DEF Succeed
<1>3. CASE Live(r) /\ Retry(r.op, rest)
  <2>1. r.op \in waiting
    BY <1>3 DEF Live
  <2>2. UploadOK' /\ WireType /\ Carries({}, {})
    BY <1>0, <1>3, <2>1, RetryStep
  <2>3. QED BY <2>2 DEF Carries
<1>4. CASE Live(r) /\ GiveUp(r.op, "failed", rest)
  <2>1. r.op \in waiting
    BY <1>4 DEF Live
  <2>2. /\ UploadOK' /\ WireType
        /\ upload'.id = upload.id /\ upload'.done = upload.done /\ attempt' = attempt
        /\ upload'.failure = "rejected" => upload.failure = "rejected"
    BY <1>0, <1>4, <2>1, GiveUpStep
  <2>3. QED BY <2>2 DEF Carries
<1>5. QED BY <1>1, <1>2, <1>3, <1>4 DEF Answer

\* A handler goes on to its next statement.
Advances(r) ==
    /\ \E at \in {"found", "checked"} : requests' = (requests \ {r}) \cup {[r EXCEPT !.at = at]}
    /\ UNCHANGED uploadVars

\* The client knows nothing of a handler that goes on.
LEMMA AdvanceStep ==
  ASSUME AttachTypeOK, UploadOK, NEW r \in requests, Advances(r)
  PROVE  UploadOK' /\ WireType /\ Carries({}, {})
<1>1. PICK at \in {"found", "checked"} : requests' = (requests \ {r}) \cup {[r EXCEPT !.at = at]}
  BY DEF Advances
<1>2. upload' = upload /\ attempt' = attempt /\ waiting' = waiting
  BY DEF Advances, uploadVars
<1> DEFINE next == [r EXCEPT !.at = at]
<1>3. next \in Request /\ next.op = r.op /\ next.n = r.n
  BY AttachTypes DEF Request
<1>4. requests' = (requests \ {r}) \cup {next}
  BY <1>1
<1> HIDE DEF next
<1>5. ClientOK' /\ HandedOut'
  BY <1>2 DEF UploadOK, ClientOK, HandedOut, Busy
<1>6. WireOK'
  BY <1>2, <1>3, <1>4 DEF UploadOK, WireOK
<1>7. WireType /\ Carries({}, {})
  BY <1>2, <1>3, <1>4, AttachTypes DEF WireType, Carries
<1>8. QED BY <1>5, <1>6, <1>7 DEF UploadOK

\* A conflict is told to a client that still listens only after the purge: a chunk
\* it waits for cannot find the attachment finished, nor the end a chunk missing.
LEMMA ConflictStep ==
  ASSUME AttachTypeOK, UploadOK, StoreOK, NEW r \in requests, Answer(r, "409"),
         \/ r.op \in Chunk /\ file[upload.id] = "complete"
         \/ r.op = Complete /\ stored[upload.id] # Chunk
  PROVE  UploadOK' /\ WireType /\ (Carries({}, {}) \/ (upload.id # 0 /\ file[upload.id] = "purged"
            /\ upload'.id = upload.id /\ upload'.done = upload.done /\ attempt' = attempt))
<1> USE OpKinds
<1>1. CASE ~Live(r) /\ requests' = requests \ {r} /\ UNCHANGED uploadVars
  <2>1. UploadOK'
    BY <1>1 DEF UploadOK, ClientOK, HandedOut, WireOK, Busy, uploadVars
  <2>2. WireType /\ Carries({}, {})
    BY <1>1, AttachTypes DEF WireType, Carries, uploadVars
  <2>3. QED BY <2>1, <2>2
<1>2. CASE Live(r) /\ GiveUp(r.op, "rejected", requests \ {r})
  <2>1. r.op \in waiting /\ upload \in UploadRecord
    BY <1>2, AttachTypes DEF Live
  <2>2. /\ UploadOK' /\ WireType
        /\ upload'.id = upload.id /\ upload'.done = upload.done /\ attempt' = attempt
    BY <1>2, <2>1, GiveUpStep
  <2>3. CASE r.op \in Chunk /\ file[upload.id] = "complete"
    <3>1. upload.phase = "sending"
      BY <2>1, <2>3 DEF UploadOK, ClientOK, Busy
    <3>2. upload.id \in Attempt /\ attempt[Complete] = 0
      BY <2>1, <3>1 DEF UploadOK, ClientOK, UploadRecord
    <3>3. QED BY <2>3, <3>2 DEF StoreOK
  <2>4. CASE r.op = Complete /\ stored[upload.id] # Chunk
    <3>1. upload.phase = "completing"
      BY <2>1, <2>4 DEF UploadOK, ClientOK, Busy
    <3>2. upload.id \in Attempt /\ upload.id # 0 /\ upload.done = Chunk
      BY <2>1, <3>1 DEF UploadOK, ClientOK, UploadRecord
    <3>3. stored[upload.id] \subseteq Chunk
      BY <3>2 DEF AttachTypeOK
    <3>4. file[upload.id] = "purged"
      BY <2>4, <3>2, <3>3 DEF StoreOK
    <3>5. QED BY <2>2, <3>2, <3>4
  <2>5. QED BY <2>3, <2>4
<1>3. QED BY <1>1, <1>2 DEF Answer

\* What the server may do to what StoreOK speaks of.
LEMMA StoreKept ==
  ASSUME AttachTypeOK, StoreOK, NEW new, NEW ids \in SUBSET Attempt, Carries(new, ids),
         \A n \in ids : file'[n] # "none",
         \A n \in Attempt : file'[n] = "complete" => file[n] = "complete" \/ attempt'[Complete] # 0,
         upload.id # 0 => /\ file[upload.id] # "none" => file'[upload.id] # "none"
                          /\ file[upload.id] = "purged" => file'[upload.id] = "purged"
                          /\ \/ file'[upload.id] = "purged"
                             \/ stored[upload.id] \cup new \subseteq stored'[upload.id]
  PROVE  StoreOK'
<1>1. CASE upload'.id = upload.id /\ upload'.done \subseteq upload.done \cup new
  BY <1>1 DEF StoreOK, Carries
<1>2. CASE upload.id = 0 /\ upload'.id \in ids /\ upload'.done = {}
  BY <1>2 DEF StoreOK, Carries
<1>3. QED BY <1>1, <1>2 DEF Carries

-----------------------------------------------------------------------------
(* The copy on the device. *)

\* Once the copy is dropped nothing brings it back but a load that raced with that.
CopyKept ==
    /\ post = "gone" => \A b \in Bubble : bubble[b] = "unmounted"
    /\ post \in {"dropped", "gone"} /\ ~raced => load = "none" /\ ~local

DeviceNext ==
    \/ ReceiveFile
    \/ \E b \in Bubble : Mount(b) \/ Unmount(b) \/ CheckCache(b) \/ TapFile(b)
    \/ Load
    \/ FetchFails
    \/ DeletePost
    \/ Deletion

DeviceType ==
    /\ load \in {"none", "looking", "fetching", "failing", "storing"}
    /\ parts \subseteq Chunk
    /\ local \in BOOLEAN
    /\ post \in {"none", "there", "deleting", "dropped", "gone"}
    /\ bubble \in [Bubble -> {"unmounted", "checking", "idle", "downloading", "ready", "error"}]
    /\ raced \in BOOLEAN

\* The device's steps leave the server and the uploader alone, and keep the copy
\* where it should be.
LEMMA DeviceStep ==
  ASSUME DeviceType, CopyKept, DeviceNext
  PROVE  DeviceType' /\ CopyKept' /\ UNCHANGED <<storeVars, uploadVars>>
<1> USE DEF DeviceType, CopyKept
<1>1. CASE ReceiveFile
  BY <1>1 DEF ReceiveFile
<1>2. ASSUME NEW b \in Bubble, Mount(b) \/ Unmount(b)
      PROVE  DeviceType' /\ CopyKept' /\ UNCHANGED <<storeVars, uploadVars>>
  BY <1>2 DEF Mount, Unmount
<1>3. ASSUME NEW b \in Bubble, CheckCache(b) \/ TapFile(b)
      PROVE  DeviceType' /\ CopyKept' /\ UNCHANGED <<storeVars, uploadVars>>
  <2>1. post # "gone"
    BY <1>3 DEF CheckCache, TapFile
  <2>2. CASE Ensure(b) /\ UNCHANGED <<storeVars, uploadVars, local, post>>
    BY <2>1, <2>2 DEF Ensure
  <2>3. CASE CheckCache(b) /\ ~Ensure(b)
    BY <2>1, <2>3 DEF CheckCache
  <2>4. QED BY <1>3, <2>2, <2>3 DEF CheckCache, TapFile
<1>4. CASE LookUp
  BY <1>4 DEF LookUp, LoadEnds
<1>5. ASSUME NEW c \in Chunk, FetchChunk(c)
      PROVE  DeviceType' /\ CopyKept' /\ UNCHANGED <<storeVars, uploadVars>>
  BY <1>5 DEF FetchChunk
<1>6. CASE FetchFails
  BY <1>6 DEF FetchFails
<1>7. CASE LoadFails
  BY <1>7 DEF LoadFails, LoadEnds
<1>8. CASE StoreCopy
  BY <1>8 DEF StoreCopy, LoadEnds
<1>9. CASE DeletePost
  BY <1>9 DEF DeletePost
<1>10. CASE DropCopy
  BY <1>10 DEF DropCopy
<1>11. CASE RefreshView
  BY <1>11 DEF RefreshView
<1>12. QED
  BY <1>1, <1>2, <1>3, <1>4, <1>5, <1>6, <1>7, <1>8, <1>9, <1>10, <1>11 DEF DeviceNext, Load, Deletion

-----------------------------------------------------------------------------
(* The steps. *)

AIInv == AttachTypeOK /\ QuotaKept /\ UploadOK /\ StoreOK /\ CopyKept

\* The server's rows as their type has them.
StoreType ==
    /\ file \in [Attempt -> {"none", "open", "complete", "purged"}]
    /\ stored \in [Attempt -> SUBSET Chunk]
    /\ overlap \in BOOLEAN

\* The types, by the part of the module they belong to.
LEMMA TypeParts ==
  /\ AttachTypeOK => StoreType /\ DeviceType
  /\ StoreType' /\ WireType /\ DeviceType' => AttachTypeOK'
BY DEF AttachTypeOK, StoreType, DeviceType, WireType, UploadRecord, Failure

\* What a step keeps that leaves the device alone.
LEMMA DeviceKept ==
  ASSUME DeviceType, CopyKept, UNCHANGED loadVars
  PROVE  DeviceType' /\ CopyKept'
BY DEF DeviceType, CopyKept, loadVars

\* What a step keeps that adds no row.
LEMMA QuotaFromRows ==
  ASSUME AttachTypeOK, AttachTypeOK', QuotaKept, Rows' \subseteq Rows, overlap' = overlap,
         \A q \in requests' : q \in requests \/ q.at = "sent" \/ q.op # Create
  PROVE  QuotaKept'
<1>1. IsFiniteSet(Rows) /\ Cardinality(Rows) \in Nat
  BY RowsCount
<1>2. Cardinality(Rows') <= Cardinality(Rows) /\ IsFiniteSet(Rows')
  BY <1>1, FS_Subset
<1>3. Cardinality(Rows') \in Nat
  BY <1>2, FS_CardinalityType
<1>4. Summed' \subseteq Summed
  BY DEF Summed
<1>5. QED BY <1>2, <1>3, <1>4, NoNewRows

\* Each handler keeps what the client and the server know of one another.
LEMMA ServeStep ==
  ASSUME AIInv, NEW r \in requests, Serve(r)
  PROVE  WireType /\ UploadOK' /\ StoreType' /\ StoreOK' /\ UNCHANGED loadVars
<1> USE OpKinds, TypeParts DEF AIInv
<1>0. /\ upload.id # 0 => upload.id \in Attempt
      /\ r.op # Create => upload.id # 0
  <2>1. upload.id # 0 => upload.id \in Attempt
    BY AttachTypes DEF UploadRecord
  <2>2. r.op # Create => attempt[r.op] # 0
    BY AttachTypes DEF UploadOK, WireOK
  <2>3. r.op # Create => upload.id # 0
    BY <2>2, AttachTypes DEF UploadOK, ClientOK
  <2>4. QED BY <2>1, <2>3
<1>1. CASE CheckQuota(r)
  <2>1. UNCHANGED <<file, stored, loadVars>> /\ overlap' \in BOOLEAN
    BY <1>1 DEF CheckQuota, StoreType
  <2>2. UploadOK' /\ WireType /\ Carries({}, {})
    <3>1. Advances(r) \/ Answer(r, "413")
      BY <1>1 DEF CheckQuota, Advances
    <3>2. QED BY <3>1, AdvanceStep, UploadAnswerStep
  <2>3. StoreOK'
    BY <2>1, <2>2, StoreKept
  <2>4. QED BY <2>1, <2>2, <2>3 DEF StoreType
<1>2. CASE CreateRow(r)
  <2>1. /\ file' = [file EXCEPT ![r.n] = "open"] /\ r.op = Create
        /\ Answer(r, "ok") /\ UNCHANGED <<stored, overlap, loadVars>>
    BY <1>2 DEF CreateRow
  <2>2. UploadOK' /\ WireType /\ Carries({r.op} \cap Chunk, RowAdded(r))
    BY <2>1, UploadAnswerStep
  <2>3. Carries({}, {r.n})
    BY <2>1, <2>2 DEF Carries, RowAdded
  <2>4. r.n \in Attempt /\ r.n # upload.id
    BY <2>1, AttachTypes DEF UploadOK, WireOK
  <2>5. StoreType'
    BY <2>1 DEF StoreType
  <2>6. \A n \in Attempt : file'[n] = IF n = r.n THEN "open" ELSE file[n]
    BY <2>1 DEF StoreType
  <2>7. StoreOK'
    BY <1>0, <2>1, <2>3, <2>4, <2>6, StoreKept
  <2>8. QED BY <2>1, <2>2, <2>5, <2>7
<1>3. CASE FindForChunk(r) \/ FindForComplete(r) \/ CountChunks(r)
  <2>1. UNCHANGED <<file, stored, overlap, loadVars>>
    BY <1>3 DEF FindForChunk, FindForComplete, CountChunks
  <2>2. StoreType'
    BY <2>1 DEF StoreType
  <2>3. CASE Advances(r) \/ Answer(r, "404")
    <3>1. UploadOK' /\ WireType /\ Carries({}, {})
      BY <2>3, AdvanceStep, UploadAnswerStep
    <3>2. StoreOK'
      BY <2>1, <3>1, StoreKept
    <3>3. QED BY <2>1, <2>2, <3>1, <3>2
  <2>4. CASE /\ Answer(r, "409")
             /\ \/ r.op \in Chunk /\ file[upload.id] = "complete"
                \/ r.op = Complete /\ stored[upload.id] # Chunk
    <3>1. UploadOK' /\ WireType /\ (Carries({}, {}) \/ (upload.id # 0 /\ file[upload.id] = "purged"
            /\ upload'.id = upload.id /\ upload'.done = upload.done /\ attempt' = attempt))
      BY <2>4, ConflictStep
    <3>2. Carries({}, {}) => StoreOK'
      BY <2>1, StoreKept
    <3>3. upload.id # 0 /\ file[upload.id] = "purged" /\ upload'.id = upload.id /\ attempt' = attempt
             => StoreOK'
      BY <2>1 DEF StoreOK
    <3>4. QED BY <2>1, <2>2, <3>1, <3>2, <3>3
  <2>5. \/ Advances(r) \/ Answer(r, "404")
        \/ r.op \in Chunk /\ file[upload.id] = "complete" /\ Answer(r, "409")
        \/ r.op = Complete /\ stored[upload.id] # Chunk /\ Answer(r, "409")
    BY <1>3 DEF FindForChunk, FindForComplete, CountChunks, Advances, Target
  <2>6. QED BY <2>3, <2>4, <2>5
<1>4. CASE PutChunk(r)
  <2>1. r.op \in Chunk /\ UNCHANGED <<file, overlap, loadVars>> /\ r.op # Create
    BY <1>4 DEF PutChunk
  <2>2. upload.id \in Attempt /\ stored[upload.id] \subseteq Chunk
    BY <1>0, <2>1 DEF StoreType
  <2>3. CASE stored' = [stored EXCEPT ![upload.id] = @ \cup {r.op}] /\ Answer(r, "ok")
    <3>1. UploadOK' /\ WireType /\ Carries({r.op}, {})
      <4>1. {r.op} \cap Chunk = {r.op} /\ RowAdded(r) = {}
        BY <2>1 DEF RowAdded
      <4>2. QED BY <2>3, <4>1, UploadAnswerStep
    <3>2. StoreType' /\ stored'[upload.id] = stored[upload.id] \cup {r.op}
      BY <2>1, <2>2, <2>3 DEF StoreType
    <3>3. StoreOK'
      BY <2>1, <3>1, <3>2, StoreKept
    <3>4. QED BY <2>1, <3>1, <3>2, <3>3
  <2>4. CASE Answer(r, "5xx") /\ UNCHANGED stored
    <3>1. UploadOK' /\ WireType /\ Carries({}, {})
      BY <2>4, UploadAnswerStep
    <3>2. StoreOK'
      BY <2>1, <2>4, <3>1, StoreKept
    <3>3. QED BY <2>1, <2>4, <3>1, <3>2 DEF StoreType
  <2>5. QED BY <1>4, <2>3, <2>4 DEF PutChunk, Target
<1>5. CASE MarkComplete(r)
  <2>1. r.op = Complete /\ r.op # Create /\ UNCHANGED <<stored, overlap, loadVars>>
    BY <1>5 DEF MarkComplete
  <2>2. upload.id \in Attempt /\ attempt[Complete] # 0
    BY <1>0, <2>1, AttachTypes DEF UploadOK, WireOK
  <2>3. CASE file[upload.id] # "purged" /\ file' = [file EXCEPT ![upload.id] = "complete"] /\ Answer(r, "ok")
    <3>1. UploadOK' /\ WireType /\ Carries({r.op} \cap Chunk, RowAdded(r))
      BY <2>3, UploadAnswerStep
    <3>2. Carries({}, {}) /\ attempt'[Complete] # 0
      BY <2>1, <2>2, <3>1 DEF Carries, RowAdded
    <3>3. StoreType'
      BY <2>1, <2>3 DEF StoreType
    <3>4. StoreOK'
      BY <2>1, <2>3, <3>2, StoreKept
    <3>5. QED BY <2>1, <3>1, <3>3, <3>4
  <2>4. CASE Answer(r, "5xx") /\ UNCHANGED file
    <3>1. UploadOK' /\ WireType /\ Carries({}, {})
      BY <2>4, UploadAnswerStep
    <3>2. StoreOK'
      BY <2>1, <2>4, <3>1, StoreKept
    <3>3. QED BY <2>1, <2>4, <3>1, <3>2 DEF StoreType
  <2>5. QED BY <1>5, <2>3, <2>4 DEF MarkComplete, Target
<1>6. QED BY <1>1, <1>2, <1>3, <1>4, <1>5 DEF Serve

\* What the user does to the upload, and the network.
LEMMA ClientStep ==
  ASSUME AIInv, PickFile \/ CancelUpload \/ \E op \in Op : LoseAttempt(op)
  PROVE  WireType /\ UploadOK' /\ StoreOK' /\ UNCHANGED <<file, stored, overlap, loadVars>>
<1> USE OpKinds DEF AIInv
<1>1. CASE PickFile
  <2>1. /\ upload.phase = "idle" /\ upload' = [upload EXCEPT !.phase = "creating"]
        /\ waiting' = {Create} /\ Start({Create}, requests)
        /\ UNCHANGED <<file, stored, overlap, loadVars>>
    BY <1>1 DEF PickFile
  <2>2. /\ upload' \in UploadRecord /\ upload'.phase = "creating" /\ upload'.id = upload.id
        /\ upload'.done = upload.done /\ upload'.failure = upload.failure
    BY <2>1, AttachTypes DEF UploadRecord, Phases
  <2>3. upload.id = 0 /\ upload.failure = "" /\ upload.done = {} /\ \A op \in Op : attempt[op] = 0
    BY <2>1 DEF UploadOK, ClientOK
  <2>4. \A op \in Op : attempt'[op] = IF op = Create THEN 1 ELSE 0
    BY <2>1, <2>3 DEF Start
  <2>5. WireOK'
    <3>1. requests \in SUBSET requests /\ {Create} \in SUBSET Op /\ \A op \in {Create} : attempt[op] = 0
      BY <2>3
    <3>2. QED BY <2>1, <2>2, <2>3, <3>1, StartWire DEF UploadOK
  <2>6. ClientOK' /\ HandedOut'
    <3>1. attempt'[Create] # 0 /\ \A op \in Op \ {Create} : attempt'[op] = 0
      BY <2>4
    <3>2. QED BY <2>1, <2>2, <2>3, <3>1 DEF ClientOK, HandedOut, Busy
  <2>7. WireType
    <3>1. requests \in SUBSET requests /\ {Create} \in SUBSET Op
      OBVIOUS
    <3>2. QED BY <2>1, <2>2, <3>1, StartType DEF WireType
  <2>8. Carries({}, {})
    BY <2>2, <2>3 DEF Carries
  <2>9. StoreOK'
    BY <2>1, <2>8, StoreKept
  <2>10. QED BY <2>1, <2>5, <2>6, <2>7, <2>9 DEF UploadOK
<1>2. CASE CancelUpload
  <2>1. /\ upload' = [upload EXCEPT !.phase = "cancelled"] /\ waiting' = {}
        /\ attempt' = attempt /\ requests' = requests
        /\ UNCHANGED <<file, stored, overlap, loadVars>>
    BY <1>2 DEF CancelUpload, storeVars
  <2>2. /\ upload' \in UploadRecord /\ upload'.phase = "cancelled" /\ upload'.id = upload.id
        /\ upload'.done = upload.done /\ upload'.failure = upload.failure
    BY <2>1, AttachTypes DEF UploadRecord, Phases
  <2>3. UploadOK'
    BY <2>1, <2>2 DEF UploadOK, ClientOK, HandedOut, WireOK, Busy
  <2>4. WireType /\ Carries({}, {})
    BY <2>1, <2>2, AttachTypes DEF WireType, Carries
  <2>5. StoreOK'
    BY <2>1, <2>4, StoreKept
  <2>6. QED BY <2>1, <2>3, <2>4, <2>5
<1>3. ASSUME NEW op \in Op, LoseAttempt(op)
      PROVE  WireType /\ UploadOK' /\ StoreOK' /\ UNCHANGED <<file, stored, overlap, loadVars>>
  <2>1. /\ op \in waiting /\ UNCHANGED <<file, stored, overlap, loadVars>>
        /\ \E rest \in SUBSET requests : Retry(op, rest)
    BY <1>3 DEF LoseAttempt
  <2>2. UploadOK' /\ WireType /\ Carries({}, {})
    BY <2>1, RetryStep
  <2>3. StoreOK'
    BY <2>1, <2>2, StoreKept
  <2>4. QED BY <2>1, <2>2, <2>3
<1>4. QED BY <1>1, <1>2, <1>3

\* The purge.
LEMMA PurgeStep ==
  ASSUME AIInv, NEW n \in Attempt, PurgeFile(n)
  PROVE  /\ WireType /\ UploadOK' /\ StoreOK' /\ StoreType' /\ Rows' \subseteq Rows
         /\ UNCHANGED <<requests, overlap, loadVars>>
<1> USE OpKinds, TypeParts DEF AIInv
<1>1. /\ file' = [file EXCEPT ![n] = "purged"] /\ stored' = [stored EXCEPT ![n] = {}]
      /\ UNCHANGED <<requests, overlap, uploadVars, loadVars>>
  BY DEF PurgeFile
<1>2. StoreType'
  BY <1>1 DEF StoreType
<1>3. \A m \in Attempt : /\ file'[m] = IF m = n THEN "purged" ELSE file[m]
                         /\ stored'[m] = IF m = n THEN {} ELSE stored[m]
  BY <1>1 DEF StoreType
<1>4. UploadOK' /\ WireType /\ Carries({}, {})
  BY <1>1, AttachTypes DEF UploadOK, ClientOK, HandedOut, WireOK, Busy, WireType, Carries, uploadVars
<1>5. upload.id # 0 => upload.id \in Attempt
  BY AttachTypes DEF UploadRecord
<1>6. StoreOK'
  BY <1>3, <1>4, <1>5, StoreKept
<1>7. Rows' \subseteq Rows
  BY <1>3 DEF Rows
<1>8. QED BY <1>1, <1>2, <1>4, <1>6, <1>7

\* Every step keeps the strengthening.
LEMMA AttachStep ==
  ASSUME AIInv, [AttachNext]_attachVars
  PROVE  AIInv'
<1> USE TypeParts
<1>0. DeviceType /\ CopyKept /\ QuotaKept /\ StoreType /\ AttachTypeOK
  BY DEF AIInv
<1>1. ASSUME NEW r \in requests, Serve(r) PROVE AIInv'
  <2>1. WireType /\ UploadOK' /\ StoreType' /\ StoreOK' /\ UNCHANGED loadVars
    BY <1>1, ServeStep
  <2>2. DeviceType' /\ CopyKept'
    BY <1>0, <2>1, DeviceKept
  <2>3. AttachTypeOK'
    BY <2>1, <2>2
  <2>4. QuotaKept'
    <3>1. CASE CheckQuota(r)
      BY <1>0, <3>1, CheckQuotaQuota
    <3>2. CASE CreateRow(r)
      <4>1. IsFiniteSet(Attempt) /\ Rows' \subseteq Attempt
        BY AttachmentAssumption, FS_Interval DEF Attempt, Rows
      <4>2. IsFiniteSet(Rows')
        BY <4>1, FS_Subset
      <4>3. QED BY <1>0, <3>2, <4>2, CreateRowQuota
    <3>3. CASE FindForChunk(r) \/ PutChunk(r) \/ FindForComplete(r) \/ CountChunks(r) \/ MarkComplete(r)
      <4>1. overlap' = overlap
        BY <3>3 DEF FindForChunk, PutChunk, FindForComplete, CountChunks, MarkComplete
      <4>2. r.op # Create /\ r \in Request
        BY <1>0, <3>3, OpKinds DEF FindForChunk, PutChunk, FindForComplete, CountChunks, MarkComplete, AttachTypeOK
      <4>3. Rows' \subseteq Rows
        <5>1. CASE file' = file
          BY <5>1 DEF Rows
        <5>2. CASE MarkComplete(r) /\ file[Target] # "purged" /\ file' = [file EXCEPT ![Target] = "complete"]
          <6>1. attempt[r.op] # 0 /\ r.op # Create
            BY <1>0, <4>2, AttachTypes DEF AIInv, UploadOK, WireOK
          <6>2. upload.id # 0
            BY <1>0, <6>1, AttachTypes DEF AIInv, UploadOK, ClientOK
          <6>3. upload.id \in Rows
            BY <1>0, <5>2, <6>2, AttachTypes DEF AIInv, StoreOK, StoreType, UploadRecord, Rows, Target
          <6>4. QED
            BY <1>0, <5>2, <6>3 DEF Rows, StoreType, Target
        <5>3. QED
          BY <3>3, <5>1, <5>2 DEF FindForChunk, PutChunk, FindForComplete, CountChunks, MarkComplete
      <4>4. \A q \in requests' : q \in requests \/ q.at = "sent" \/ q.op # Create
        <5>1. CASE \E status : Answer(r, status)
          BY <5>1, AnswersOnWire DEF NoNewSum
        <5>2. CASE \E at \in {"found", "checked"} : requests' = (requests \ {r}) \cup {[r EXCEPT !.at = at]}
          BY <4>2, <5>2 DEF Request
        <5>3. QED
          BY <3>3, <5>1, <5>2 DEF FindForChunk, PutChunk, FindForComplete, CountChunks, MarkComplete
      <4>5. QED BY <1>0, <2>3, <4>1, <4>3, <4>4, QuotaFromRows
    <3>4. QED BY <1>1, <3>1, <3>2, <3>3 DEF Serve
  <2>5. QED BY <2>1, <2>2, <2>3, <2>4 DEF AIInv
<1>2. ASSUME PickFile \/ CancelUpload \/ \E op \in Op : LoseAttempt(op) PROVE AIInv'
  <2>1. WireType /\ UploadOK' /\ StoreOK' /\ UNCHANGED <<file, stored, overlap, loadVars>>
    BY <1>2, ClientStep
  <2>2. DeviceType' /\ CopyKept'
    BY <1>0, <2>1, DeviceKept
  <2>3. StoreType' /\ AttachTypeOK'
    BY <1>0, <2>1, <2>2 DEF StoreType
  <2>4. Rows' \subseteq Rows /\ overlap' = overlap
    BY <2>1 DEF Rows
  <2>5. \A q \in requests' : q \in requests \/ q.at = "sent" \/ q.op # Create
    <3>1. CASE PickFile \/ CancelUpload
      BY <3>1, StartsSent DEF PickFile, CancelUpload, storeVars, NoNewSum
    <3>2. CASE \E op \in Op : LoseAttempt(op)
      <4>1. \E op \in Op : \E rest \in SUBSET requests : Retry(op, rest)
        BY <3>2 DEF LoseAttempt
      <4>2. QED BY <4>1, RetriesSent DEF NoNewSum
    <3>3. QED BY <1>2, <3>1, <3>2
  <2>6. QuotaKept'
    BY <1>0, <2>3, <2>4, <2>5, QuotaFromRows
  <2>7. QED BY <2>1, <2>2, <2>3, <2>6 DEF AIInv
<1>3. ASSUME NEW n \in Attempt, PurgeFile(n) PROVE AIInv'
  <2>1. /\ WireType /\ UploadOK' /\ StoreOK' /\ StoreType' /\ Rows' \subseteq Rows
        /\ UNCHANGED <<requests, overlap, loadVars>>
    BY <1>3, PurgeStep
  <2>2. DeviceType' /\ CopyKept'
    BY <1>0, <2>1, DeviceKept
  <2>3. AttachTypeOK'
    BY <2>1, <2>2
  <2>4. QuotaKept'
    BY <1>0, <2>1, <2>3, QuotaFromRows
  <2>5. QED BY <2>1, <2>2, <2>3, <2>4 DEF AIInv
<1>4. ASSUME DeviceNext \/ UNCHANGED attachVars PROVE AIInv'
  <2>1. DeviceType' /\ CopyKept' /\ UNCHANGED <<storeVars, uploadVars>>
    BY <1>0, <1>4, DeviceStep, DeviceKept DEF attachVars
  <2>2. AttachTypeOK' /\ UploadOK' /\ StoreOK' /\ QuotaKept'
    <3>1. UNCHANGED <<file, stored, requests, overlap, upload, attempt, waiting>>
      BY <2>1 DEF storeVars, uploadVars
    <3>2. AttachTypeOK'
      BY <1>0, <2>1, <3>1 DEF AttachTypeOK, DeviceType
    <3>3. UploadOK' /\ StoreOK'
      BY <3>1 DEF AIInv, UploadOK, StoreOK, ClientOK, HandedOut, WireOK, Busy
    <3>4. QuotaKept'
      BY <1>0, <3>1 DEF QuotaKept, Summed, Rows
    <3>5. QED BY <3>2, <3>3, <3>4
  <2>3. QED BY <2>1, <2>2 DEF AIInv
<1>5. QED BY <1>1, <1>2, <1>3, <1>4 DEF AttachNext, DeviceNext

-----------------------------------------------------------------------------
(* Attachments implements BlobStore.                                         *)

\* An attempt of the create request makes its row once.
RowsFresh ==
    \A n \in Attempt : file[n] # "none" =>
        /\ n <= attempt[Create]
        /\ \A r \in requests : r.op = Create => r.n # n

\* A complete file has all its chunks.
SealedWhole == \A n \in Attempt : file[n] = "complete" => stored[n] = Chunk

\* Chunks that were counted stay until the purge.
CountedWhole ==
    \A r \in requests : r.op = Complete /\ r.at = "checked" =>
        stored[upload.id] = Chunk \/ file[upload.id] = "purged"

\* The device reads of a file whose upload is over.
ReadersOK ==
    /\ post = "none" => load = "none" /\ parts = {} /\ \A b \in Bubble : bubble[b] = "unmounted"
    /\ post # "none" => upload.phase = "done"
    /\ upload.phase = "done" => upload.id # 0

BlobsOK == RowsFresh /\ SealedWhole /\ CountedWhole /\ ReadersOK

\* The pieces read, as BlobStore has them.
HasRead == {<<Target, c>> : c \in parts}

\* The create requests a step leaves were there, or are newer than every row.
Newer(rest) ==
    /\ attempt'[Create] >= attempt[Create]
    /\ \A q \in requests' : q.op = Create => q \in rest \/ q.n > attempt[Create]

\* First attempts of other requests, or of the only create.
LEMMA StartsNewer ==
  ASSUME AttachTypeOK, NEW ops \in SUBSET Op, NEW rest, Start(ops, rest), Create \in ops => attempt[Create] = 0
  PROVE  Newer(rest)
<1>1. attempt[Create] \in Nat
  BY AttachTypes, OpKinds
<1>2. attempt'[Create] = IF Create \in ops THEN 1 ELSE attempt[Create]
  BY OpKinds DEF Start
<1>3. \A q \in requests' : q \in rest \/ \E op \in ops : q.op = op /\ q.n = 1
  BY DEF Start, Fresh
<1>4. QED BY <1>1, <1>2, <1>3 DEF Newer

\* A retry is newer than the attempts before it.
LEMMA RetriesNewer ==
  ASSUME AttachTypeOK, NEW op \in Op, NEW rest, Retry(op, rest)
  PROVE  Newer(rest)
<1>1. attempt[Create] \in Nat /\ attempt[op] \in Nat /\ attempt \in [Op -> {0} \cup Attempt] /\ Create \in Op
  BY AttachTypes, OpKinds
<1>2. CASE /\ attempt' = [attempt EXCEPT ![op] = @ + 1]
           /\ requests' = rest \cup {Fresh(op, attempt[op] + 1)}
  <2>1. attempt'[Create] = IF op = Create THEN attempt[Create] + 1 ELSE attempt[Create]
    BY <1>1, <1>2
  <2>2. \A q \in requests' : q \in rest \/ (q.op = op /\ q.n = attempt[op] + 1)
    BY <1>2 DEF Fresh
  <2>3. QED BY <1>1, <2>1, <2>2 DEF Newer
<1>3. CASE requests' = rest /\ UNCHANGED attempt
  BY <1>1, <1>3 DEF Newer
<1>4. QED BY <1>2, <1>3 DEF Retry, GiveUp

\* What a step makes of the upload's id and of its end.
UploadMoves ==
    /\ upload'.id = upload.id \/ upload.id = 0
    /\ upload.phase = "done" => upload'.phase = "done"
    /\ upload'.phase = "done" /\ upload.phase # "done" => upload'.id # 0

\* An upload that is given up does not end as done.
LEMMA GiveUpMoves ==
  ASSUME AttachTypeOK, UploadOK, NEW op \in waiting, NEW why \in {"failed", "rejected"}, NEW rest,
         GiveUp(op, why, rest)
  PROVE  UploadMoves
<1>1. upload \in UploadRecord /\ upload.phase # "done"
  BY AttachTypes DEF UploadOK, ClientOK, Busy
<1>2. upload'.id = upload.id /\ upload'.phase # "done"
  BY <1>1 DEF GiveUp, UploadRecord, Failure
<1>3. QED BY <1>1, <1>2 DEF UploadMoves

\* Nor does one that is answered, but for the answer to its completion; the id is
\* set once.
LEMMA AnswerMoves ==
  ASSUME AttachTypeOK, UploadOK, NEW r \in requests, NEW status \in {"ok", "5xx", "404", "409", "413"},
         Answer(r, status)
  PROVE  UploadMoves /\ Newer(requests \ {r})
<1> DEFINE rest == requests \ {r}
<1> USE OpKinds
<1>0. upload \in UploadRecord /\ r.op \in Op /\ attempt[Create] \in Nat
  BY AttachTypes
<1>1. CASE requests' = rest /\ UNCHANGED uploadVars
  BY <1>0, <1>1 DEF uploadVars, UploadMoves, Newer
<1>2. CASE Live(r) /\ Created(r, rest)
  <2>1. upload.phase = "creating" /\ upload.id = 0
    BY <1>0, <1>2 DEF Live, Created, UploadOK, ClientOK, Busy
  <2>2. upload'.phase = "sending"
    BY <1>0, <1>2 DEF Created, UploadRecord
  <2>3. \E ops \in SUBSET Chunk : Start(ops, rest)
    BY <1>2 DEF Created
  <2>4. Newer(rest)
    BY <2>3, StartsNewer
  <2>5. QED BY <2>1, <2>2, <2>4 DEF UploadMoves
<1>3. CASE Live(r) /\ ChunkTaken(r, rest)
  <2>1. upload.phase = "sending"
    BY <1>0, <1>3 DEF Live, ChunkTaken, UploadOK, ClientOK, Busy
  <2>2. upload'.id = upload.id /\ upload'.phase # "done"
    BY <1>0, <1>3, <2>1 DEF ChunkTaken, UploadRecord, Failure
  <2>3. \E ops \in SUBSET Op : Create \notin ops /\ Start(ops, rest)
    <3>1. NextChunk \subseteq Chunk
      BY DEF NextChunk, Untouched
    <3>2. QED BY <1>3, <3>1 DEF ChunkTaken
  <2>4. Newer(rest)
    BY <2>3, StartsNewer
  <2>5. QED BY <2>1, <2>2, <2>4 DEF UploadMoves
<1>4. CASE Live(r) /\ Completed(r, rest)
  <2>1. upload.phase = "completing" /\ upload.id # 0
    BY <1>0, <1>4 DEF Live, Completed, UploadOK, ClientOK, Busy
  <2>2. upload'.id = upload.id
    BY <1>0, <1>4 DEF Completed, UploadRecord
  <2>3. Newer(rest)
    BY <1>4, StartsNewer DEF Completed
  <2>4. QED BY <2>1, <2>2, <2>3 DEF UploadMoves
<1>5. CASE Live(r) /\ Retry(r.op, rest)
  <2>1. UploadMoves
    BY <1>5, GiveUpMoves DEF Retry, UploadMoves, Live
  <2>2. QED BY <1>0, <1>5, <2>1, RetriesNewer
<1>6. CASE Live(r) /\ \E why \in {"failed", "rejected"} : GiveUp(r.op, why, rest)
  <2>1. UploadMoves
    BY <1>6, GiveUpMoves DEF Live
  <2>2. QED BY <1>0, <1>6, <2>1 DEF GiveUp, Newer
<1>7. QED BY <1>1, <1>2, <1>3, <1>4, <1>5, <1>6 DEF Answer, Succeed

\* Rows stay fresh if a row is added only for a request that is then over.
LEMMA FreshKept ==
  ASSUME AIInv, RowsFresh, WireType, NEW rest \in SUBSET requests, Newer(rest),
         \A n \in Attempt : file'[n] # "none" =>
             \/ file[n] # "none"
             \/ n <= attempt[Create] /\ \A q \in rest : q.op = Create => q.n # n
  PROVE  RowsFresh'
<1>1. attempt[Create] \in Nat /\ \A n \in Attempt : n \in Nat
  BY AttachTypes, OpKinds DEF AIInv
<1>2. attempt'[Create] \in Nat /\ attempt'[Create] >= attempt[Create]
  <2>1. attempt'[Create] \in {0} \cup Attempt
    BY OpKinds DEF WireType
  <2>2. QED BY <1>1, <2>1 DEF Newer
<1>3. \A q \in requests' : q.n \in Nat
  BY <1>1 DEF WireType, Request
<1>4. ASSUME NEW n \in Attempt, file'[n] # "none"
      PROVE  n <= attempt'[Create] /\ \A q \in requests' : q.op = Create => q.n # n
  <2>1. n <= attempt[Create] /\ \A q \in rest : q.op = Create => q.n # n
    BY <1>4 DEF RowsFresh
  <2>2. n \in Nat /\ n <= attempt'[Create]
    BY <1>1, <1>2, <2>1
  <2>3. ASSUME NEW q \in requests', q.op = Create PROVE q.n # n
    BY <1>1, <1>3, <2>1, <2>3 DEF Newer
  <2>4. QED BY <2>2, <2>3
<1>5. QED BY <1>4 DEF RowsFresh

\* What the reader has is not touched by the uploader.
LEMMA ReadersKept ==
  ASSUME ReadersOK, UploadMoves, UNCHANGED loadVars
  PROVE  ReadersOK' /\ HasRead' = HasRead
BY DEF ReadersOK, UploadMoves, loadVars, HasRead, Target

\* A request whose count was made had an upload to count for.
LEMMA CountHasId ==
  ASSUME AIInv, NEW r \in requests, r.op # Create
  PROVE  upload.id \in Attempt /\ upload.id # 0
<1>1. attempt[r.op] # 0
  BY AttachTypes DEF AIInv, UploadOK, WireOK
<1>2. upload.id # 0
  BY <1>1, AttachTypes DEF AIInv, UploadOK, ClientOK
<1>3. QED BY <1>2, AttachTypes DEF AIInv, UploadRecord

\* Counted chunks stay if the store loses none but to the purge, and newly counted
\* ones are all there.
LEMMA CountsKept ==
  ASSUME AIInv, CountedWhole, UploadMoves,
         \A q \in requests' : q.op = Complete /\ q.at = "checked" => q \in requests \/
             (upload'.id = upload.id /\ stored[upload.id] = Chunk /\ upload.id \in Attempt),
         \A n \in Attempt : \/ file'[n] = "purged"
                            \/ file[n] # "purged" /\ (stored[n] = Chunk => stored'[n] = Chunk)
  PROVE  CountedWhole'
<1> SUFFICES ASSUME NEW q \in requests', q.op = Complete, q.at = "checked"
             PROVE  stored'[upload'.id] = Chunk \/ file'[upload'.id] = "purged"
  BY DEF CountedWhole
<1>1. CASE q \in requests
  <2>1. upload.id \in Attempt /\ upload'.id = upload.id
    BY <1>1, CountHasId, OpKinds DEF UploadMoves
  <2>2. QED BY <1>1, <2>1 DEF CountedWhole
<1>2. CASE upload'.id = upload.id /\ stored[upload.id] = Chunk /\ upload.id \in Attempt
  BY <1>2
<1>3. QED BY <1>1, <1>2

\* A step that leaves the store alone.
LEMMA StoreStill ==
  ASSUME AIInv, BlobsOK, WireType, UNCHANGED <<file, stored, loadVars>>, UploadMoves,
         NEW rest \in SUBSET requests, Newer(rest),
         \A q \in requests' : q.op = Complete /\ q.at = "checked" => q \in requests \/
             (upload'.id = upload.id /\ stored[upload.id] = Chunk /\ upload.id \in Attempt)
  PROVE  BlobsOK' /\ UNCHANGED <<file, stored, HasRead>>
<1>1. RowsFresh'
  BY FreshKept DEF BlobsOK
<1>2. SealedWhole'
  BY DEF BlobsOK, SealedWhole
<1>3. CountedWhole'
  BY CountsKept DEF BlobsOK
<1>4. QED BY <1>1, <1>2, <1>3, ReadersKept DEF BlobsOK

\* What BlobStore allows.
Allowed == Blobs!Next \/ UNCHANGED Blobs!vars

\* BlobStore may do nothing.
LEMMA BlobStill ==
  ASSUME UNCHANGED <<file, stored, HasRead>>
  PROVE  Allowed
BY DEF Allowed, Blobs!vars, HasRead

\* The handlers, which make all changes to the store but the purge's.
LEMMA BlobServe ==
  ASSUME AIInv, BlobsOK, NEW r \in requests, Serve(r)
  PROVE  BlobsOK' /\ Allowed
<1> DEFINE rest == requests \ {r}
<1> USE OpKinds
<1>0. /\ AttachTypeOK /\ UploadOK /\ StoreType /\ StoreOK /\ r \in Request
      /\ WireType /\ UploadOK' /\ StoreType' /\ StoreOK' /\ UNCHANGED loadVars
  BY ServeStep, TypeParts, AttachTypes DEF AIInv
<1>1. ASSUME NEW status \in {"ok", "5xx", "404", "409", "413"}, Answer(r, status)
      PROVE  UploadMoves /\ Newer(rest) /\ \A q \in requests' : q.op = Complete /\ q.at = "checked" => q \in requests
  BY <1>0, <1>1, AnswerMoves, AnswersOnWire DEF NoNewSum
<1>2. CASE UNCHANGED <<file, stored>> /\ \E status \in {"ok", "5xx", "404", "409", "413"} : Answer(r, status)
  BY <1>0, <1>1, <1>2, StoreStill, BlobStill
<1>3. ASSUME UNCHANGED <<file, stored, uploadVars>>, NEW at \in {"found", "checked"},
             requests' = rest \cup {[r EXCEPT !.at = at]},
             r.op = Complete /\ at = "checked" => stored[upload.id] = Chunk
      PROVE  BlobsOK' /\ Allowed
  <2> DEFINE next == [r EXCEPT !.at = at]
  <2>1. next.op = r.op /\ next.n = r.n /\ next.at = at /\ requests' = rest \cup {next}
    BY <1>0, <1>3 DEF Request
  <2> HIDE DEF next
  <2>2. UploadMoves /\ upload' = upload /\ attempt' = attempt
    BY <1>3 DEF UploadMoves, uploadVars
  <2>3. \A q \in requests' : q.op = Complete /\ q.at = "checked" => q \in requests \/
             (upload'.id = upload.id /\ stored[upload.id] = Chunk /\ upload.id \in Attempt)
    BY <1>3, <2>1, <2>2, CountHasId
  <2>4. RowsFresh'
    BY <1>3, <2>1, <2>2 DEF BlobsOK, RowsFresh
  <2>5. SealedWhole' /\ CountedWhole'
    BY <1>3, <2>2, <2>3, CountsKept DEF BlobsOK, SealedWhole
  <2>6. ReadersOK' /\ HasRead' = HasRead
    BY <1>0, <2>2, ReadersKept DEF BlobsOK
  <2>7. QED BY <1>3, <2>4, <2>5, <2>6, BlobStill DEF BlobsOK
<1>4. CASE CheckQuota(r)
  BY <1>2, <1>3, <1>4 DEF CheckQuota
<1>5. CASE FindForChunk(r) \/ FindForComplete(r)
  BY <1>2, <1>3, <1>5 DEF FindForChunk, FindForComplete
<1>6. CASE CountChunks(r)
  BY <1>2, <1>3, <1>6 DEF CountChunks, Target
<1>7. CASE CreateRow(r)
  <2>1. r.op = Create /\ file' = [file EXCEPT ![r.n] = "open"] /\ stored' = stored /\ Answer(r, "ok")
    BY <1>7 DEF CreateRow
  <2>2. r.n \in Attempt /\ file[r.n] = "none"
    BY <1>0, <2>1, AttachTypes DEF BlobsOK, RowsFresh
  <2>3. \A n \in Attempt : file'[n] = IF n = r.n THEN "open" ELSE file[n]
    BY <1>0, <2>1 DEF StoreType
  <2>4. UploadMoves /\ Newer(rest) /\ \A q \in requests' : q.op = Complete /\ q.at = "checked" => q \in requests
    BY <1>1, <2>1
  <2>5. RowsFresh'
    <3>1. r.n <= attempt[Create] /\ \A q \in rest : q.op = Create => q.n # r.n
      BY <1>0, <2>1 DEF UploadOK, WireOK
    <3>2. QED BY <1>0, <2>3, <2>4, <3>1, FreshKept DEF BlobsOK
  <2>6. SealedWhole'
    BY <2>1, <2>3 DEF BlobsOK, SealedWhole
  <2>7. CountedWhole'
    <3>1. \A n \in Attempt : file[n] = "purged" => file'[n] = "purged"
      BY <2>2, <2>3
    <3>2. \A n \in Attempt : \/ file'[n] = "purged"
                             \/ file[n] # "purged" /\ (stored[n] = Chunk => stored'[n] = Chunk)
      BY <2>1, <3>1
    <3>3. QED BY <2>4, <3>2, CountsKept DEF BlobsOK
  <2>8. ReadersOK' /\ HasRead' = HasRead
    BY <1>0, <2>4, ReadersKept DEF BlobsOK
  <2>9. Blobs!Open(r.n)
    BY <2>1, <2>2, <2>8 DEF Blobs!Open, HasRead
  <2>10. QED BY <2>2, <2>5, <2>6, <2>7, <2>8, <2>9 DEF BlobsOK, Allowed, Blobs!Next
<1>8. CASE PutChunk(r) /\ file[Target] # "purged"
  <2>1. r.op \in Chunk /\ r.op # Create /\ file' = file /\ Answer(r, "ok")
        /\ stored' = [stored EXCEPT ![upload.id] = @ \cup {r.op}]
    BY <1>8 DEF PutChunk, Target
  <2>2. upload.id \in Attempt /\ file[upload.id] \in {"open", "complete"}
    <3>1. upload.id \in Attempt /\ upload.id # 0
      BY <2>1, CountHasId
    <3>2. QED BY <1>0, <1>8, <3>1 DEF StoreOK, StoreType, Target
  <2>3. \A n \in Attempt : /\ stored[n] \subseteq Chunk
                           /\ stored'[n] = IF n = upload.id THEN stored[n] \cup {r.op} ELSE stored[n]
    BY <1>0, <2>1 DEF StoreType
  <2>4. UploadMoves /\ Newer(rest) /\ \A q \in requests' : q.op = Complete /\ q.at = "checked" => q \in requests
    BY <1>1, <2>1
  <2>5. RowsFresh'
    BY <1>0, <2>1, <2>4, FreshKept DEF BlobsOK
  <2>6. \A n \in Attempt : stored[n] = Chunk => stored'[n] = Chunk
    BY <2>1, <2>3
  <2>7. SealedWhole' /\ CountedWhole'
    <3>1. \A n \in Attempt : \/ file'[n] = "purged"
                             \/ file[n] # "purged" /\ (stored[n] = Chunk => stored'[n] = Chunk)
      BY <2>1, <2>6
    <3>2. CountedWhole'
      BY <2>4, <3>1, CountsKept DEF BlobsOK
    <3>3. QED BY <2>1, <2>6, <3>2 DEF BlobsOK, SealedWhole
  <2>8. ReadersOK' /\ HasRead' = HasRead
    BY <1>0, <2>4, ReadersKept DEF BlobsOK
  <2>9. Allowed
    <3>1. CASE file[upload.id] = "open"
      <4>1. Blobs!Put(upload.id, r.op)
        BY <2>1, <2>8, <3>1 DEF Blobs!Put, HasRead
      <4>2. QED BY <2>1, <2>2, <4>1 DEF Allowed, Blobs!Next
    <3>2. CASE file[upload.id] = "complete"
      <4>1. stored[upload.id] = Chunk
        BY <2>2, <3>2 DEF BlobsOK, SealedWhole
      <4>2. stored' = stored
        BY <1>0, <2>1, <4>1 DEF StoreType
      <4>3. QED BY <2>1, <2>8, <4>2, BlobStill
    <3>3. QED BY <2>2, <3>1, <3>2
  <2>10. QED BY <2>5, <2>7, <2>8, <2>9 DEF BlobsOK
<1>9. CASE PutChunk(r) /\ file[Target] = "purged"
  BY <1>2, <1>9 DEF PutChunk
<1>10. CASE MarkComplete(r) /\ file[Target] # "purged"
  <2>1. r.op = Complete /\ r.at = "checked" /\ stored' = stored /\ Answer(r, "ok")
        /\ file' = [file EXCEPT ![upload.id] = "complete"]
    BY <1>10 DEF MarkComplete, Target
  <2>2. upload.id \in Attempt /\ file[upload.id] \in {"open", "complete"} /\ stored[upload.id] = Chunk
    <3>1. upload.id \in Attempt /\ upload.id # 0
      BY <2>1, CountHasId
    <3>2. QED BY <1>0, <1>10, <2>1, <3>1 DEF StoreOK, StoreType, Target, BlobsOK, CountedWhole
  <2>3. \A n \in Attempt : file'[n] = IF n = upload.id THEN "complete" ELSE file[n]
    BY <1>0, <2>1 DEF StoreType
  <2>4. UploadMoves /\ Newer(rest) /\ \A q \in requests' : q.op = Complete /\ q.at = "checked" => q \in requests
    BY <1>1, <2>1
  <2>5. RowsFresh'
    <3>1. \A n \in Attempt : file'[n] # "none" => file[n] # "none"
      BY <2>2, <2>3
    <3>2. QED BY <1>0, <2>4, <3>1, FreshKept DEF BlobsOK
  <2>6. SealedWhole'
    BY <2>1, <2>2, <2>3 DEF BlobsOK, SealedWhole
  <2>7. CountedWhole'
    <3>1. \A n \in Attempt : \/ file'[n] = "purged"
                             \/ file[n] # "purged" /\ (stored[n] = Chunk => stored'[n] = Chunk)
      BY <2>1, <2>2, <2>3
    <3>2. QED BY <2>4, <3>1, CountsKept DEF BlobsOK
  <2>8. ReadersOK' /\ HasRead' = HasRead
    BY <1>0, <2>4, ReadersKept DEF BlobsOK
  <2>9. Allowed
    <3>1. CASE file[upload.id] = "open"
      <4>1. Blobs!Seal(upload.id)
        BY <2>1, <2>2, <2>8, <3>1 DEF Blobs!Seal, HasRead
      <4>2. QED BY <2>2, <4>1 DEF Allowed, Blobs!Next
    <3>2. CASE file[upload.id] = "complete"
      <4>1. file' = file
        BY <1>0, <2>1, <3>2 DEF StoreType
      <4>2. QED BY <2>1, <2>8, <4>1, BlobStill
    <3>3. QED BY <2>2, <3>1, <3>2
  <2>10. QED BY <2>5, <2>6, <2>7, <2>8, <2>9 DEF BlobsOK
<1>11. CASE MarkComplete(r) /\ file[Target] = "purged"
  BY <1>2, <1>11 DEF MarkComplete
<1>12. QED BY <1>4, <1>5, <1>6, <1>7, <1>8, <1>9, <1>10, <1>11 DEF Serve

\* The client's own steps change nothing the store has.
LEMMA BlobClient ==
  ASSUME AIInv, BlobsOK, PickFile \/ CancelUpload \/ \E op \in Op : LoseAttempt(op)
  PROVE  BlobsOK' /\ Allowed
<1> USE OpKinds
<1>0. /\ AttachTypeOK /\ UploadOK
      /\ WireType /\ UploadOK' /\ StoreOK' /\ UNCHANGED <<file, stored, overlap, loadVars>>
  BY ClientStep DEF AIInv
<1>1. requests \in SUBSET requests /\ upload \in UploadRecord
  BY <1>0, AttachTypes
<1>2. CASE PickFile
  <2>1. upload.phase = "idle" /\ upload' = [upload EXCEPT !.phase = "creating"] /\ Start({Create}, requests)
    BY <1>2 DEF PickFile
  <2>2. UploadMoves
    BY <1>1, <2>1 DEF UploadMoves, UploadRecord
  <2>3. attempt[Create] = 0 /\ {Create} \in SUBSET Op
    BY <1>0, <2>1 DEF UploadOK, ClientOK
  <2>4. Newer(requests) /\ NoNewSum(requests)
    BY <1>0, <1>1, <2>1, <2>3, StartsNewer, StartsSent
  <2>5. QED BY <1>0, <1>1, <2>2, <2>4, StoreStill, BlobStill DEF NoNewSum
<1>3. CASE CancelUpload
  <2>1. upload.phase # "done" /\ upload' = [upload EXCEPT !.phase = "cancelled"]
        /\ attempt' = attempt /\ requests' = requests
    BY <1>3 DEF CancelUpload, Busy, storeVars
  <2>2. UploadMoves
    BY <1>1, <2>1 DEF UploadMoves, UploadRecord
  <2>3. Newer(requests)
    BY <1>0, <2>1, AttachTypes DEF Newer
  <2>4. QED BY <1>0, <1>1, <2>1, <2>2, <2>3, StoreStill, BlobStill
<1>4. ASSUME NEW op \in Op, LoseAttempt(op) PROVE BlobsOK' /\ Allowed
  <2>1. PICK rest \in SUBSET requests : Retry(op, rest) /\ op \in waiting
    BY <1>4 DEF LoseAttempt
  <2>2. Newer(rest) /\ NoNewSum(rest)
    BY <1>0, <2>1, RetriesNewer, RetriesSent
  <2>3. UploadMoves
    BY <1>0, <2>1, GiveUpMoves DEF Retry, UploadMoves
  <2>4. QED BY <1>0, <2>2, <2>3, StoreStill, BlobStill DEF NoNewSum
<1>5. QED BY <1>2, <1>3, <1>4

\* The purge is final.
LEMMA BlobPurge ==
  ASSUME AIInv, BlobsOK, NEW n \in Attempt, PurgeFile(n)
  PROVE  BlobsOK' /\ Allowed
<1>1. /\ file[n] \in {"open", "complete"}
      /\ file' = [file EXCEPT ![n] = "purged"] /\ stored' = [stored EXCEPT ![n] = {}]
      /\ UNCHANGED <<requests, upload, attempt, loadVars>>
  BY DEF PurgeFile, Rows, uploadVars
<1>2. /\ AttachTypeOK /\ StoreType
      /\ \A m \in Attempt : /\ file'[m] = IF m = n THEN "purged" ELSE file[m]
                            /\ stored'[m] = IF m = n THEN {} ELSE stored[m]
  BY <1>1, TypeParts DEF AIInv, StoreType
<1>3. UploadMoves
  BY <1>1 DEF UploadMoves
<1>4. RowsFresh' /\ SealedWhole'
  BY <1>1, <1>2 DEF BlobsOK, RowsFresh, SealedWhole
<1>5. CountedWhole'
  BY <1>1, <1>2, <1>3, CountsKept DEF BlobsOK
<1>6. ReadersOK' /\ HasRead' = HasRead
  BY <1>1, <1>3, ReadersKept DEF BlobsOK
<1>7. Blobs!Purge(n)
  BY <1>1, <1>6 DEF Blobs!Purge, HasRead
<1>8. QED BY <1>4, <1>5, <1>6, <1>7 DEF BlobsOK, Allowed, Blobs!Next

\* The device's steps: only a chunk that arrives, and a load that starts, matter.
LEMMA BlobDevice ==
  ASSUME AIInv, BlobsOK, DeviceNext
  PROVE  BlobsOK' /\ Allowed
<1>0. /\ DeviceType /\ CopyKept /\ UNCHANGED <<file, stored, requests, upload, attempt>>
  BY DeviceStep, TypeParts DEF AIInv, storeVars, uploadVars
<1>1. RowsFresh' /\ SealedWhole' /\ CountedWhole'
  BY <1>0 DEF BlobsOK, RowsFresh, SealedWhole, CountedWhole
<1>2. ASSUME ReadersOK', parts' = parts PROVE BlobsOK' /\ Allowed
  BY <1>0, <1>1, <1>2, BlobStill DEF BlobsOK, HasRead, Target
<1>3. ASSUME ReadersOK', parts' = {} PROVE BlobsOK' /\ Allowed
  <2>1. HasRead' = {}
    BY <1>3 DEF HasRead
  <2>2. Blobs!Forget
    BY <1>0, <2>1 DEF Blobs!Forget, HasRead
  <2>3. QED BY <1>1, <1>3, <2>2 DEF BlobsOK, Allowed, Blobs!Next
<1>4. CASE ReceiveFile
  BY <1>0, <1>2, <1>4 DEF ReceiveFile, BlobsOK, ReadersOK
<1>5. ASSUME NEW b \in Bubble, Mount(b) \/ Unmount(b) PROVE BlobsOK' /\ Allowed
  BY <1>0, <1>2, <1>5 DEF Mount, Unmount, BlobsOK, ReadersOK, DeviceType
<1>6. ASSUME NEW b \in Bubble, CheckCache(b) \/ TapFile(b) PROVE BlobsOK' /\ Allowed
  <2>1. post # "none" /\ post' = post
    BY <1>6 DEF CheckCache, TapFile, BlobsOK, ReadersOK
  <2>2. ReadersOK'
    BY <1>0, <2>1 DEF BlobsOK, ReadersOK
  <2>3. parts' = parts \/ parts' = {}
    BY <1>6 DEF CheckCache, TapFile, Ensure
  <2>4. QED BY <1>2, <1>3, <2>2, <2>3
<1>7. ASSUME NEW c \in Chunk, FetchChunk(c) PROVE BlobsOK' /\ Allowed
  <2>1. post # "none" /\ post' = post
    BY <1>7 DEF FetchChunk, BlobsOK, ReadersOK
  <2>2. ReadersOK'
    BY <1>0, <2>1 DEF BlobsOK, ReadersOK
  <2>3. CASE file[Target] = "complete" /\ parts' = parts \cup {c}
    <3>1. HasRead' = HasRead \cup {<<Target, c>>}
      BY <1>0, <2>3 DEF HasRead, Target
    <3>2. Blobs!Read(Target, c)
      BY <1>0, <2>3, <3>1 DEF Blobs!Read, HasRead
    <3>3. Target \in Attempt
      BY <2>1, AttachTypes DEF AIInv, BlobsOK, ReadersOK, Target, UploadRecord
    <3>4. QED BY <1>1, <2>2, <3>2, <3>3 DEF BlobsOK, Allowed, Blobs!Next
  <2>4. CASE parts' = parts
    BY <1>2, <2>2, <2>4
  <2>5. QED BY <1>7, <2>3, <2>4 DEF FetchChunk
<1>8. CASE LookUp \/ LoadFails \/ StoreCopy \/ FetchFails
  <2>1. post # "none" /\ post' = post /\ parts' = parts
    BY <1>8 DEF LookUp, LoadFails, StoreCopy, FetchFails, LoadEnds, BlobsOK, ReadersOK
  <2>2. ReadersOK'
    BY <1>0, <2>1 DEF BlobsOK, ReadersOK
  <2>3. QED BY <1>2, <2>1, <2>2
<1>9. CASE DeletePost \/ Deletion
  <2>1. post # "none" /\ post' # "none" /\ parts' = parts
    BY <1>9 DEF DeletePost, Deletion, DropCopy, RefreshView
  <2>2. ReadersOK'
    BY <1>0, <2>1 DEF BlobsOK, ReadersOK
  <2>3. QED BY <1>2, <2>1, <2>2
<1>10. QED BY <1>4, <1>5, <1>6, <1>7, <1>8, <1>9 DEF DeviceNext, Load

\* Every step.
LEMMA BlobStep ==
  ASSUME AIInv, BlobsOK, [AttachNext]_attachVars
  PROVE  BlobsOK' /\ [Blobs!Next]_(Blobs!vars)
<1>1. CASE AttachNext
  <2>1. BlobsOK' /\ Allowed
    BY <1>1, BlobServe, BlobClient, BlobPurge, BlobDevice DEF AttachNext, DeviceNext
  <2>2. QED BY <2>1 DEF Allowed
<1>2. CASE UNCHANGED attachVars
  <2>1. UNCHANGED <<file, stored, requests, upload, attempt, loadVars>>
    BY <1>2 DEF attachVars, storeVars, uploadVars
  <2>2. UploadMoves
    BY <2>1 DEF UploadMoves
  <2>3. ReadersOK' /\ HasRead' = HasRead
    BY <2>1, <2>2, ReadersKept DEF BlobsOK
  <2>4. BlobsOK'
    BY <2>1, <2>3 DEF BlobsOK, RowsFresh, SealedWhole, CountedWhole
  <2>5. QED BY <2>1, <2>3, <2>4, BlobStill DEF Allowed
<1>3. QED BY <1>1, <1>2

-----------------------------------------------------------------------------
(* The theorems. *)

\* The strengthening holds in every state.
THEOREM AttachIInv == AttachSpec => []AIInv
<1>1. ASSUME AttachInit PROVE AIInv
  <2>1. AttachTypeOK
    BY <1>1 DEF AttachInit, AttachTypeOK, Phases
  <2>2. QuotaKept
    <3>1. Rows = {} /\ Summed = {}
      BY <1>1 DEF AttachInit, Rows, Summed
    <3>2. Cardinality(Rows) = 0
      BY <3>1, FS_EmptySet
    <3>3. Cardinality(Rows) <= Room
      BY <3>2, AttachmentAssumption
    <3>4. QED BY <3>1, <3>3 DEF QuotaKept
  <2>3. UploadOK
    BY <1>1, OpKinds DEF AttachInit, UploadOK, ClientOK, HandedOut, WireOK, Busy
  <2>4. StoreOK
    BY <1>1 DEF AttachInit, StoreOK
  <2>5. CopyKept
    BY <1>1 DEF AttachInit, CopyKept
  <2>6. QED BY <2>1, <2>2, <2>3, <2>4, <2>5 DEF AIInv
<1>2. QED BY <1>1, AttachStep, PTL DEF AttachSpec

\* The owner's quota is exceeded only by creates that met between their sum and
\* their write (createAttachment, attachments.controller.ts:26-50).
THEOREM QuotaOnlyByOverlap == AttachSpec => []QuotaHeld
<1>1. AIInv => QuotaHeld
  <2> SUFFICES ASSUME AIInv, ~overlap PROVE ~(Cardinality(Rows) > Room)
    BY DEF QuotaHeld
  <2>1. Cardinality(Rows) \in Nat /\ Cardinality(Rows) <= Room
    BY RowsCount DEF AIInv, QuotaKept
  <2>2. QED BY <2>1, AttachmentAssumption
<1>2. QED BY <1>1, AttachIInv, PTL

\* An uploader hears of a conflict only after the purge, whatever attempts of its
\* requests are late (putChunk and completeAttachment, attachments.controller.ts).
THEOREM ConflictOnlyAfterPurge == AttachSpec => []RejectedOnlyIfPurged
<1>1. AIInv => RejectedOnlyIfPurged
  BY DEF AIInv, StoreOK, RejectedOnlyIfPurged
<1>2. QED BY <1>1, AttachIInv, PTL

\* No copy of a deleted message is left behind but by a load that raced with its
\* deletion (handleDeleteMessage, page.tsx; loadAttachment, attachments.ts).
THEOREM NoCopyLeft == AttachSpec => []CopyDropped
<1>1. AIInv => CopyDropped
  BY DEF AIInv, CopyKept, CopyDropped, AttachTypeOK
<1>2. QED BY <1>1, AttachIInv, PTL

\* The chunk store is write-once: each step of Attachments is one that BlobStore
\* allows, or none (putChunk, completeAttachment, getChunk and the purge,
\* attachments.controller.ts).
THEOREM ChunkStoreIsWriteOnce == AttachSpec => WriteOnce
<1>1. ASSUME AttachInit PROVE BlobsOK
  <2>1. \A n \in Attempt : file[n] = "none"
    BY <1>1 DEF AttachInit
  <2>2. requests = {}
    BY <1>1 DEF AttachInit
  <2>3. ReadersOK
    BY <1>1 DEF AttachInit, ReadersOK
  <2>4. QED BY <2>1, <2>2, <2>3 DEF BlobsOK, RowsFresh, SealedWhole, CountedWhole
<1>2. AttachInit => Blobs!Init
  BY DEF AttachInit, Blobs!Init
<1>3. AIInv /\ BlobsOK /\ [AttachNext]_attachVars => BlobsOK' /\ [Blobs!Next]_(Blobs!vars)
  BY BlobStep
<1>4. QED BY <1>1, <1>2, <1>3, AttachIInv, PTL DEF AttachSpec, WriteOnce, Blobs!Spec
=============================================================================
