--------------------------- MODULE PrekeysProofs ---------------------------
(***************************************************************************)
(* Theorems about Prekeys, for any number of requests, keys and identities.*)
(***************************************************************************)
EXTENDS Prekeys, TLAPS

\* The device is at the last identity or at none, and nothing carries an
\* identity it has not generated.
Generations ==
    /\ identity \in {0, gen}
    /\ setup # "idle" => identity = gen /\ gen # 0
    /\ published <= gen
    /\ \A g \in uploads : g <= gen
    /\ \A k \in KeyId : row[k].gen <= gen
    /\ \A s \in Sender : fetch[s].keyGen <= gen /\ fetch[s].idGen <= gen

\* No row and no bundle holds keys of generation g.
Unseen(g) ==
    /\ published # g
    /\ \A k \in KeyId : row[k].gen # g
    /\ \A s \in Sender : fetch[s].keyGen # g

\* A bundle is posted once: until it is applied nobody has seen its keys.
PostedOnce ==
    /\ \A g \in uploads : Unseen(g)
    /\ setup # "idle" => gen \notin uploads /\ Unseen(gen)

\* What a request holds at each point of the transaction.
Requests ==
    /\ \A s \in Sender :
          /\ fetch[s].at = "picked" => fetch[s].key # 0
          /\ fetch[s].key # 0 =>
                fetch[s].keyGen # 0 /\ fetch[s].at \in {"picked", "answered"}
          /\ first[s] # "none" => fetch[s].at = "answered"
    /\ \A s \in Sender :
          (Issued(s) /\ row[fetch[s].key].gen = fetch[s].keyGen) =>
             row[fetch[s].key].used

\* The keys of a bundle that is posted, or about to be, are all in place.
Stored ==
    /\ (setup = "posting" \/ (gen \in uploads /\ identity = gen)) =>
          \A k \in KeyId : slot[k] = gen
    /\ FreeKeysUsable

\* SharedOnlyIfMet, for the requests still in the transaction as well.
Shared ==
    \A s, t \in Sender :
        (s # t /\ fetch[s].key # 0 /\ fetch[t].key # 0 /\ SameKey(s, t)) =>
            <<s, t>> \in met

\* A private half the device no longer has was spent on a message it read.
Spent ==
    \A s \in Sender :
        (fetch[s].key # 0 /\ fetch[s].keyGen = identity) =>
            \/ slot[fetch[s].key] = identity
            \/ \E t \in Sender :
                  Issued(t) /\ SameKey(s, t) /\ first[t] = "read"

IInv ==
    /\ TypeOK /\ Generations /\ PostedOnce /\ Requests
    /\ RowsOfPublished /\ Stored /\ Shared /\ Spent /\ FailsForAReason

\* Every step preserves the type invariant.
LEMMA TypeStep ==
  ASSUME TypeOK, Generations, Requests, [Next]_vars
  PROVE  TypeOK'
<1> USE PrekeyAssumption DEF TypeOK, Generations, Requests, Gen, deviceVars, serverVars,
    senderVars
<1>1. CASE Generate
  BY <1>1 DEF Generate
<1>2. CASE StoreKeys
  BY <1>2 DEF StoreKeys
<1>3. CASE Post
  BY <1>3 DEF Post
<1>4. CASE Interrupt
  BY <1>4 DEF Interrupt
<1>5. CASE ClearDevice
  BY <1>5 DEF ClearDevice
<1>6. ASSUME NEW g \in Gen, Upload(g) PROVE TypeOK'
  BY <1>6 DEF Upload
<1>7. ASSUME NEW g \in Gen, UploadFails(g) PROVE TypeOK'
  BY <1>7 DEF UploadFails
<1>8. ASSUME NEW s \in Sender, ReadIdentity(s) \/ ReadSigned(s) PROVE TypeOK'
  <2>1. CASE ReadIdentity(s)
    BY <2>1 DEF ReadIdentity, Hold
  <2>2. CASE ReadSigned(s)
    BY <2>2 DEF ReadSigned
  <2>3. QED BY <1>8, <2>1, <2>2
<1>9. ASSUME NEW s \in Sender, PickKey(s) PROVE TypeOK'
  BY <1>9 DEF PickKey, Free, InTransaction, Answer, Hold
<1>10. ASSUME NEW s \in Sender, MarkUsed(s) PROVE TypeOK'
  <2>1. fetch' \in [Sender -> [at : {"idle", "reading", "picked", "answered"},
                             idGen : Gen, keyGen : Gen, key : KeyId \cup {0}]]
    BY <1>10 DEF MarkUsed, Answer, Hold
  <2>2. row' \in [KeyId -> [gen : Gen, used : BOOLEAN]]
    BY <1>10 DEF MarkUsed
  <2>3. QED BY <1>10, <2>1, <2>2 DEF MarkUsed
<1>11. ASSUME NEW s \in Sender, MarkFails(s) \/ RefuseBundle(s) PROVE TypeOK'
  <2>1. CASE MarkFails(s)
    BY <2>1 DEF MarkFails, Forget, NoFetch
  <2>2. CASE RefuseBundle(s)
    BY <2>2 DEF RefuseBundle, Forget, NoFetch
  <2>3. QED BY <1>11, <2>1, <2>2
<1>12. ASSUME NEW s \in Sender, SendFirst(s) PROVE TypeOK'
  BY <1>12 DEF SendFirst
<1>13. ASSUME NEW s \in Sender, FailFirst(s) PROVE TypeOK'
  BY <1>13 DEF FailFirst
<1>14. ASSUME NEW s \in Sender, ReadFirst(s) PROVE TypeOK'
  BY <1>14 DEF ReadFirst
<1>15. CASE UNCHANGED vars
  BY <1>15 DEF vars
<1>16. QED
  BY <1>1, <1>2, <1>3, <1>4, <1>5, <1>6, <1>7, <1>8, <1>9, <1>10, <1>11,
     <1>12, <1>13, <1>14, <1>15 DEF Next

\* The invariant holds before the account is set up.
LEMMA InitIInv == Init => IInv
<1> SUFFICES ASSUME Init PROVE IInv
  OBVIOUS
<1> USE PrekeyAssumption DEF Init, NoRow, NoFetch
<1>1. TypeOK
  BY DEF TypeOK, Gen
<1>2. Generations /\ PostedOnce
  BY DEF Generations, PostedOnce
<1>3. Requests /\ Shared
  BY DEF Requests, Shared, Issued
<1>4. RowsOfPublished /\ Stored
  BY DEF RowsOfPublished, Stored, FreeKeysUsable, Free
<1>5. Spent /\ FailsForAReason
  BY DEF Spent, FailsForAReason
<1>6. QED BY <1>1, <1>2, <1>3, <1>4, <1>5 DEF IInv

\* Every step preserves what concerns generations, requests, rows and keys.
LEMMA InvStep ==
  ASSUME IInv, TypeOK', [Next]_vars
  PROVE  /\ Generations' /\ PostedOnce' /\ Requests'
         /\ RowsOfPublished' /\ Stored' /\ Shared'
<1> DEFINE Goal ==
      /\ Generations /\ PostedOnce /\ Requests
      /\ RowsOfPublished /\ Stored /\ Shared
<1> USE PrekeyAssumption
    DEF IInv, TypeOK, Generations, PostedOnce, Unseen, Requests, Issued,
        RowsOfPublished, Stored, FreeKeysUsable, Free, Shared, SameKey, Gen,
        deviceVars, serverVars, senderVars
<1>1. CASE Generate
  BY <1>1 DEF Generate
<1>2. CASE StoreKeys \/ Post \/ Interrupt \/ ClearDevice
  BY <1>2 DEF StoreKeys, Post, Interrupt, ClearDevice
<1>3. ASSUME NEW g \in Gen, Upload(g) PROVE Goal'
  BY <1>3 DEF Upload
<1>4. ASSUME NEW g \in Gen, UploadFails(g) PROVE Goal'
  BY <1>4 DEF UploadFails
<1>5. ASSUME NEW s \in Sender, ReadIdentity(s) \/ ReadSigned(s) PROVE Goal'
  <2>1. CASE ReadIdentity(s)
    BY <2>1 DEF ReadIdentity, Hold
  <2>2. CASE ReadSigned(s)
    BY <2>2 DEF ReadSigned
  <2>3. QED BY <1>5, <2>1, <2>2
<1>6. ASSUME NEW s \in Sender, PickKey(s) PROVE Goal'
  <2>1. CASE Free = {} /\ Answer(s) /\ UNCHANGED <<met, first, deviceVars, serverVars>>
    BY <1>6, <2>1 DEF PickKey, Answer, Hold
  <2>2. ASSUME NEW k \in Free, Hold(s, "picked", fetch[s].idGen, row[k].gen, k),
               met' = met \cup ({s} \X InTransaction) \cup (InTransaction \X {s}),
               UNCHANGED <<first, deviceVars, serverVars>>
        PROVE Goal'
    <3>1. fetch[s].at = "reading"
      BY <1>6 DEF PickKey
    <3>2. k \in KeyId /\ row[k].gen # 0 /\ ~row[k].used /\ row[k].gen \in Gen
      BY <2>2
    <3>3. /\ \A t \in Sender : t # s => fetch'[t] = fetch[t]
          /\ fetch'[s].at = "picked" /\ fetch'[s].key = k
          /\ fetch'[s].keyGen = row[k].gen
      BY <2>2 DEF Hold
    <3>4. RowsOfPublished' /\ Stored'
      BY <2>2, <3>2, <3>3
    <3>10. fetch'[s].idGen = fetch[s].idGen
      BY <2>2 DEF Hold
    <3>11. Generations'
      BY <2>2, <3>2, <3>3, <3>10
    <3>12. UNCHANGED <<gen, setup, uploads, published, row, first>>
      BY <2>2
    <3>5. PostedOnce'
      BY <3>2, <3>3, <3>12
    <3>13. k # 0 /\ first[s] = "none"
      BY <3>1, <3>2
    <3>6. Requests'
      <4>1. \A t \in Sender : Issued(t)' => t # s /\ Issued(t)
        BY <3>3
      <4>2. QED BY <3>2, <3>3, <3>12, <3>13, <4>1
    <3>7. ASSUME NEW t \in Sender, t # s, fetch[t].key = k,
                 fetch[t].keyGen = row[k].gen
          PROVE  <<s, t>> \in met' /\ <<t, s>> \in met'
      <4>1. fetch[t].at = "picked"
        BY <3>2, <3>7
      <4>2. t \in InTransaction
        BY <4>1 DEF InTransaction
      <4>3. QED BY <2>2, <4>2
    <3>8. Shared'
      <4> SUFFICES ASSUME NEW a \in Sender, NEW b \in Sender, a # b,
                          fetch'[a].key # 0, fetch'[b].key # 0,
                          fetch'[a].key = fetch'[b].key,
                          fetch'[a].keyGen = fetch'[b].keyGen
                   PROVE  <<a, b>> \in met'
        OBVIOUS
      <4>1. CASE a = s
        BY <3>3, <3>7, <4>1
      <4>2. CASE b = s
        BY <3>3, <3>7, <4>2
      <4>3. CASE a # s /\ b # s
        BY <2>2, <3>3, <4>3
      <4>4. QED BY <4>1, <4>2, <4>3
    <3>9. QED BY <3>4, <3>11, <3>5, <3>6, <3>8
  <2>3. QED BY <1>6, <2>1, <2>2 DEF PickKey
<1>7. ASSUME NEW s \in Sender, MarkUsed(s) PROVE Goal'
  BY <1>7 DEF MarkUsed, Answer, Hold
<1>8. ASSUME NEW s \in Sender, MarkFails(s) \/ RefuseBundle(s) PROVE Goal'
  <2>1. CASE MarkFails(s)
    BY <2>1 DEF MarkFails, Forget, NoFetch
  <2>2. CASE RefuseBundle(s)
    BY <2>2 DEF RefuseBundle, Forget, NoFetch
  <2>3. QED BY <1>8, <2>1, <2>2
<1>9. ASSUME NEW s \in Sender, SendFirst(s) \/ FailFirst(s) PROVE Goal'
  BY <1>9 DEF SendFirst, FailFirst
<1>10. ASSUME NEW s \in Sender, ReadFirst(s) PROVE Goal'
  BY <1>10 DEF ReadFirst, HasPrivateHalves
<1>11. CASE UNCHANGED vars
  BY <1>11 DEF vars
<1>12. QED
  BY <1>1, <1>2, <1>3, <1>4, <1>5, <1>6, <1>7, <1>8, <1>9, <1>10, <1>11
     DEF Next

\* The reasons for which first messages failed stay, if no other fails, none is
\* forgotten as read, and the bundles behind the messages stay.
LEMMA ReasonsKept ==
  ASSUME FailsForAReason, gen' = gen,
         \A t \in Sender : first[t] # "none" => fetch'[t] = fetch[t],
         \A t \in Sender : first'[t] = "failed" => first[t] = "failed",
         \A t \in Sender : first[t] = "read" => first'[t] = "read"
  PROVE  FailsForAReason'
<1>1. SUFFICES ASSUME NEW u \in Sender, first'[u] = "failed"
               PROVE  \/ /\ fetch'[u].key # 0
                         /\ fetch'[u].keyGen # fetch'[u].idGen
                      \/ gen # fetch'[u].idGen
                      \/ \E v \in Sender :
                            v # u /\ Issued(v)' /\ SameKey(u, v)' /\ first'[v] = "read"
  BY DEF FailsForAReason
<1>2. first[u] = "failed" /\ fetch'[u] = fetch[u]
  BY <1>1
<1>3. ASSUME NEW v \in Sender, v # u, Issued(v), SameKey(u, v), first[v] = "read"
      PROVE  Issued(v)' /\ SameKey(u, v)' /\ first'[v] = "read"
  <2>1. fetch'[v] = fetch[v]
    BY <1>3
  <2>2. QED BY <1>2, <1>3, <2>1 DEF Issued, SameKey
<1>4. QED BY <1>2, <1>3 DEF FailsForAReason

\* A private half that is missing was spent, whichever step is taken.
LEMMA ReasonStep ==
  ASSUME IInv, [Next]_vars
  PROVE  Spent' /\ FailsForAReason'
<1> DEFINE Goal == Spent /\ FailsForAReason
<1> USE PrekeyAssumption
    DEF IInv, TypeOK, Generations, Requests, Issued, Spent, FailsForAReason,
        SameKey, Gen, deviceVars, serverVars, senderVars
<1>1. CASE Generate
  BY <1>1 DEF Generate, PostedOnce
<1>2. CASE StoreKeys \/ Post \/ Interrupt \/ ClearDevice
  BY <1>2 DEF StoreKeys, Post, Interrupt, ClearDevice, PostedOnce, Unseen
<1>3. ASSUME NEW g \in Gen, Upload(g) \/ UploadFails(g) PROVE Goal'
  BY <1>3 DEF Upload, UploadFails
<1>4. ASSUME NEW s \in Sender, ReadIdentity(s) \/ ReadSigned(s) PROVE Goal'
  <2>1. CASE ReadIdentity(s)
    <3>1. /\ \A t \in Sender : t # s => fetch'[t] = fetch[t]
          /\ fetch'[s].key = 0 /\ fetch[s].at = "idle"
          /\ UNCHANGED <<gen, identity, slot, first>>
      BY <2>1 DEF ReadIdentity, Hold
    <3>2. first[s] = "none" /\ ~Issued(s)
      BY <3>1
    <3>3. QED BY <3>1, <3>2
  <2>2. CASE ReadSigned(s)
    BY <2>2 DEF ReadSigned
  <2>3. QED BY <1>4, <2>1, <2>2
<1>5. ASSUME NEW s \in Sender, PickKey(s) PROVE Goal'
  <2>1. /\ fetch[s].at = "reading" /\ fetch[s].key = 0 /\ first[s] = "none"
        /\ UNCHANGED <<first, deviceVars, serverVars>>
    BY <1>5 DEF PickKey
  <2>2. /\ \A t \in Sender : t # s => fetch'[t] = fetch[t]
        /\ fetch'[s].idGen = fetch[s].idGen
    BY <1>5 DEF PickKey, Answer, Hold
  <2>3. FailsForAReason'
    <3>1. /\ gen' = gen /\ first' = first
          /\ \A t \in Sender : first[t] # "none" => fetch'[t] = fetch[t]
      BY <2>1, <2>2
    <3>2. QED BY <3>1, ReasonsKept
  <2>4. (fetch'[s].key # 0 /\ fetch'[s].keyGen = identity) =>
            slot[fetch'[s].key] = identity
    BY <1>5, <2>1 DEF PickKey, Answer, Hold, Stored, FreeKeysUsable,
                      RowsOfPublished, Free
  <2>5. Spent'
    BY <2>1, <2>2, <2>4
  <2>6. QED BY <2>3, <2>5
<1>6. ASSUME NEW s \in Sender, MarkUsed(s) PROVE Goal'
  BY <1>6 DEF MarkUsed, Answer, Hold
<1>7. ASSUME NEW s \in Sender, MarkFails(s) \/ RefuseBundle(s) PROVE Goal'
  <2>1. CASE MarkFails(s)
    BY <2>1 DEF MarkFails, Forget, NoFetch
  <2>2. CASE RefuseBundle(s)
    <3>1. /\ \A t \in Sender : t # s => fetch'[t] = fetch[t]
          /\ fetch'[s].key = 0 /\ first[s] = "none"
          /\ UNCHANGED <<gen, identity, slot, first>>
      BY <2>2 DEF RefuseBundle, Forget, NoFetch
    <3>2. QED BY <3>1
  <2>3. QED BY <1>7, <2>1, <2>2
<1>8. ASSUME NEW s \in Sender, SendFirst(s) PROVE Goal'
  BY <1>8 DEF SendFirst
<1>9. ASSUME NEW s \in Sender, ReadFirst(s) PROVE Goal'
  <2>1. /\ first' = [first EXCEPT ![s] = "read"] /\ first[s] = "sent"
        /\ slot' = [k \in KeyId |-> IF k = fetch[s].key THEN 0 ELSE slot[k]]
        /\ UNCHANGED <<gen, identity, fetch>>
        /\ fetch[s].key # 0 => fetch[s].keyGen = identity
    BY <1>9 DEF ReadFirst, HasPrivateHalves
  <2>2. first'[s] = "read" /\ \A t \in Sender : t # s => first'[t] = first[t]
    BY <2>1
  <2>3. FailsForAReason'
    <3>1. /\ \A t \in Sender : first'[t] = "failed" => first[t] = "failed"
          /\ \A t \in Sender : first[t] = "read" => first'[t] = "read"
          /\ gen' = gen /\ fetch' = fetch
      BY <2>1, <2>2
    <3>2. QED BY <3>1, ReasonsKept
  <2>4. ASSUME NEW t \in Sender, fetch[t].key # 0, fetch[t].keyGen = identity
        PROVE  \/ slot'[fetch[t].key] = identity
               \/ \E v \in Sender :
                     Issued(v) /\ SameKey(t, v) /\ first'[v] = "read"
    <3>1. CASE fetch[t].key = fetch[s].key
      <4>1. Issued(s) /\ SameKey(t, s)
        BY <2>1, <2>4, <3>1
      <4>2. QED BY <2>2, <4>1
    <3>2. CASE fetch[t].key # fetch[s].key
      <4>1. fetch[t].key \in KeyId
        BY <2>4
      <4>2. slot'[fetch[t].key] = slot[fetch[t].key]
        BY <2>1, <3>2, <4>1
      <4>3. \A v \in Sender : first[v] = "read" => first'[v] = "read"
        BY <2>2
      <4>4. QED BY <2>4, <4>2, <4>3
    <3>3. QED BY <3>1, <3>2
  <2>5. Spent'
    BY <2>1, <2>4
  <2>6. QED BY <2>3, <2>5
<1>10. ASSUME NEW s \in Sender, FailFirst(s) PROVE Goal'
  <2>1. /\ first' = [first EXCEPT ![s] = "failed"] /\ first[s] = "sent"
        /\ identity = gen /\ ~HasPrivateHalves(s)
        /\ UNCHANGED <<gen, identity, slot, fetch>>
    BY <1>10 DEF FailFirst
  <2>2. CASE fetch[s].idGen # identity \/ fetch[s].keyGen # fetch[s].idGen
    BY <2>1, <2>2 DEF HasPrivateHalves
  <2>3. CASE fetch[s].idGen = identity /\ fetch[s].keyGen = fetch[s].idGen
    <3>1. fetch[s].key # 0 /\ slot[fetch[s].key] # identity
      BY <2>1, <2>3 DEF HasPrivateHalves
    <3>2. PICK t \in Sender :
             Issued(t) /\ SameKey(s, t) /\ first[t] = "read"
      BY <2>3, <3>1
    <3>3. t # s
      BY <2>1, <3>2
    <3>4. \A u \in Sender : first[u] = "read" => first'[u] = "read"
      BY <2>1
    <3>5. Spent'
      BY <2>1, <3>4
    <3>6. ASSUME NEW u \in Sender, first'[u] = "failed", u # s
          PROVE  \/ fetch[u].key # 0 /\ fetch[u].keyGen # fetch[u].idGen
                 \/ gen # fetch[u].idGen
                 \/ \E v \in Sender : v # u /\ Issued(v) /\ SameKey(u, v)
                                      /\ first'[v] = "read"
      <4>1. first[u] = "failed"
        BY <2>1, <3>6
      <4>2. QED BY <3>4, <4>1
    <3>7. FailsForAReason'
      BY <2>1, <3>2, <3>3, <3>4, <3>6
    <3>8. QED BY <3>5, <3>7
  <2>4. QED BY <2>2, <2>3
<1>11. CASE UNCHANGED vars
  BY <1>11 DEF vars
<1>12. QED
  BY <1>1, <1>2, <1>3, <1>4, <1>5, <1>6, <1>7, <1>8, <1>9, <1>10, <1>11
     DEF Next

\* IInv is inductive: every state of Prekeys satisfies it.
THEOREM PrekeysIInv == Spec => []IInv
<1>1. IInv /\ [Next]_vars => IInv'
  BY TypeStep, InvStep, ReasonStep DEF IInv
<1>2. QED BY InitIInv, <1>1, PTL DEF Spec

\* The device, the server and the requests keep to the states TypeOK lists.
THEOREM PrekeysTypeCorrect == Spec => []TypeOK
BY PrekeysIInv, PTL DEF IInv

\* The server hands out keys of the published identity only.
THEOREM KeysOfPublishedIdentity == Spec => []RowsOfPublished
BY PrekeysIInv, PTL DEF IInv

\* As long as the device holds the identity that is published, it can answer
\* for every key the server may still hand out.
THEOREM HandedOutKeysWork == Spec => []FreeKeysUsable
<1>1. IInv => FreeKeysUsable
  BY DEF IInv, Stored
<1>2. QED BY PrekeysIInv, <1>1, PTL

\* Only requests that were in the transaction together share a key, however
\* many there are and however often the account is set up again.
THEOREM OnlyOverlappingShare == Spec => []SharedOnlyIfMet
<1>1. IInv => SharedOnlyIfMet
  BY DEF IInv, Shared, SharedOnlyIfMet, Issued
<1>2. QED BY PrekeysIInv, <1>1, PTL

\* The first message of a new session is unreadable only when its key was
\* shared, when its bundle straddles an upload, or after a new identity.
THEOREM FirstMessagesRead == Spec => []FailsForAReason
BY PrekeysIInv, PTL DEF IInv
=============================================================================
