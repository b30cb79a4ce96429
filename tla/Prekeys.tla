------------------------------ MODULE Prekeys ------------------------------
(***************************************************************************)
(* The prekeys of one account: generated and kept by its device            *)
(* (web/lib/signal), published to the server and handed out by it          *)
(* (server/src/controllers/keys.controller.ts), spent by the first message *)
(* of every new session.                                                   *)
(*                                                                         *)
(* A generation numbers the identities the account has had: a device whose *)
(* data is cleared, or a new device, makes a new one.  Generation 0 stands *)
(* for "none".  Key ids repeat in every generation.                        *)
(*                                                                         *)
(* Prisma runs an interactive transaction at READ COMMITTED: the upload's  *)
(* statements lock the same rows and are one step, the fetch's SELECT and  *)
(* UPDATE are two.  The identity key and the signed prekey are read before *)
(* the transaction starts, each by a SELECT of its own, in either order.   *)
(***************************************************************************)
EXTENDS Naturals, FiniteSets

CONSTANTS
    Sender,  \* requests for the bundle, each followed by a first message
    KeyId,   \* one-time prekey ids of a batch (1..100 in the code)
    MaxGen   \* bound: identities the account may go through

ASSUME PrekeyAssumption == KeyId \subseteq Nat \ {0} /\ MaxGen \in Nat

VARIABLES
    gen,        \* the last identity generated
    setup,      \* where generateAndPublishBundle stands
    identity,   \* the identity in the device's IndexedDB
    slot,       \* the generation of the private half stored under a key id
    uploads,    \* bundles on their way to the server
    published,  \* the generation of the server's IdentityKey and SignedPreKey
    row,        \* the OneTimePreKey rows
    fetch,      \* the bundle each sender has got so far
    signed,     \* the identity that signed the prekey each sender has got
    first,      \* what became of each sender's first message
    met         \* pairs of senders in the transaction together (auxiliary)

deviceVars == <<gen, setup, identity, slot>>
serverVars == <<uploads, published, row>>
senderVars == <<fetch, signed, first, met>>
vars == <<deviceVars, serverVars, senderVars>>

Gen == 0 .. MaxGen
NoRow == [gen |-> 0, used |-> FALSE]
NoFetch == [at |-> "idle", idGen |-> 0, keyGen |-> 0, key |-> 0]

TypeOK ==
    /\ gen \in Gen
    /\ setup \in {"idle", "storing", "posting"}
    /\ identity \in Gen
    /\ slot \in [KeyId -> Gen]
    /\ uploads \subseteq Gen \ {0}
    /\ published \in Gen
    /\ row \in [KeyId -> [gen : Gen, used : BOOLEAN]]
    /\ fetch \in [Sender -> [at : {"idle", "reading", "picked", "answered"},
                             idGen : Gen, keyGen : Gen, key : KeyId \cup {0}]]
    /\ signed \in [Sender -> Gen]
    /\ first \in [Sender -> {"none", "sent", "read", "failed"}]
    /\ met \subseteq Sender \X Sender

Init ==
    /\ gen = 0
    /\ setup = "idle"
    /\ identity = 0
    /\ slot = [k \in KeyId |-> 0]
    /\ uploads = {}
    /\ published = 0
    /\ row = [k \in KeyId |-> NoRow]
    /\ fetch = [s \in Sender |-> NoFetch]
    /\ signed = [s \in Sender |-> 0]
    /\ first = [s \in Sender |-> "none"]
    /\ met = {}

-----------------------------------------------------------------------------
(* The device                                                              *)

\* init finds no local identity: keys are generated and the identity stored.
Generate ==
    /\ setup = "idle"
    /\ identity = 0
    /\ gen < MaxGen
    /\ gen' = gen + 1
    /\ identity' = gen + 1
    /\ setup' = "storing"
    /\ UNCHANGED <<slot, serverVars, senderVars>>

\* Mutation: the bundle is posted without its private halves being stored.
StoreNothing ==
    /\ setup = "storing"
    /\ setup' = "posting"
    /\ UNCHANGED <<gen, identity, slot, serverVars, senderVars>>

\* Mutation: the batch is numbered from 0.
StoreFromZero ==
    /\ setup = "storing"
    /\ slot' = [k \in {n - 1 : n \in KeyId} |-> identity]
    /\ setup' = "posting"
    /\ UNCHANGED <<gen, identity, serverVars, senderVars>>

\* The private halves are in place.
StoreKeys ==
    /\ setup = "storing"
    /\ slot' = [k \in KeyId |-> identity]
    /\ setup' = "posting"
    /\ UNCHANGED <<gen, identity, serverVars, senderVars>>

\* The bundle is posted; whatever the answer, init never posts it again.
Post ==
    /\ setup = "posting"
    /\ uploads' = uploads \cup {identity}
    /\ setup' = "idle"
    /\ UNCHANGED <<gen, identity, slot, published, row, senderVars>>

\* The page goes away in the middle of the setup.  The identity is stored,
\* so the next init finds it and does not set up again.
Interrupt ==
    /\ setup # "idle"
    /\ setup' = "idle"
    /\ UNCHANGED <<gen, identity, slot, serverVars, senderVars>>

\* The account moves to a device, or a browser, without its data.
ClearDevice ==
    /\ identity # 0
    /\ setup' = "idle"
    /\ identity' = 0
    /\ slot' = [k \in KeyId |-> 0]
    /\ UNCHANGED <<gen, serverVars, senderVars>>

-----------------------------------------------------------------------------
(* The server                                                              *)

\* Mutation: the rows of the last batch are not deleted, and createMany
\* skips the key ids they hold.
UploadOnTop(g) ==
    /\ g \in uploads
    /\ uploads' = uploads \ {g}
    /\ published' = g
    /\ row' = [k \in KeyId |->
                 IF row[k].gen = 0 THEN [gen |-> g, used |-> FALSE] ELSE row[k]]
    /\ UNCHANGED <<deviceVars, senderVars>>

\* uploadPreKeyBundle's transaction.
Upload(g) ==
    /\ g \in uploads
    /\ uploads' = uploads \ {g}
    /\ published' = g
    /\ row' = [k \in KeyId |-> [gen |-> g, used |-> FALSE]]
    /\ UNCHANGED <<deviceVars, senderVars>>

\* The request is lost, or its transaction rolls back.
UploadFails(g) ==
    /\ g \in uploads
    /\ uploads' = uploads \ {g}
    /\ UNCHANGED <<deviceVars, published, row, senderVars>>

Hold(s, at, idGen, keyGen, key) ==
    fetch' = [fetch EXCEPT ![s] =
                [at |-> at, idGen |-> idGen, keyGen |-> keyGen, key |-> key]]

\* The answer goes out with what the request holds.
Answer(s) == Hold(s, "answered", fetch[s].idGen, fetch[s].keyGen, fetch[s].key)

\* fetchPreKeyBundle reads the user, its identity key and its signed prekey;
\* without them the answer is 404.
ReadIdentity(s) ==
    /\ fetch[s].at = "idle"
    /\ published # 0
    /\ Hold(s, "reading", published, 0, 0)
    /\ UNCHANGED <<deviceVars, serverVars, signed, first, met>>

ReadSigned(s) ==
    /\ signed[s] = 0
    /\ published # 0
    /\ signed' = [signed EXCEPT ![s] = published]
    /\ UNCHANGED <<deviceVars, serverVars, fetch, first, met>>

Free == {k \in KeyId : row[k].gen # 0 /\ ~row[k].used}
InTransaction == {s \in Sender : fetch[s].at = "picked"}

\* The transaction's findFirst: the lowest unused key, or none.
PickKey(s) ==
    /\ fetch[s].at = "reading"
    /\ signed[s] # 0
    /\ \/ /\ Free = {}
          /\ Answer(s)
          /\ UNCHANGED met
       \/ \E k \in Free :
          /\ \A n \in Free : k <= n
          /\ Hold(s, "picked", fetch[s].idGen, row[k].gen, k)
          /\ met' = met \cup ({s} \X InTransaction) \cup (InTransaction \X {s})
    /\ UNCHANGED <<deviceVars, serverVars, signed, first>>

\* Mutation: the chosen key is not marked used.
AnswerOnly(s) ==
    /\ fetch[s].at = "picked"
    /\ row[fetch[s].key].gen = fetch[s].keyGen
    /\ Answer(s)
    /\ UNCHANGED <<deviceVars, serverVars, signed, first, met>>

\* The update by row id.  The row is found whether or not another request
\* has marked it used meanwhile.
MarkUsed(s) ==
    /\ fetch[s].at = "picked"
    /\ row[fetch[s].key].gen = fetch[s].keyGen
    /\ row' = [row EXCEPT ![fetch[s].key] =
                [gen |-> fetch[s].keyGen, used |-> TRUE]]
    /\ Answer(s)
    /\ UNCHANGED <<deviceVars, uploads, published, signed, first, met>>

\* The sender is left without a bundle.  Its next message asks for another.
Forget(s) ==
    /\ fetch' = [fetch EXCEPT ![s] = NoFetch]
    /\ signed' = [signed EXCEPT ![s] = 0]
    /\ UNCHANGED <<deviceVars, serverVars, first, met>>

\* An upload has deleted the row: the request fails.
MarkFails(s) ==
    /\ fetch[s].at = "picked"
    /\ row[fetch[s].key].gen # fetch[s].keyGen
    /\ Forget(s)

-----------------------------------------------------------------------------
(* The first message                                                       *)

\* processPreKey refuses a prekey that another identity has signed.
RefuseBundle(s) ==
    /\ fetch[s].at = "answered"
    /\ first[s] = "none"
    /\ signed[s] # fetch[s].idGen
    /\ Forget(s)

\* processPreKey and encrypt.
SendFirst(s) ==
    /\ fetch[s].at = "answered"
    /\ first[s] = "none"
    /\ signed[s] = fetch[s].idGen
    /\ first' = [first EXCEPT ![s] = "sent"]
    /\ UNCHANGED <<deviceVars, serverVars, fetch, signed, met>>

HasPrivateHalves(s) ==
    /\ fetch[s].idGen = identity
    /\ fetch[s].key # 0 => slot[fetch[s].key] = fetch[s].keyGen
                              /\ fetch[s].keyGen = identity

\* decryptPreKeyWhisperMessage needs the private half of every key the
\* sender used; the one-time one is removed when the message has been read.
ReadFirst(s) ==
    /\ first[s] = "sent"
    /\ identity # 0
    /\ HasPrivateHalves(s)
    /\ first' = [first EXCEPT ![s] = "read"]
    /\ slot' = [k \in KeyId |-> IF k = fetch[s].key THEN 0 ELSE slot[k]]
    /\ UNCHANGED <<gen, setup, identity, serverVars, fetch, signed, met>>

\* "Bad MAC".
FailFirst(s) ==
    /\ first[s] = "sent"
    /\ identity # 0
    /\ ~HasPrivateHalves(s)
    /\ first' = [first EXCEPT ![s] = "failed"]
    /\ UNCHANGED <<deviceVars, serverVars, fetch, signed, met>>

-----------------------------------------------------------------------------

Next ==
    \/ Generate \/ StoreKeys \/ Post \/ Interrupt \/ ClearDevice
    \/ \E g \in Gen : Upload(g) \/ UploadFails(g)
    \/ \E s \in Sender :
          \/ ReadIdentity(s) \/ ReadSigned(s)
          \/ PickKey(s) \/ MarkUsed(s) \/ MarkFails(s)
          \/ RefuseBundle(s) \/ SendFirst(s) \/ ReadFirst(s) \/ FailFirst(s)

Spec == Init /\ [][Next]_vars

-----------------------------------------------------------------------------
(* Properties                                                              *)

\* The server never hands out a one-time key of an identity it has replaced:
\* all its rows belong to the published one.
RowsOfPublished ==
    \A k \in KeyId : row[k].gen # 0 => row[k].gen = published

\* While the device holds the published identity, it also holds the private
\* half of every one-time key the server may still hand out.
FreeKeysUsable ==
    published = identity => \A k \in Free : slot[k] = identity

Issued(s) == fetch[s].at = "answered" /\ fetch[s].key # 0
SameKey(s, t) ==
    fetch[s].key = fetch[t].key /\ fetch[s].keyGen = fetch[t].keyGen

\* Two requests get the same one-time key only if both were between findFirst
\* and update at some time.
SharedOnlyIfMet ==
    \A s, t \in Sender :
        (s # t /\ Issued(s) /\ Issued(t) /\ SameKey(s, t)) => <<s, t>> \in met

\* A first message fails only if another one with its key was read before, or
\* its sender read the bundle on one side of an upload and the key on the
\* other, or the account moved to a new identity.
FailsForAReason ==
    \A s \in Sender :
        first[s] = "failed" =>
            \/ fetch[s].key # 0 /\ fetch[s].keyGen # fetch[s].idGen
            \/ gen # fetch[s].idGen
            \/ \E t \in Sender :
                  t # s /\ Issued(t) /\ SameKey(s, t) /\ first[t] = "read"

\* keys.controller.ts:99: "atomically marked used so it is never issued
\* twice".
NeverIssuedTwice ==
    \A s, t \in Sender :
        (s # t /\ Issued(s) /\ Issued(t)) => ~SameKey(s, t)
=============================================================================
