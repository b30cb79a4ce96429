------------------------------- MODULE Inbox -------------------------------
(***************************************************************************)
(* How messages reach one recipient: the live relay over the recipient's   *)
(* socket, the inbox rows that back it, and the client that merges the two *)
(* (server/src/sockets/signal.gateway.ts, messages.controller.ts and the   *)
(* init effect of web/app/chat/page.tsx).                                  *)
(*                                                                         *)
(* Every await of the client is a point where another handler may run, so  *)
(* a handler is a chain of actions through pc[m].  The server emits first, *)
(* acknowledges, and stores the row afterwards, so the row lags the relay. *)
(*                                                                         *)
(* Receipts travel as a set: two equal receipts in flight are one.  Their  *)
(* effect on a row is the same whichever of them is applied.               *)
(*                                                                         *)
(* The faults that may happen, each any number of times, are the members   *)
(* of Faults.                                                              *)
(***************************************************************************)
EXTENDS Naturals, FiniteSets

CONSTANTS
    Msg,        \* messages that may be sent to this recipient
    Thread,     \* threads of the recipient: peers and groups
    NoThread,   \* no thread is open on the screen
    ThreadOf,   \* the thread each message belongs to
    ViewOnce,   \* the messages sent as view-once
    PageSize,   \* rows one inbox request returns at most (200 in the code)
    Faults      \* the faults of this environment

FaultNames ==
    {"drop", "reload", "serverCrash", "persistFails", "fetchFails",
     "lookupFails", "badCipher", "updateFails"}

ASSUME ConstAssumption ==
    /\ ThreadOf \in [Msg -> Thread]
    /\ NoThread \notin Thread
    /\ ViewOnce \subseteq Msg
    /\ PageSize \in Nat \ {0}
    /\ Faults \subseteq FaultNames

VARIABLES
    relayed,     \* messages the server has accepted from a sender
    persisting,  \* messages whose prisma.message.create is under way
    row,         \* the Message table
    downlink,    \* live emits on their way to the client
    uplink,      \* receipts the client emitted and the server has not read
    jobs,        \* receipt handlers of the server waiting on the database
    conn,        \* the socket: joined by the server, then seen by the client
    boot,        \* progress of the init effect
    seen,        \* seenMessageIds
    pc,          \* where the handler of a message stands in this session
    inPass,      \* the message the catch-up pass is handling, if any
    snap,        \* the history appendMessage read and has not written yet
    keyUsed,     \* message keys consumed in the Signal store
    store,       \* copies of a message in the local history
    entered,     \* messages ever written to the history (auxiliary)
    active,      \* activePeerRef / activeGroupRef
    opening,     \* threads whose history markThreadRead has yet to read
    toMark,      \* messages markThreadRead has yet to acknowledge
    sync,        \* inboxSyncRunning and where the pass stands
    queued,      \* inboxSyncQueued
    batch        \* rows of the fetched page not handled yet

serverVars == <<relayed, persisting, row, jobs>>
netVars == <<downlink, uplink, conn>>
handlerVars == <<seen, pc, inPass, snap>>
localVars == <<keyUsed, store, entered>>
screenVars == <<active, opening, toMark>>
syncVars == <<boot, sync, queued, batch>>

vars == <<serverVars, netVars, handlerVars, localVars, screenVars, syncVars>>

Receipt == [msg : Msg, kind : {"DELIVERED", "READ", "VIEWED"}]
Delivered(m) == [msg |-> m, kind |-> "DELIVERED"]
Read(m) == [msg |-> m, kind |-> "READ"]
Viewed(m) == [msg |-> m, kind |-> "VIEWED"]

\* Mutation: a viewed event is stored under its own name.
StatusAsSent(r) == r.kind

\* The status a receipt writes.  A viewed event records READ.
StatusOf(r) == IF r.kind = "VIEWED" THEN "READ" ELSE r.kind

Stage ==
    {"idle", "decrypting", "ensuring", "writing", "stored", "showing",
     "acking", "stuck", "done"}

\* Stages in which the key is consumed and the message not yet stored.
InHand == {"ensuring", "writing"}

Nothing == [m \in Msg |-> 0]

TypeOK ==
    /\ relayed \subseteq Msg
    /\ persisting \subseteq Msg
    /\ row \in [Msg -> {"none", "SENT", "DELIVERED", "READ"}]
    /\ downlink \subseteq Msg
    /\ uplink \subseteq Receipt
    /\ jobs \subseteq Receipt
    /\ conn \in {"down", "joined", "up"}
    /\ boot \in {"closed", "opening", "catchingUp", "ready"}
    /\ seen \subseteq Msg
    /\ pc \in [Msg -> Stage]
    /\ inPass \subseteq Msg
    /\ snap \in [Msg -> [Msg -> Nat]]
    /\ keyUsed \subseteq Msg
    /\ store \in [Msg -> Nat]
    /\ entered \subseteq Msg
    /\ active \in Thread \cup {NoThread}
    /\ opening \subseteq Thread
    /\ toMark \subseteq Msg
    /\ sync \in {"idle", "fetching", "passing"}
    /\ queued \in BOOLEAN
    /\ batch \subseteq Msg

Init ==
    /\ relayed = {}
    /\ persisting = {}
    /\ row = [m \in Msg |-> "none"]
    /\ downlink = {}
    /\ uplink = {}
    /\ jobs = {}
    /\ conn = "down"
    /\ boot = "closed"
    /\ seen = {}
    /\ pc = [m \in Msg |-> "idle"]
    /\ inPass = {}
    /\ snap = [m \in Msg |-> Nothing]
    /\ keyUsed = {}
    /\ store = Nothing
    /\ entered = {}
    /\ active = NoThread
    /\ opening = {}
    /\ toMark = {}
    /\ sync = "idle"
    /\ queued = FALSE
    /\ batch = {}

\* socket.emit: sent at once, or buffered until the socket is up.
Emit(rs) == uplink' = uplink \cup rs

\* The end of both handlers, reached on success and from the catch block.
Finish(m) ==
    /\ pc' = [pc EXCEPT ![m] = "done"]
    /\ inPass' = inPass \ {m}
    /\ Emit({Delivered(m)})

-----------------------------------------------------------------------------
(* The server                                                              *)

\* signal:message, from the emit on: the recipient's room gets the message
\* if a socket has joined it, the sender gets its ack, and the row's create
\* is started without being awaited.
Relay(m) ==
    /\ m \notin relayed
    /\ relayed' = relayed \cup {m}
    /\ downlink' = IF conn = "down" THEN downlink ELSE downlink \cup {m}
    /\ persisting' = persisting \cup {m}
    /\ UNCHANGED <<row, jobs, uplink, conn, handlerVars, localVars,
                   screenVars, syncVars>>

\* The create settles; a failure is only logged.
Persist(m) ==
    /\ m \in persisting
    /\ persisting' = persisting \ {m}
    /\ \/ row' = [row EXCEPT ![m] = "SENT"]
       \/ "persistFails" \in Faults /\ UNCHANGED row
    /\ UNCHANGED <<relayed, jobs, netVars, handlerVars, localVars,
                   screenVars, syncVars>>

\* A receipt or viewed event reaches the server and its handler starts.
ReceiveReceipt(r) ==
    /\ conn = "up"
    /\ r \in uplink
    /\ uplink' = uplink \ {r}
    /\ jobs' = jobs \cup {r}
    /\ UNCHANGED <<relayed, persisting, row, downlink, conn, handlerVars,
                   localVars, screenVars, syncVars>>

\* The ack of a READ lets the live handler that awaits it go on, if the
\* socket that carried the receipt is still there.
ResumeAfterAck(r) ==
    LET m == r.msg
    IN  IF r.kind = "READ" /\ pc[m] = "acking" /\ conn = "up"
        THEN Finish(m)
        ELSE UNCHANGED <<pc, inPass, uplink>>

\* updateMessageWithRetry finds the row: the status is overwritten, whatever
\* it was, and the ciphertext dropped.
ApplyReceipt(r) ==
    /\ r \in jobs
    /\ row[r.msg] # "none"
    /\ jobs' = jobs \ {r}
    /\ row' = [row EXCEPT ![r.msg] = StatusOf(r)]
    /\ ResumeAfterAck(r)
    /\ UNCHANGED <<relayed, persisting, downlink, conn, seen, snap,
                   localVars, screenVars, syncVars>>

\* The last attempt fails too, for the row is still missing or for another
\* error of the database: ack {ok: false}.
GiveUpReceipt(r) ==
    /\ r \in jobs
    /\ row[r.msg] = "none" \/ "updateFails" \in Faults
    /\ jobs' = jobs \ {r}
    /\ ResumeAfterAck(r)
    /\ UNCHANGED <<relayed, persisting, row, downlink, conn, seen, snap,
                   localVars, screenVars, syncVars>>

-----------------------------------------------------------------------------
(* The socket                                                              *)

\* The server's connection handler: the new socket joins the user's room.
Join ==
    /\ boot # "closed"
    /\ conn = "down"
    /\ conn' = "joined"
    /\ UNCHANGED <<serverVars, downlink, uplink, handlerVars, localVars,
                   screenVars, syncVars>>

\* catchUpInbox(): a call during a pass only asks for another one.
CatchUp ==
    IF sync = "idle"
    THEN sync' = "fetching" /\ queued' = FALSE
    ELSE queued' = TRUE /\ UNCHANGED sync

\* The client's "connect" handler, which catches up only once init has.
OnConnect ==
    /\ conn = "joined"
    /\ conn' = "up"
    /\ IF boot = "ready" THEN CatchUp ELSE UNCHANGED <<sync, queued>>
    /\ UNCHANGED <<serverVars, downlink, uplink, handlerVars, localVars,
                   screenVars, boot, batch>>

\* What the loss of the socket does to the client.  Frames in flight on an
\* established socket are lost in both directions; socket.io keeps what was
\* emitted before the connect event.  An ack that is still awaited never
\* comes, so the handler that awaits it, and markThreadRead if it was
\* waiting, stay where they are for good.
LoseSocket ==
    /\ conn' = "down"
    /\ downlink' = {}
    /\ IF conn = "up"
       THEN /\ uplink' = {}
            /\ pc' = [m \in Msg |->
                        IF pc[m] = "acking" THEN "stuck" ELSE pc[m]]
            /\ toMark' \in {toMark, {}}
       ELSE UNCHANGED <<uplink, pc, toMark>>

Drop ==
    /\ "drop" \in Faults
    /\ conn # "down"
    /\ LoseSocket
    /\ UNCHANGED <<serverVars, seen, inPass, snap, localVars, active, opening,
                   syncVars>>

\* The server process restarts: what it had not handed to the database yet
\* is gone with its memory.
ServerCrash ==
    /\ "serverCrash" \in Faults
    /\ persisting' = {}
    /\ jobs' = {}
    /\ LoseSocket
    /\ UNCHANGED <<relayed, row, seen, inPass, snap, localVars, active, opening,
                   syncVars>>

-----------------------------------------------------------------------------
(* The handler of one message                                              *)

\* seenMessageIds.add and the start of decryptMessage, before any await.
Begin(m) ==
    /\ seen' = seen \cup {m}
    /\ pc' = [pc EXCEPT ![m] = "decrypting"]

\* The "signal:message" handler up to its first await.
ReceiveLive(m) ==
    /\ conn = "up"
    /\ m \in downlink
    /\ downlink' = downlink \ {m}
    /\ IF m \in seen
       THEN Emit({Delivered(m)}) /\ UNCHANGED <<seen, pc>>
       ELSE Begin(m) /\ UNCHANGED uplink
    /\ UNCHANGED <<serverVars, conn, inPass, snap, localVars, screenVars, syncVars>>

\* Mutation: the consumed key is not written to the Signal store.
DecryptForgets(m) ==
    /\ pc[m] = "decrypting"
    /\ m \notin keyUsed
    /\ pc' = [pc EXCEPT ![m] = "ensuring"]
    /\ UNCHANGED <<serverVars, netVars, seen, inPass, snap, localVars,
                   screenVars, syncVars>>

\* decryptMessage: a message key serves once, in whatever session.
DecryptOk(m) ==
    /\ pc[m] = "decrypting"
    /\ m \notin keyUsed
    /\ keyUsed' = keyUsed \cup {m}
    /\ pc' = [pc EXCEPT ![m] = "ensuring"]
    /\ UNCHANGED <<serverVars, netVars, seen, inPass, snap, store, entered,
                   screenVars, syncVars>>

DecryptFails(m) ==
    /\ pc[m] = "decrypting"
    /\ m \in keyUsed \/ "badCipher" \in Faults
    /\ Finish(m)
    /\ UNCHANGED <<serverVars, downlink, conn, seen, snap, localVars,
                   screenVars, syncVars>>

\* ensureConversation / ensureGroup ask the server who the peer is; then
\* appendMessage reads the thread ...
EnsureThread(m) ==
    /\ pc[m] = "ensuring"
    /\ pc' = [pc EXCEPT ![m] = "writing"]
    /\ snap' = [snap EXCEPT ![m] =
                  [n \in Msg |->
                     IF ThreadOf[n] = ThreadOf[m] THEN store[n] ELSE 0]]
    /\ UNCHANGED <<serverVars, netVars, seen, inPass, localVars, screenVars,
                   syncVars>>

LookupFails(m) ==
    /\ "lookupFails" \in Faults
    /\ pc[m] = "ensuring"
    /\ Finish(m)
    /\ UNCHANGED <<serverVars, downlink, conn, seen, snap, localVars,
                   screenVars, syncVars>>

\* ... and writes back what it read with the message added.
AppendWrite(m) ==
    /\ pc[m] = "writing"
    /\ store' = [n \in Msg |->
                   IF ThreadOf[n] # ThreadOf[m] THEN store[n]
                   ELSE IF n = m THEN snap[m][n] + 1 ELSE snap[m][n]]
    /\ snap' = [snap EXCEPT ![m] = Nothing]
    /\ entered' = entered \cup {m}
    /\ pc' = [pc EXCEPT ![m] = "stored"]
    /\ UNCHANGED <<serverVars, netVars, seen, inPass, keyUsed, screenVars,
                   syncVars>>

\* "Is this thread open?", asked once the write is through.  If it is, the
\* handler first reads the thread for the screen.
DecideOpen(m) ==
    /\ pc[m] = "stored"
    /\ IF active = ThreadOf[m]
       THEN pc' = [pc EXCEPT ![m] = "showing"] /\ UNCHANGED <<inPass, uplink>>
       ELSE Finish(m)
    /\ UNCHANGED <<serverVars, downlink, conn, seen, snap, localVars,
                   screenVars, syncVars>>

\* Mutation: the catch-up pass awaits its READ receipt like the live handler.
AckShownAwaiting(m) ==
    /\ pc[m] = "showing"
    /\ Emit({Read(m)})
    /\ pc' = [pc EXCEPT ![m] = "acking"]
    /\ UNCHANGED <<serverVars, downlink, conn, seen, inPass, snap, localVars,
                   screenVars, syncVars>>

\* The READ receipt, whatever is open by now.  The live handler awaits its
\* ack before it goes on to DELIVERED, and the catch-up pass does not.
AckShown(m) ==
    /\ pc[m] = "showing"
    /\ IF m \in inPass
       THEN /\ Emit({Read(m), Delivered(m)})
            /\ pc' = [pc EXCEPT ![m] = "done"]
            /\ inPass' = inPass \ {m}
       ELSE /\ Emit({Read(m)})
            /\ pc' = [pc EXCEPT ![m] = "acking"]
            /\ UNCHANGED inPass
    /\ UNCHANGED <<serverVars, downlink, conn, seen, snap, localVars,
                   screenVars, syncVars>>

-----------------------------------------------------------------------------
(* The catch-up pass                                                       *)

Stored == {m \in Msg : row[m] = "SENT"}

\* The pass handles one message at a time.
PassBusy == inPass # {}

\* Mutation: a fetched page is acknowledged before it is handled.
FetchAcknowledges ==
    /\ sync = "fetching"
    /\ sync' = "passing"
    /\ batch' = Stored
    /\ Emit({Delivered(m) : m \in Stored})
    /\ UNCHANGED <<serverVars, downlink, conn, handlerVars, localVars,
                   screenVars, boot, queued>>

\* fetchInbox: at most PageSize of the rows still in SENT.  Which of them
\* come first does not matter here.
FetchAnswer ==
    /\ sync = "fetching"
    /\ sync' = "passing"
    /\ \E page \in SUBSET Stored :
          /\ Cardinality(page) <= PageSize
          /\ page # Stored => Cardinality(page) = PageSize
          /\ batch' = page
    /\ UNCHANGED <<serverVars, netVars, handlerVars, localVars, screenVars,
                   boot, queued>>

\* The awaited catchUpInbox() of init is over: inboxReady = true.
InitGoesOn == boot' = IF boot = "catchingUp" THEN "ready" ELSE boot

\* The request fails: the pass returns at once.
FetchFails ==
    /\ "fetchFails" \in Faults
    /\ sync = "fetching"
    /\ sync' = "idle"
    /\ InitGoesOn
    /\ UNCHANGED <<serverVars, netVars, handlerVars, localVars, screenVars,
                   queued, batch>>

\* Mutation: the pass does not consult seenMessageIds.
PassAgain(m) ==
    /\ sync = "passing"
    /\ ~PassBusy
    /\ m \in batch
    /\ batch' = batch \ {m}
    /\ Begin(m) /\ inPass' = {m}
    /\ UNCHANGED <<serverVars, netVars, snap, localVars, screenVars, boot,
                   sync, queued>>

\* Mutation: a message already seen is skipped without a receipt.
PassSkipsSeen(m) ==
    /\ sync = "passing"
    /\ ~PassBusy
    /\ m \in batch
    /\ batch' = batch \ {m}
    /\ IF m \in seen
       THEN UNCHANGED <<seen, pc, inPass>>
       ELSE Begin(m) /\ inPass' = {m}
    /\ UNCHANGED <<serverVars, netVars, snap, localVars, screenVars, boot,
                   sync, queued>>

PassMessage(m) ==
    /\ sync = "passing"
    /\ ~PassBusy
    /\ m \in batch
    /\ batch' = batch \ {m}
    /\ IF m \in seen
       THEN Emit({Delivered(m)}) /\ UNCHANGED <<seen, pc, inPass>>
       ELSE Begin(m) /\ inPass' = {m} /\ UNCHANGED uplink
    /\ UNCHANGED <<serverVars, downlink, conn, snap, localVars, screenVars,
                   boot, sync, queued>>

\* do ... while (inboxSyncQueued)
PassEnd ==
    /\ sync = "passing"
    /\ ~PassBusy
    /\ batch = {}
    /\ IF queued
       THEN sync' = "fetching" /\ queued' = FALSE /\ UNCHANGED boot
       ELSE sync' = "idle" /\ InitGoesOn /\ UNCHANGED queued
    /\ UNCHANGED <<serverVars, netVars, handlerVars, localVars, screenVars,
                   batch>>

-----------------------------------------------------------------------------
(* The user and the page                                                   *)

\* The page opens: a new session, its socket starts to connect.
Launch ==
    /\ boot = "closed"
    /\ boot' = "opening"
    /\ UNCHANGED <<serverVars, netVars, handlerVars, localVars, screenVars,
                   sync, queued, batch>>

\* Init reaches its own catch-up, whether or not the socket is there yet.
InitCatchUp ==
    /\ boot = "opening"
    /\ boot' = "catchingUp"
    /\ CatchUp
    /\ UNCHANGED <<serverVars, netVars, handlerVars, localVars, screenVars,
                   batch>>

\* The app returns to the foreground.
Resume ==
    /\ boot \in {"catchingUp", "ready"}
    /\ CatchUp
    /\ UNCHANGED <<serverVars, netVars, handlerVars, localVars, screenVars,
                   boot, batch>>

\* The user opens a thread.
OpenThread(t) ==
    /\ boot # "closed"
    /\ active' = t
    /\ opening' = opening \cup {t}
    /\ UNCHANGED <<serverVars, netVars, handlerVars, localVars, toMark,
                   syncVars>>

\* Mutation: messages are marked read as soon as they are seen.
ReadUnreadEarly(t) ==
    /\ t \in opening
    /\ opening' = opening \ {t}
    /\ toMark' = toMark \cup {m \in seen : ThreadOf[m] = t}
    /\ UNCHANGED <<serverVars, netVars, handlerVars, localVars, active,
                   syncVars>>

\* markThreadRead has the history of the thread opened, whichever is open by
\* now: every incoming message in it is to be marked.
ReadUnread(t) ==
    /\ t \in opening
    /\ opening' = opening \ {t}
    /\ toMark' = toMark \cup {m \in Msg : ThreadOf[m] = t /\ store[m] > 0}
    /\ UNCHANGED <<serverVars, netVars, handlerVars, localVars, active,
                   syncVars>>

CloseThread ==
    /\ active # NoThread
    /\ active' = NoThread
    /\ UNCHANGED <<serverVars, netVars, handlerVars, localVars, opening,
                   toMark, syncVars>>

\* One turn of markThreadRead's loop.
MarkNext(m) ==
    /\ m \in toMark
    /\ toMark' = toMark \ {m}
    /\ Emit({Read(m)})
    /\ UNCHANGED <<serverVars, downlink, conn, handlerVars, localVars,
                   active, opening, syncVars>>

\* The user opens a view-once message of the thread on the screen.
OpenViewOnce(m) ==
    /\ m \in ViewOnce
    /\ active = ThreadOf[m]
    /\ store[m] > 0
    /\ Emit({Viewed(m)})
    /\ UNCHANGED <<serverVars, downlink, conn, handlerVars, localVars,
                   screenVars, syncVars>>

\* Mutation: the Signal store does not outlive the page.
ReloadLosesKeys ==
    /\ "reload" \in Faults
    /\ boot # "closed"
    /\ boot' = "closed"
    /\ conn' = "down"
    /\ downlink' = {} /\ uplink' = {}
    /\ seen' = {} /\ inPass' = {}
    /\ pc' = [m \in Msg |-> "idle"]
    /\ snap' = [m \in Msg |-> Nothing]
    /\ keyUsed' = {}
    /\ active' = NoThread /\ opening' = {} /\ toMark' = {}
    /\ sync' = "idle" /\ queued' = FALSE /\ batch' = {}
    /\ UNCHANGED <<serverVars, store, entered>>

\* The page is reloaded or killed: everything but the local database goes.
Reload ==
    /\ "reload" \in Faults
    /\ boot # "closed"
    /\ boot' = "closed"
    /\ conn' = "down"
    /\ downlink' = {}
    /\ uplink' = {}
    /\ seen' = {}
    /\ pc' = [m \in Msg |-> "idle"]
    /\ inPass' = {}
    /\ snap' = [m \in Msg |-> Nothing]
    /\ active' = NoThread
    /\ opening' = {}
    /\ toMark' = {}
    /\ sync' = "idle"
    /\ queued' = FALSE
    /\ batch' = {}
    /\ UNCHANGED <<serverVars, localVars>>

-----------------------------------------------------------------------------

Handler(m) ==
    DecryptOk(m) \/ DecryptFails(m) \/ EnsureThread(m) \/ LookupFails(m)
      \/ AppendWrite(m) \/ DecideOpen(m) \/ AckShown(m)

Next ==
    \/ \E m \in Msg :
          \/ Relay(m) \/ Persist(m)
          \/ ReceiveLive(m) \/ PassMessage(m)
          \/ DecryptOk(m) \/ DecryptFails(m) \/ EnsureThread(m)
          \/ LookupFails(m) \/ AppendWrite(m) \/ DecideOpen(m) \/ AckShown(m)
          \/ MarkNext(m) \/ OpenViewOnce(m)
    \/ \E r \in Receipt : ReceiveReceipt(r) \/ ApplyReceipt(r) \/ GiveUpReceipt(r)
    \/ Join \/ OnConnect \/ Drop \/ ServerCrash
    \/ FetchAnswer \/ FetchFails \/ PassEnd
    \/ Launch \/ InitCatchUp \/ Resume \/ Reload
    \/ \E t \in Thread : OpenThread(t) \/ ReadUnread(t)
    \/ CloseThread

Spec == Init /\ [][Next]_vars

\* Handlers run to their next await, requests and database calls return, and
\* frames on a live socket arrive.  Nothing is assumed of users, of faults or
\* of a socket that is down.
Fairness ==
    /\ \A m \in Msg :
          /\ WF_vars(Handler(m))
          /\ WF_vars(Persist(m))
          /\ WF_vars(ReceiveLive(m))
          /\ WF_vars(PassMessage(m))
    /\ \A r \in Receipt :
          /\ WF_vars(ReceiveReceipt(r))
          /\ WF_vars(ApplyReceipt(r) \/ GiveUpReceipt(r))
    /\ WF_vars(FetchAnswer \/ FetchFails)
    /\ WF_vars(PassEnd)
    /\ WF_vars(OnConnect)

FairSpec == Spec /\ Fairness

-----------------------------------------------------------------------------
(* Properties                                                              *)

\* The local history never holds two copies of a message, although it may
\* arrive live and in several inbox pages, in several sessions.
AtMostOnce == \A m \in Msg : store[m] <= 1

\* No acknowledgement runs ahead of the client: a receipt is emitted only
\* for a message that a handler of this session has taken up or that is in
\* the history, never for a row that was merely fetched.
AckOnlyTakenUp ==
    [][\A r \in uplink' \ uplink : r.msg \in seen' \cup entered']_uplink

\* The network, the server and the database alone never make the server drop
\* the ciphertext of a message that its recipient does not get: without a
\* reload or a failure in the handler, an acknowledged message is entered,
\* or its handler is on its way to entering it.
HandlerFaults == {"reload", "lookupFails", "badCipher"}

AckedIsEntered ==
    Faults \cap HandlerFaults = {} =>
      \A m \in Msg :
        row[m] \in {"DELIVERED", "READ"} =>
            m \in entered \/ pc[m] \in {"decrypting"} \cup InHand

\* READ, the blue ticks, is only ever claimed of a message that was entered
\* into the history.
ReadOnlyEntered ==
    \A m \in Msg : 
        (row[m] = "READ" \/ Read(m) \in uplink \cup jobs) => m \in entered

\* A session never starts to decrypt the same ciphertext twice, whichever of
\* the live handler and the catch-up pass meets it again.
DecryptOncePerSession ==
    [][\A m \in Msg :
         (pc[m] # pc'[m] /\ pc'[m] = "decrypting") => pc[m] = "idle"]_pc

\* A catch-up pass always comes to an end, even when the socket is lost in
\* the middle of it: the guard inboxSyncRunning is never left shut.
PassTerminates == (sync = "passing") ~> (sync # "passing")

\* A stored row is acknowledged sooner or later, given a network that stays
\* up in the end and inbox requests that keep being answered.
StableNetwork == <>[](conn = "up") /\ []<><<FetchAnswer>>_vars

InboxDrains ==
    StableNetwork => \A m \in Msg : (row[m] = "SENT") ~> (row[m] # "SENT")

\* signal.gateway.ts:277: once the addressee has acknowledged a message, "the
\* recipient holds the message locally".  Two handlers of one thread that
\* append at the same time can leave only one of their messages.
AckedIsKept ==
    \A m \in Msg :
        (row[m] \in {"DELIVERED", "READ"} /\ pc[m] = "done") => store[m] > 0

\* The abstract fate of a message.
FateOf(m) ==
    IF m \in entered THEN "shown"
    ELSE IF m \in keyUsed /\ pc[m] \notin InHand THEN "gone"
    ELSE IF m \in relayed THEN "sent" ELSE "unsent"

\* Inbox implements Mailbox: through duplicates, lost frames, reloads and
\* server restarts, each message is entered at most once or is gone for good.
M == INSTANCE Mailbox WITH fate <- [m \in Msg |-> FateOf(m)]

ImplementsMailbox == M!Spec
=============================================================================
