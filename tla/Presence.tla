------------------------------ MODULE Presence ------------------------------
(***************************************************************************)
(* Who is online, and who is pushed: the sockets and visibility of one     *)
(* user's pages, the relay's decision between a live message and a push    *)
(* notification (signal.gateway.ts, push.ts), and the online dot another   *)
(* page shows for that user, fed by broadcasts and by two HTTP reads       *)
(* (presence.controller.ts, page.tsx).                                     *)
(*                                                                         *)
(* A socket whose page was frozen is "dead": the server counts it until    *)
(* the ping timeout, but nothing sent to it arrives.  Broadcasts reach the *)
(* watching page in order; the answer to an HTTP read comes by another way *)
(* and may overtake them or be overtaken.  The time of the last sight is   *)
(* abstracted but for the await it costs an offline answer.                *)
(***************************************************************************)
EXTENDS Naturals, Sequences

CONSTANTS
    Page,      \* pages (tabs, devices) of the user
    Message,   \* messages sent to the user
    MaxEvents  \* bound: broadcasts on their way to the watching page

ASSUME PresenceAssumption == MaxEvents \in Nat \ {0}

VARIABLES
    link,     \* each page's socket: onlineSockets holds those that are not down
    visible,  \* socketVisibility, true for a socket that has not reported
    message,  \* what the relay did about each message
    owed,     \* messages a page has and will send a receipt for
    tuned,    \* the watching page's own socket is connected
    events,   \* presence:update events on their way to it
    dot,      \* presenceByUserId for the user
    batch,    \* the batch read that paints the list
    single,   \* the read made when the chat is opened
    stale     \* the watching page missed a change, or an answer overtook one
              \* (auxiliary)

pushVars == <<message, owed>>
dotVars == <<tuned, events, dot, batch, single, stale>>
presenceVars == <<link, visible, pushVars, dotVars>>

Shown == {"unknown", "on", "off"}
Read == [at : {"none", "asked", "read"}, got : Shown, old : BOOLEAN]
NoRead == [at |-> "none", got |-> "unknown", old |-> FALSE]

PresenceTypeOK ==
    /\ link \in [Page -> {"down", "up", "dead"}]
    /\ visible \in [Page -> BOOLEAN]
    /\ message \in [Message -> [relayed : BOOLEAN, check : BOOLEAN, acked : BOOLEAN,
                                notice : {"none", "reading", "pushed", "withheld"}]]
    /\ owed \in [Page -> SUBSET Message]
    /\ tuned \in BOOLEAN
    /\ events \in Seq({"on", "off"}) /\ Len(events) <= MaxEvents
    /\ dot \in Shown
    /\ batch \in Read /\ single \in Read
    /\ stale \in BOOLEAN

PresenceInit ==
    /\ link = [p \in Page |-> "down"]
    /\ visible = [p \in Page |-> TRUE]
    /\ message = [m \in Message |-> [relayed |-> FALSE, check |-> FALSE, acked |-> FALSE, notice |-> "none"]]
    /\ owed = [p \in Page |-> {}]
    /\ tuned = FALSE
    /\ events = <<>>
    /\ dot = "unknown"
    /\ batch = NoRead /\ single = NoRead
    /\ stale = FALSE

-----------------------------------------------------------------------------
isUserOnline == \E p \in Page : link[p] # "down"
isUserVisible == \E p \in Page : link[p] # "down" /\ visible[p]
Online == IF isUserOnline THEN "on" ELSE "off"

\* io.emit("presence:update"): the answers already read are now out of date, and
\* a page that is not connected never hears of it.
Broadcast(now) ==
    /\ events' = IF tuned THEN Append(events, now) ELSE events
    /\ single' = [single EXCEPT !.old = @ \/ single.at = "read"]
    /\ batch' = [batch EXCEPT !.old = @ \/ (batch.at = "read" /\ ~tuned)]
    /\ stale' = (stale \/ (~tuned /\ dot # "unknown"))
    /\ UNCHANGED <<tuned, dot>>

\* A page's socket connects, its first connection or a new one; only the user's
\* first socket is announced.  It counts as visible until the page's report, which
\* it sends on every connect (ReportVisibility), has arrived.
Connect(p) ==
    /\ link[p] = "down"
    /\ Len(events) < MaxEvents
    /\ link' = [link EXCEPT ![p] = "up"]
    /\ visible' = [visible EXCEPT ![p] = TRUE]
    /\ IF isUserOnline THEN UNCHANGED dotVars ELSE Broadcast("on")
    /\ UNCHANGED pushVars

\* The phone freezes the page: nobody is told.
Freeze(p) ==
    /\ link[p] = "up"
    /\ link' = [link EXCEPT ![p] = "dead"]
    /\ UNCHANGED <<visible, pushVars, dotVars>>

\* The server sees the socket close, at once or at the ping timeout.
Disconnect(p) ==
    /\ link[p] # "down"
    /\ Len(events) < MaxEvents
    /\ link' = [link EXCEPT ![p] = "down"]
    /\ visible' = [visible EXCEPT ![p] = TRUE]
    /\ IF \E q \in Page \ {p} : link[q] # "down" THEN UNCHANGED dotVars ELSE Broadcast("off")
    /\ UNCHANGED pushVars

\* presence:visibility, on every connect and on every change of the page's
\* visibility.
ReportVisibility(p, seen) ==
    /\ link[p] = "up" /\ visible[p] # seen
    /\ visible' = [visible EXCEPT ![p] = seen]
    /\ UNCHANGED <<link, pushVars, dotVars>>

-----------------------------------------------------------------------------
\* Mutation: nobody who is online is pushed at once.
RelayIfOnline(m) ==
    /\ ~message[m].relayed
    /\ message' = [message EXCEPT ![m].relayed = TRUE,
                                  ![m].check = isUserVisible,
                                  ![m].notice = IF isUserOnline THEN "none" ELSE "reading"]
    /\ owed' = [p \in Page |-> IF link[p] = "up" THEN owed[p] \cup {m} ELSE owed[p]]
    /\ UNCHANGED <<link, visible, dotVars>>

\* signal:message: relayed to every page that is really there, and pushed at once
\* unless some socket looks visible, when the push waits for a receipt.
Relay(m) ==
    /\ ~message[m].relayed
    /\ message' = [message EXCEPT ![m].relayed = TRUE,
                                  ![m].check = isUserVisible,
                                  ![m].notice = IF isUserVisible THEN "none" ELSE "reading"]
    /\ owed' = [p \in Page |-> IF link[p] = "up" THEN owed[p] \cup {m} ELSE owed[p]]
    /\ UNCHANGED <<link, visible, dotVars>>

\* A page reads the inbox: rows without a receipt (external: Inbox).
CatchUp(p) ==
    /\ link[p] = "up"
    /\ owed' = [owed EXCEPT ![p] = @ \cup {m \in Message : message[m].relayed /\ ~message[m].acked}]
    /\ owed' # owed
    /\ UNCHANGED <<link, visible, message, dotVars>>

\* signal:receipt clears the check.  What a frozen page sends is lost.
SendReceipt(p, m) ==
    /\ m \in owed[p] /\ link[p] # "down"
    /\ owed' = [owed EXCEPT ![p] = @ \ {m}]
    /\ message' = IF link[p] = "dead" THEN message
                  ELSE [message EXCEPT ![m].acked = TRUE, ![m].check = FALSE]
    /\ UNCHANGED <<link, visible, dotVars>>

\* No receipt within DELIVERY_ACK_GRACE_MS.
CheckExpires(m) ==
    /\ message[m].check
    /\ message' = [message EXCEPT ![m].check = FALSE, ![m].notice = "reading"]
    /\ UNCHANGED <<link, visible, owed, dotVars>>

\* notifyRecipient has read the push token and the mute of the thread: whether
\* there is a push is up to them, and to Firebase.
Notify(m) ==
    /\ message[m].notice = "reading"
    /\ \E notice \in {"pushed", "withheld"} : message' = [message EXCEPT ![m].notice = notice]
    /\ UNCHANGED <<link, visible, owed, dotVars>>

-----------------------------------------------------------------------------
\* The watching page's own connection; events under way are lost with it.
Tune ==
    /\ ~tuned
    /\ tuned' = TRUE
    /\ UNCHANGED <<link, visible, pushVars, events, dot, batch, single, stale>>

Untune ==
    /\ tuned
    /\ tuned' = FALSE
    /\ events' = <<>>
    /\ stale' = (stale \/ (events # <<>> /\ dot # "unknown"))
    /\ batch' = [batch EXCEPT !.old = @ \/ (batch.at = "read" /\ events # <<>>)]
    /\ UNCHANGED <<link, visible, pushVars, dot, single>>

\* The page is loaded again.
ReloadWatcher ==
    /\ dot # "unknown"
    /\ tuned' = FALSE /\ events' = <<>> /\ dot' = "unknown"
    /\ batch' = NoRead /\ single' = NoRead /\ stale' = FALSE
    /\ UNCHANGED <<link, visible, pushVars>>

\* presence:update.
HearUpdate ==
    /\ events # <<>>
    /\ events' = Tail(events)
    /\ dot' = Head(events)
    /\ stale' = FALSE
    /\ UNCHANGED <<link, visible, pushVars, tuned, batch, single>>

\* The list is painted: only users without a reading are asked for.
AskBatch ==
    /\ dot = "unknown" /\ batch.at = "none"
    /\ batch' = [NoRead EXCEPT !.at = "asked"]
    /\ UNCHANGED <<link, visible, pushVars, tuned, events, dot, single, stale>>

\* The chat is opened.
AskSingle ==
    /\ single.at = "none"
    /\ single' = [NoRead EXCEPT !.at = "asked"]
    /\ UNCHANGED <<link, visible, pushVars, tuned, events, dot, batch, stale>>

\* getPresence decides before it awaits the row; getPresenceBatch looks again
\* after its await.  Either way the answer says what was true in one instant.
ReadSingle ==
    /\ single.at = "asked"
    /\ single' = [at |-> "read", got |-> Online, old |-> FALSE]
    /\ UNCHANGED <<link, visible, pushVars, tuned, events, dot, batch, stale>>

\* A broadcast still under way to the page will be heard after the answer.
ReadBatch ==
    /\ batch.at = "asked"
    /\ batch' = [at |-> "read", got |-> Online, old |-> FALSE]
    /\ UNCHANGED <<link, visible, pushVars, tuned, events, dot, single, stale>>

\* Mutation: { ...prev, ...result }, the answer wins over what was heard.
BatchAnswersFirst ==
    /\ batch.at = "read"
    /\ batch' = NoRead
    /\ dot' = batch.got /\ stale' = batch.old
    /\ UNCHANGED <<link, visible, pushVars, tuned, events, single>>

\* { ...result, ...prev }: what the page has heard meanwhile wins.
BatchAnswers ==
    /\ batch.at = "read"
    /\ batch' = NoRead
    /\ IF dot = "unknown"
       THEN dot' = batch.got /\ stale' = batch.old
       ELSE UNCHANGED <<dot, stale>>
    /\ UNCHANGED <<link, visible, pushVars, tuned, events, single>>

\* { ...prev, [peerId]: info }: the answer wins.
SingleAnswers ==
    /\ single.at = "read"
    /\ single' = NoRead
    /\ dot' = single.got
    /\ stale' = single.old
    /\ UNCHANGED <<link, visible, pushVars, tuned, events, batch>>

\* Either read fails; nothing is shown.
ReadFails ==
    \/ /\ batch.at = "asked" /\ batch' = NoRead
       /\ UNCHANGED <<link, visible, pushVars, tuned, events, dot, single, stale>>
    \/ /\ single.at = "asked" /\ single' = NoRead
       /\ UNCHANGED <<link, visible, pushVars, tuned, events, dot, batch, stale>>

PresenceNext ==
    \/ \E p \in Page :
        \/ Connect(p) \/ Freeze(p) \/ Disconnect(p) \/ CatchUp(p)
        \/ \E seen \in BOOLEAN : ReportVisibility(p, seen)
        \/ \E m \in Message : SendReceipt(p, m)
    \/ \E m \in Message : Relay(m) \/ CheckExpires(m) \/ Notify(m)
    \/ Tune \/ Untune \/ ReloadWatcher \/ HearUpdate
    \/ AskBatch \/ AskSingle \/ ReadSingle \/ ReadBatch
    \/ BatchAnswers \/ SingleAnswers \/ ReadFails

PresenceSpec == PresenceInit /\ [][PresenceNext]_presenceVars

\* Timers fire, and the reads of notifyRecipient end.
PresenceFairness ==
    \A m \in Message : WF_presenceVars(CheckExpires(m)) /\ WF_presenceVars(Notify(m))

-----------------------------------------------------------------------------
(* What must hold. *)

\* When the watching page has heard every event and waits for no answer to an
\* opened chat, the dot it shows is right, unless it was not connected when the
\* user came or went, or the answer it got was read before they did.
DotCurrent ==
    dot # "unknown" /\ events = <<>> /\ single.at = "none" /\ ~stale => dot = Online

\* A message relayed ends with a receipt or with an attempt to push it, however
\* the recipient's pages freeze, vanish and come back.
MessageHeard ==
    \A m \in Message :
        message[m].relayed ~> message[m].acked \/ message[m].notice \in {"pushed", "withheld"}
=============================================================================
