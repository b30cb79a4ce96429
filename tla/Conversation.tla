---------------------------- MODULE Conversation ----------------------------
(***************************************************************************)
(* One private chat on the sender's page: sending (page.tsx,               *)
(* sendToActiveThread; socket.ts), the history kept on the device          *)
(* (localDb.ts), the ticks that receipts set, and which chat's messages    *)
(* are on the screen.                                                      *)
(*                                                                         *)
(* The history is one value: a message is added or removed by a get and a  *)
(* set, between which other operations run; only a tick is set in one      *)
(* transaction.  The relay tells the recipient before it answers the       *)
(* sender, and drops the message of a blocked sender without a word.       *)
(***************************************************************************)
EXTENDS Naturals, FiniteSets

CONSTANTS
    Sent,     \* messages sent from this page
    Received  \* messages received in the same chat

ASSUME ConversationAssumption == Sent \cap Received = {}

VARIABLES
    history,  \* the stored messages of the chat, with their ticks
    task,     \* the send, or the storing, of each message
    erase,    \* the deletion of each message
    ack,      \* receipts of the recipient: not yet given, under way, arrived
    early,    \* receipts that found no message to tick (auxiliary)
    torn,     \* a write fell between another operation's get and set
              \* (auxiliary)
    open,     \* the chat that is open: this one or another
    screen,   \* the chat whose messages are shown
    renders,  \* chats read for the screen
    mixed     \* another chat was opened while one was being read, or while a
              \* send or deletion was at work (auxiliary)

historyVars == <<history, task, erase, ack, early, torn>>
viewVars == <<open, screen, renders, mixed>>
conversationVars == <<historyVars, viewVars>>

Text == Sent \cup Received
Status == <<"SENT", "DELIVERED", "READ">>
Tick == {"SENT", "DELIVERED", "READ"}
STATUS_RANK(tick) == CHOOSE rank \in 1 .. 3 : Status[rank] = tick
History == [Text -> Tick \cup {"none"}]
Empty == [m \in Text |-> "none"]
Chat == {"this", "other"}
Work(at) == [at |-> at, snap |-> Empty]

ConversationTypeOK ==
    /\ history \in History
    /\ task \in [Text -> [at : {"idle", "sent", "acked", "writing", "stored", "done", "failed"}, snap : History]]
    /\ erase \in [Text -> [at : {"idle", "writing", "stored", "done"}, snap : History]]
    /\ ack \in [Sent -> [{"DELIVERED", "READ"} -> {"due", "under way", "arrived", "never"}]]
    /\ early \subseteq Sent
    /\ torn \in BOOLEAN
    /\ open \in Chat /\ screen \in Chat
    /\ renders \subseteq Chat
    /\ mixed \in BOOLEAN

ConversationInit ==
    /\ history = Empty
    /\ task = [m \in Text |-> Work("idle")]
    /\ erase = [m \in Text |-> Work("idle")]
    /\ ack = [m \in Sent |-> [r \in {"DELIVERED", "READ"} |-> "never"]]
    /\ early = {} /\ torn = FALSE
    /\ open = "this" /\ screen = "this"
    /\ renders = {} /\ mixed = FALSE

-----------------------------------------------------------------------------
Writing(jobs) == {m \in Text : jobs[m].at = "writing"}
\* The set of a job: whatever was written since its get is lost.
Tears(others) == torn \/ others # {}

\* sendSignalMessage, with one message at a time in the composer.  The relay has
\* the message: the recipient's receipts may come at once, unless it is dropped.
StartSend(m) ==
    /\ open = "this" /\ task[m].at = "idle"
    /\ \A n \in Sent : task[n].at \in {"idle", "done", "failed"}
    /\ task' = [task EXCEPT ![m] = Work("sent")]
    /\ \E reach \in {"due", "never"} : ack' = [ack EXCEPT ![m] = [r \in {"DELIVERED", "READ"} |-> reach]]
    /\ UNCHANGED <<history, erase, early, torn, viewVars>>

\* The ack, or its timeout after the relay has passed the message on.
SendAcked(m) ==
    /\ task[m].at = "sent"
    /\ \E at \in {"acked", "failed"} : task' = [task EXCEPT ![m] = Work(at)]
    /\ UNCHANGED <<history, erase, ack, early, torn, viewVars>>

\* A message arrives in the chat (external: Inbox).
Receive(m) ==
    /\ task[m].at = "idle"
    /\ task' = [task EXCEPT ![m] = Work("acked")]
    /\ UNCHANGED <<history, erase, ack, early, torn, viewVars>>

\* appendMessage: getMessages, and the timer of the chat ...
ReadForAppend(m) ==
    /\ task[m].at = "acked"
    /\ task' = [task EXCEPT ![m] = [at |-> "writing", snap |-> history]]
    /\ UNCHANGED <<history, erase, ack, early, torn, viewVars>>

\* ... and set, with the message as "SENT".
WriteAppend(m) ==
    /\ task[m].at = "writing"
    /\ history' = [task[m].snap EXCEPT ![m] = "SENT"]
    /\ task' = [task EXCEPT ![m] = Work("stored")]
    /\ torn' = Tears((Writing(task) \ {m}) \cup Writing(erase))
    /\ UNCHANGED <<erase, ack, early, viewVars>>

\* Mutation: an arrival is shown without a look at which chat is open.
AfterAppendAlways(m) ==
    /\ task[m].at = "stored"
    /\ task' = [task EXCEPT ![m] = Work("done")]
    /\ renders' = renders \cup {"this"}
    /\ UNCHANGED <<history, erase, ack, early, torn, open, screen, mixed>>

\* The page reads the chat for the screen: after a send whatever is open, after
\* an arrival if the chat is.
AfterAppend(m) ==
    /\ task[m].at = "stored"
    /\ task' = [task EXCEPT ![m] = Work("done")]
    /\ renders' = IF m \in Sent \/ open = "this" THEN renders \cup {"this"} ELSE renders
    /\ UNCHANGED <<history, erase, ack, early, torn, open, screen, mixed>>

-----------------------------------------------------------------------------
\* The recipient's page gives its receipts, in any order.
GiveReceipt(m, r) ==
    /\ ack[m][r] = "due"
    /\ ack' = [ack EXCEPT ![m][r] = "under way"]
    /\ UNCHANGED <<history, task, erase, early, torn, viewVars>>

\* Mutation: the tick is set whatever it was before.
HearReceiptAnyRank(m, r) ==
    /\ ack[m][r] = "under way"
    /\ ack' = [ack EXCEPT ![m][r] = "arrived"]
    /\ history' = IF history[m] # "none" THEN [history EXCEPT ![m] = r] ELSE history
    /\ early' = IF history[m] = "none" THEN early \cup {m} ELSE early
    /\ torn' = Tears(Writing(task) \cup Writing(erase))
    /\ renders' = IF open = "this" THEN renders \cup {"this"} ELSE renders
    /\ UNCHANGED <<task, erase, open, screen, mixed>>

\* signal:receipt: updateMessageStatus, in one transaction and only forwards;
\* then the chat is read again if it is open.
HearReceipt(m, r) ==
    LET ticked == /\ history[m] # "none"
                  /\ STATUS_RANK(r) > STATUS_RANK(history[m]) IN
    /\ ack[m][r] = "under way"
    /\ ack' = [ack EXCEPT ![m][r] = "arrived"]
    /\ history' = IF ticked THEN [history EXCEPT ![m] = r] ELSE history
    /\ early' = IF history[m] = "none" THEN early \cup {m} ELSE early
    /\ torn' = IF ticked THEN Tears(Writing(task) \cup Writing(erase)) ELSE torn
    /\ renders' = IF open = "this" THEN renders \cup {"this"} ELSE renders
    /\ UNCHANGED <<task, erase, open, screen, mixed>>

\* handleDeleteMessage: getMessages, set, and the chat read for the screen.
StartDelete(m) ==
    /\ open = "this" /\ history[m] # "none" /\ erase[m].at = "idle"
    /\ erase' = [erase EXCEPT ![m] = [at |-> "writing", snap |-> history]]
    /\ UNCHANGED <<history, task, ack, early, torn, viewVars>>

WriteDelete(m) ==
    /\ erase[m].at = "writing"
    /\ history' = [erase[m].snap EXCEPT ![m] = "none"]
    /\ erase' = [erase EXCEPT ![m] = Work("stored")]
    /\ torn' = Tears(Writing(task) \cup (Writing(erase) \ {m}))
    /\ UNCHANGED <<task, ack, early, viewVars>>

AfterDelete(m) ==
    /\ erase[m].at = "stored"
    /\ erase' = [erase EXCEPT ![m] = Work("done")]
    /\ renders' = renders \cup {"this"}
    /\ UNCHANGED <<history, task, ack, early, torn, open, screen, mixed>>

-----------------------------------------------------------------------------
AtHand == {m \in Sent : task[m].at \in {"sent", "acked", "writing", "stored"}}
    \cup {m \in Text : erase[m].at \in {"writing", "stored"}}
    \cup {m \in Received : task[m].at = "stored"}

\* handleSelectConversation: the refs first, then the chat is read.
OpenChat(c) ==
    /\ open # c
    /\ open' = c
    /\ renders' = renders \cup {c}
    /\ mixed' = (mixed \/ renders # {} \/ AtHand # {})
    /\ UNCHANGED <<historyVars, screen>>

\* setMessages with what getMessages returned.
Render(c) ==
    /\ c \in renders
    /\ renders' = renders \ {c}
    /\ screen' = c
    /\ UNCHANGED <<historyVars, open, mixed>>

ConversationNext ==
    \/ \E m \in Sent :
        \/ StartSend(m) \/ SendAcked(m)
        \/ \E r \in {"DELIVERED", "READ"} : GiveReceipt(m, r) \/ HearReceipt(m, r)
    \/ \E m \in Received : Receive(m)
    \/ \E m \in Text :
        \/ ReadForAppend(m) \/ WriteAppend(m) \/ AfterAppend(m)
        \/ StartDelete(m) \/ WriteDelete(m) \/ AfterDelete(m)
    \/ \E c \in Chat : OpenChat(c) \/ Render(c)

ConversationSpec == ConversationInit /\ [][ConversationNext]_conversationVars

-----------------------------------------------------------------------------
(* What must hold. *)

\* A tick never says more than the recipient did, and of a message that the
\* relay dropped the sender sees no more than that it was sent.
TickTrue ==
    \A m \in Sent : history[m] \in {"DELIVERED", "READ"} => ack[m][history[m]] = "arrived"

\* A message kept shows the furthest receipt that has arrived, in whatever order
\* they came, unless one came before the message was stored or a write of the
\* history was lost.
TickCurrent ==
    \A m \in Sent \ early : \A r \in {"DELIVERED", "READ"} :
        ~torn /\ history[m] # "none" /\ ack[m][r] = "arrived"
            => STATUS_RANK(history[m]) >= STATUS_RANK(r)

\* A message whose sending succeeded is in the history until it is deleted, and
\* one deleted does not come back, unless a write of the history was lost.
HistoryComplete ==
    \A m \in Text :
        ~torn => (history[m] # "none" <=> task[m].at \in {"stored", "done"} /\ erase[m].at \in {"idle", "writing"})

\* What the history says of each message is right.
HistoryRight == TickTrue /\ TickCurrent /\ HistoryComplete

\* The messages on the screen are those of the open chat, once everything was
\* read for it, unless another chat was opened while an operation was at work.
ScreenMatches == renders = {} /\ ~mixed => screen = open
=============================================================================
