---------------------------- MODULE DeviceProofs ----------------------------
(*****************************************************************************)
(* Theorems about what one device keeps and shows: Conversation, Roster,     *)
(* VoiceRecorder, VoicePlayer and Screens, for any messages, chats, jobs,    *)
(* presses and voice notes.                                                  *)
(*****************************************************************************)
EXTENDS Conversation, Roster, VoiceRecorder, VoicePlayer, Screens,
        FiniteSetTheorems, TLAPS

-----------------------------------------------------------------------------
(* The history of one private chat (Conversation).                           *)

Receipt == {"DELIVERED", "READ"}
Stored(m) == task[m].at \in {"stored", "done"}
Claimed(snap) == \A m \in Sent : snap[m] \in Receipt => ack[m][snap[m]] = "arrived"

HistoryTypeOK ==
    /\ history \in History
    /\ task \in [Text -> [at : {"idle", "sent", "acked", "writing", "stored", "done", "failed"}, snap : History]]
    /\ erase \in [Text -> [at : {"idle", "writing", "stored", "done"}, snap : History]]
    /\ ack \in [Sent -> [Receipt -> {"due", "under way", "arrived", "never"}]]
    /\ early \subseteq Sent
    /\ torn \in BOOLEAN

\* No history, neither the stored one nor one that is about to be, ticks more than
\* has arrived; and nothing arrives of a message that was not sent.
NothingInvented ==
    /\ Claimed(history)
    /\ \A m \in Text : Claimed(task[m].snap) /\ Claimed(erase[m].snap)
    /\ \A m \in Sent : task[m].at = "idle" => \A r \in Receipt : ack[m][r] = "never"

\* Before a write was lost: whoever is about to write has read what is there, only
\* stored messages are deleted, and a receipt that came before is known to be early.
NothingLost ==
    /\ \A m \in Text : task[m].at = "writing" => task[m].snap = history
    /\ \A m \in Text : erase[m].at = "writing" => erase[m].snap = history
    /\ \A m \in Text : erase[m].at # "idle" => Stored(m)
    /\ \A m \in Text : history[m] # "none" <=> Stored(m) /\ erase[m].at \in {"idle", "writing"}
    /\ \A m \in Sent \ early : \A r \in Receipt :
        ack[m][r] = "arrived" => Stored(m) /\ (history[m] # "none" => STATUS_RANK(history[m]) >= STATUS_RANK(r))

HIInv == HistoryTypeOK /\ NothingInvented /\ (~torn => NothingLost)

\* The order of the ticks.
LEMMA Ranks ==
  STATUS_RANK("SENT") = 1 /\ STATUS_RANK("DELIVERED") = 2 /\ STATUS_RANK("READ") = 3
<1> DEFINE place == <<"SENT", "DELIVERED", "READ">>
<1>1. place[1] = "SENT" /\ place[2] = "DELIVERED" /\ place[3] = "READ"
  OBVIOUS
<1> HIDE DEF place
<1>2. \A rank \in 1 .. 3 : rank = 1 \/ rank = 2 \/ rank = 3
  OBVIOUS
<1>3. STATUS_RANK("SENT") = CHOOSE rank \in 1 .. 3 : place[rank] = "SENT"
  BY DEF STATUS_RANK, Status, place
<1>4. STATUS_RANK("DELIVERED") = CHOOSE rank \in 1 .. 3 : place[rank] = "DELIVERED"
  BY DEF STATUS_RANK, Status, place
<1>5. STATUS_RANK("READ") = CHOOSE rank \in 1 .. 3 : place[rank] = "READ"
  BY DEF STATUS_RANK, Status, place
<1>6. QED BY <1>1, <1>2, <1>3, <1>4, <1>5

\* The history of a new chat is one, without messages.
LEMMA EmptyHistory == Empty \in History /\ \A m \in Text : Empty[m] = "none"
BY DEF Empty, History

-----------------------------------------------------------------------------
(* The steps. *)

\* The task of one message moves on, without a history in hand.
LEMMA TaskStep ==
  ASSUME HIInv, NEW m \in Text, NEW at \in {"sent", "acked", "failed", "done"},
         task' = [task EXCEPT ![m] = Work(at)],
         \/ task[m].at \in {"idle", "sent"} /\ at # "done"
         \/ task[m].at = "stored" /\ at = "done",
         UNCHANGED <<history, erase, early, torn>>,
         \/ ack' = ack
         \/ /\ m \in Sent /\ task[m].at = "idle"
            /\ \E reach \in {"due", "never"} : ack' = [ack EXCEPT ![m] = [r \in Receipt |-> reach]]
  PROVE  HIInv'
<1> USE DEF HIInv
<1>0. /\ ack' \in [Sent -> [Receipt -> {"due", "under way", "arrived", "never"}]]
      /\ \A n \in Sent : \A r \in Receipt :
            \/ ack'[n][r] = ack[n][r]
            \/ n = m /\ task[m].at = "idle" /\ ack'[n][r] \in {"due", "never"}
  <2>1. CASE ack' = ack
    BY <2>1 DEF HistoryTypeOK
  <2>2. ASSUME m \in Sent, task[m].at = "idle", NEW reach \in {"due", "never"},
               ack' = [ack EXCEPT ![m] = [r \in Receipt |-> reach]]
        PROVE  /\ ack' \in [Sent -> [Receipt -> {"due", "under way", "arrived", "never"}]]
               /\ \A n \in Sent : \A r \in Receipt :
                    \/ ack'[n][r] = ack[n][r]
                    \/ n = m /\ task[m].at = "idle" /\ ack'[n][r] \in {"due", "never"}
    BY <2>2 DEF HistoryTypeOK
  <2>3. QED BY <2>1, <2>2
<1>1. HistoryTypeOK'
  <2>1. task' \in [Text -> [at : {"idle", "sent", "acked", "writing", "stored", "done", "failed"}, snap : History]]
    BY EmptyHistory DEF HistoryTypeOK, Work
  <2>2. QED
    BY <1>0, <2>1 DEF HistoryTypeOK
<1>2. \A n \in Sent : \A r \in Receipt : ack'[n][r] = "arrived" <=> ack[n][r] = "arrived"
  <2>1. m \in Sent /\ task[m].at = "idle" => \A r \in Receipt : ack[m][r] = "never"
    BY DEF NothingInvented
  <2>2. QED BY <1>0, <2>1
<1>3. NothingInvented'
  <2>1. \A snap \in History : Claimed(snap) => Claimed(snap)'
    BY <1>2 DEF Claimed, Receipt, History, Text
  <2>2. Claimed(Empty)'
    BY EmptyHistory DEF Claimed, Receipt, Text
  <2>3. Claimed(history)' /\ \A n \in Text : Claimed(erase[n].snap)'
    BY <2>1, <1>1 DEF NothingInvented, HistoryTypeOK
  <2>4. \A n \in Text : Claimed(task[n].snap)'
    BY <2>1, <2>2 DEF NothingInvented, HistoryTypeOK, Work
  <2>5. ASSUME NEW n \in Sent, task'[n].at = "idle" PROVE \A r \in Receipt : ack'[n][r] = "never"
    <3>1. n # m /\ task[n].at = "idle"
      BY <2>5 DEF HistoryTypeOK, Work, Text
    <3>2. QED BY <1>0, <3>1 DEF NothingInvented
  <2>6. QED BY <2>3, <2>4, <2>5 DEF NothingInvented
<1>4. ASSUME ~torn' PROVE NothingLost'
  <2>1. \A n \in Text : Stored(n)' <=> Stored(n)
    BY DEF Stored, HistoryTypeOK, Work
  <2>2. \A n \in Text : task'[n].at = "writing" => task'[n].snap = history'
    BY <1>4 DEF NothingLost, HistoryTypeOK, Work
  <2>3. QED
    BY <1>2, <1>4, <2>1, <2>2 DEF NothingLost, Text
<1>5. QED BY <1>1, <1>3, <1>4

\* A get: the history is in hand.
LEMMA ReadStep ==
  ASSUME HIInv, NEW m \in Text, ReadForAppend(m) \/ StartDelete(m)
  PROVE  HIInv'
<1> USE DEF HIInv
<1>1. CASE ReadForAppend(m)
  <2> USE <1>1 DEF ReadForAppend
  <2>1. HistoryTypeOK'
    BY DEF HistoryTypeOK
  <2>2. NothingInvented'
    BY DEF NothingInvented, HistoryTypeOK, Claimed, Text
  <2>3. \A n \in Text : Stored(n)' <=> Stored(n)
    BY DEF Stored, HistoryTypeOK
  <2>4. ASSUME ~torn' PROVE NothingLost'
    BY <2>3, <2>4 DEF NothingLost, HistoryTypeOK, Text
  <2>5. QED BY <2>1, <2>2, <2>4
<1>2. CASE StartDelete(m)
  <2> USE <1>2 DEF StartDelete
  <2>1. HistoryTypeOK'
    BY DEF HistoryTypeOK
  <2>2. NothingInvented'
    BY DEF NothingInvented, HistoryTypeOK, Claimed, Text
  <2>3. \A n \in Text : Stored(n)' <=> Stored(n)
    BY DEF Stored
  <2>4. ASSUME ~torn' PROVE NothingLost'
    BY <2>3, <2>4 DEF NothingLost, HistoryTypeOK, Text
  <2>5. QED BY <2>1, <2>2, <2>4
<1>3. QED BY <1>1, <1>2

\* The set of a new message.  If nothing was lost nobody else is about to write, so
\* that what is stored is what was read, and the message.
LEMMA AppendStep ==
  ASSUME HIInv, NEW m \in Text, WriteAppend(m)
  PROVE  HIInv'
<1> USE DEF HIInv, WriteAppend
<1>1. HistoryTypeOK'
  BY EmptyHistory DEF HistoryTypeOK, History, Tick, Work, Tears
<1>2. NothingInvented'
  <2>1. Claimed(task[m].snap) /\ task[m].snap \in History
    BY DEF NothingInvented, HistoryTypeOK
  <2>2. Claimed(history)'
    BY <2>1 DEF Claimed, History, Receipt, Text
  <2>3. Claimed(Empty)'
    BY EmptyHistory DEF Claimed, Receipt, Text
  <2>4. \A n \in Text : Claimed(task[n].snap)' /\ Claimed(erase[n].snap)'
    BY <2>3 DEF NothingInvented, HistoryTypeOK, Claimed, Work
  <2>5. \A n \in Sent : task'[n].at = "idle" => \A r \in Receipt : ack'[n][r] = "never"
    BY DEF NothingInvented, HistoryTypeOK, Work, Text
  <2>6. QED BY <2>2, <2>4, <2>5 DEF NothingInvented
<1>3. ASSUME ~torn' PROVE NothingLost'
  <2>1. /\ ~torn
        /\ \A n \in Text \ {m} : task[n].at # "writing"
        /\ \A n \in Text : erase[n].at # "writing"
    BY <1>3 DEF Tears, Writing
  <2>2. task[m].snap = history /\ history' = [history EXCEPT ![m] = "SENT"]
    BY <2>1 DEF NothingLost
  <2>3. \A n \in Text : (Stored(n)' <=> Stored(n) \/ n = m) /\ task'[n].at # "writing"
    BY <2>1 DEF Stored, HistoryTypeOK, Work
  <2>4. ~Stored(m) /\ erase[m].at = "idle"
    BY <2>1 DEF NothingLost, Stored
  <2>5. \A n \in Text : history'[n] = IF n = m THEN "SENT" ELSE history[n]
    BY <2>2 DEF HistoryTypeOK, History
  <2>6. \A n \in Text : history'[n] # "none" <=> Stored(n)' /\ erase'[n].at \in {"idle", "writing"}
    BY <2>1, <2>3, <2>4, <2>5 DEF NothingLost
  <2>7. \A n \in Sent \ early : \A r \in Receipt :
          ack[n][r] = "arrived" => Stored(n)' /\ history'[n] = history[n]
    BY <2>1, <2>3, <2>4, <2>5 DEF NothingLost, Text
  <2>8. \A n \in Sent \ early : \A r \in Receipt : ack[n][r] = "arrived" =>
          Stored(n)' /\ (history'[n] # "none" => STATUS_RANK(history'[n]) >= STATUS_RANK(r))
    BY <2>1, <2>7 DEF NothingLost
  <2>9. QED
    BY <2>1, <2>3, <2>6, <2>8 DEF NothingLost
<1>4. QED BY <1>1, <1>2, <1>3

\* The set of a history without the message deleted.
LEMMA DeleteStep ==
  ASSUME HIInv, NEW m \in Text, WriteDelete(m)
  PROVE  HIInv'
<1> USE DEF HIInv, WriteDelete
<1>1. HistoryTypeOK'
  BY EmptyHistory DEF HistoryTypeOK, History, Tick, Work, Tears
<1>2. NothingInvented'
  <2>1. Claimed(erase[m].snap) /\ erase[m].snap \in History
    BY DEF NothingInvented, HistoryTypeOK
  <2>2. Claimed(history)'
    BY <2>1 DEF Claimed, History, Receipt, Text
  <2>3. Claimed(Empty)'
    BY EmptyHistory DEF Claimed, Receipt, Text
  <2>4. \A n \in Text : Claimed(task[n].snap)' /\ Claimed(erase[n].snap)'
    BY <2>3 DEF NothingInvented, HistoryTypeOK, Claimed, Work
  <2>5. QED BY <2>2, <2>4 DEF NothingInvented
<1>3. ASSUME ~torn' PROVE NothingLost'
  <2>1. /\ ~torn
        /\ \A n \in Text : task[n].at # "writing"
        /\ \A n \in Text \ {m} : erase[n].at # "writing"
    BY <1>3 DEF Tears, Writing
  <2>2. history' = [history EXCEPT ![m] = "none"]
    BY <2>1 DEF NothingLost
  <2>3. \A n \in Text : Stored(n)' <=> Stored(n)
    BY DEF Stored
  <2>4. \A n \in Text : history'[n] = IF n = m THEN "none" ELSE history[n]
    BY <2>2 DEF HistoryTypeOK, History
  <2>5. \A n \in Text : erase'[n].at = IF n = m THEN "stored" ELSE erase[n].at
    BY DEF HistoryTypeOK, Work
  <2>6. Stored(m)
    BY <2>1 DEF NothingLost
  <2>7. QED
    BY <2>1, <2>3, <2>4, <2>5, <2>6 DEF NothingLost, Text
<1>4. QED BY <1>1, <1>2, <1>3

\* The screen is brought up to date after a deletion.
LEMMA AfterDeleteStep ==
  ASSUME HIInv, NEW m \in Text, AfterDelete(m)
  PROVE  HIInv'
<1> USE DEF HIInv, AfterDelete
<1>1. HistoryTypeOK'
  BY EmptyHistory DEF HistoryTypeOK, Work
<1>2. Claimed(Empty)
  BY EmptyHistory DEF Claimed, Receipt, Text
<1>3. NothingInvented'
  BY <1>2 DEF NothingInvented, HistoryTypeOK, Claimed, Work
<1>4. ASSUME ~torn' PROVE NothingLost'
  <2>1. \A n \in Text : erase'[n].at = IF n = m THEN "done" ELSE erase[n].at
    BY DEF HistoryTypeOK, Work
  <2>2. \A n \in Text : erase'[n].at = "writing" => erase'[n] = erase[n]
    BY DEF HistoryTypeOK, Work
  <2>3. \A n \in Text : Stored(n)' <=> Stored(n)
    BY DEF Stored
  <2>4. QED
    BY <1>4, <2>1, <2>2, <2>3 DEF NothingLost, Text
<1>5. QED BY <1>1, <1>3, <1>4

\* The recipient gives a receipt that was due.
LEMMA GiveReceiptStep ==
  ASSUME HIInv, NEW m \in Sent, NEW r \in Receipt, GiveReceipt(m, r)
  PROVE  HIInv'
<1> USE DEF HIInv, GiveReceipt
<1>1. HistoryTypeOK'
  BY DEF HistoryTypeOK, Receipt
<1>2. \A n \in Sent : \A q \in Receipt : ack'[n][q] = "arrived" <=> ack[n][q] = "arrived"
  BY DEF HistoryTypeOK
<1>3. NothingInvented'
  <2>1. \A snap \in History : Claimed(snap) => Claimed(snap)'
    BY <1>2 DEF Claimed
  <2>2. Claimed(history)' /\ \A n \in Text : Claimed(task[n].snap)' /\ Claimed(erase[n].snap)'
    BY <2>1 DEF NothingInvented, HistoryTypeOK
  <2>3. ASSUME NEW n \in Sent, task'[n].at = "idle" PROVE \A q \in Receipt : ack'[n][q] = "never"
    <3>1. n # m
      BY <2>3 DEF NothingInvented
    <3>2. QED BY <2>3, <3>1 DEF NothingInvented, HistoryTypeOK
  <2>4. QED BY <2>2, <2>3 DEF NothingInvented
<1>4. ASSUME ~torn' PROVE NothingLost'
  BY <1>2, <1>4 DEF NothingLost, Stored
<1>5. QED BY <1>1, <1>3, <1>4

\* A receipt moves the tick forward, in one transaction; a history in hand is lost on
\* the one who writes it, unless the tick stays as it was.
LEMMA HearReceiptStep ==
  ASSUME HIInv, NEW m \in Sent, NEW r \in Receipt, HearReceipt(m, r)
  PROVE  HIInv'
<1> DEFINE ticked == history[m] # "none" /\ STATUS_RANK(r) > STATUS_RANK(history[m])
<1>0. /\ ack[m][r] = "under way"
      /\ ack' = [ack EXCEPT ![m][r] = "arrived"]
      /\ history' = IF ticked THEN [history EXCEPT ![m] = r] ELSE history
      /\ early' = IF history[m] = "none" THEN early \cup {m} ELSE early
      /\ torn' = IF ticked THEN Tears(Writing(task) \cup Writing(erase)) ELSE torn
      /\ UNCHANGED <<task, erase>>
  BY DEF HearReceipt
<1> USE DEF HIInv
<1>1. \A n \in Sent : \A q \in Receipt :
        ack'[n][q] = IF n = m /\ q = r THEN "arrived" ELSE ack[n][q]
  BY <1>0 DEF HistoryTypeOK
<1>2. HistoryTypeOK'
  <2>1. history' \in History
    BY <1>0 DEF HistoryTypeOK, History, Tick, Receipt, Text
  <2>2. ack' \in [Sent -> [Receipt -> {"due", "under way", "arrived", "never"}]]
    BY <1>0 DEF HistoryTypeOK
  <2>3. torn' \in BOOLEAN
    BY <1>0 DEF HistoryTypeOK, Tears
  <2>4. QED
    BY <1>0, <2>1, <2>2, <2>3 DEF HistoryTypeOK
<1>3. NothingInvented'
  <2>1. \A snap \in History : Claimed(snap) => Claimed(snap)'
    BY <1>1 DEF Claimed
  <2>2. Claimed(history)'
    <3>1. Claimed(history) /\ history \in History
      BY DEF NothingInvented, HistoryTypeOK
    <3>2. \A n \in Sent : history'[n] = history[n] \/ (n = m /\ history'[n] = r)
      <4>1. CASE history' = history
        BY <4>1
      <4>2. CASE history' = [history EXCEPT ![m] = r]
        BY <3>1, <4>2 DEF History, Text
      <4>3. QED BY <1>0, <4>1, <4>2
    <3>3. ack'[m][r] = "arrived" /\ Claimed(history)'
      BY <1>1, <3>1, <3>2 DEF Claimed
    <3>4. QED BY <3>3
  <2>3. \A n \in Text : Claimed(task[n].snap)' /\ Claimed(erase[n].snap)'
    BY <1>0, <2>1 DEF NothingInvented, HistoryTypeOK
  <2>4. task[m].at # "idle"
    BY <1>0 DEF NothingInvented
  <2>5. ASSUME NEW n \in Sent, task'[n].at = "idle" PROVE \A q \in Receipt : ack'[n][q] = "never"
    <3>1. n # m /\ task[n].at = "idle"
      BY <1>0, <2>4, <2>5
    <3>2. QED BY <1>1, <3>1 DEF NothingInvented
  <2>6. QED BY <2>2, <2>3, <2>5 DEF NothingInvented
<1>4. ASSUME ~torn' PROVE NothingLost'
  <2>1. ~torn /\ NothingLost
    BY <1>0, <1>4 DEF Tears
  <2>2. \A n \in Text : Stored(n)' <=> Stored(n)
    BY <1>0 DEF Stored
  <2>3. \A n \in Text : history'[n] = IF ticked /\ n = m THEN r ELSE history[n]
    BY <1>0 DEF HistoryTypeOK, History, Text
  <2>4. \A n \in Text : history'[n] # "none" <=> history[n] # "none"
    BY <2>3 DEF Receipt
  <2>5. ASSUME ticked PROVE \A n \in Text : task[n].at # "writing" /\ erase[n].at # "writing"
    BY <1>0, <1>4, <2>5 DEF Tears, Writing
  <2>6. /\ \A n \in Text : task'[n].at = "writing" => task'[n].snap = history'
        /\ \A n \in Text : erase'[n].at = "writing" => erase'[n].snap = history'
    BY <1>0, <2>1, <2>5 DEF NothingLost
  <2>7. ASSUME NEW n \in Sent \ early', NEW q \in Receipt, ack'[n][q] = "arrived"
        PROVE  Stored(n)' /\ (history'[n] # "none" => STATUS_RANK(history'[n]) >= STATUS_RANK(q))
    <3>1. n \in Text /\ n \notin early /\ (n = m => history[m] # "none")
      BY <1>0, <2>7 DEF Text
    <3>2. Stored(n)
      BY <1>1, <2>1, <2>7, <3>1 DEF NothingLost
    <3>3. ack[n][q] = "arrived" /\ history[n] # "none" => STATUS_RANK(history[n]) >= STATUS_RANK(q)
      BY <2>1, <3>1 DEF NothingLost
    <3>4. history[n] \in Tick \cup {"none"}
      BY <3>1 DEF HistoryTypeOK, History
    <3>5. \A tick \in Tick : STATUS_RANK(tick) \in Nat
      BY Ranks DEF Tick
    <3>6. q \in Tick /\ r \in Tick
      BY DEF Receipt, Tick
    <3> HIDE DEF ticked
    <3>7. CASE n # m
      BY <1>1, <2>2, <2>3, <2>7, <3>1, <3>2, <3>3, <3>7
    <3>8. CASE n = m /\ ticked
      <4>1. STATUS_RANK(r) > STATUS_RANK(history[m]) /\ history'[m] = r
        BY <2>3, <3>1, <3>8 DEF ticked
      <4>2. STATUS_RANK(r) >= STATUS_RANK(q)
        BY <1>1, <2>7, <3>1, <3>3, <3>4, <3>5, <3>6, <3>8, <4>1
      <4>3. QED BY <4>1, <4>2, <2>2, <3>1, <3>2, <3>8
    <3>9. CASE n = m /\ ~ticked
      <4>1. history'[m] = history[m] /\ history[m] \in Tick
        BY <2>3, <3>1, <3>4, <3>9
      <4>2. STATUS_RANK(history[m]) >= STATUS_RANK(r)
        BY <3>1, <3>5, <3>6, <3>9, <4>1 DEF ticked
      <4>3. STATUS_RANK(history[m]) >= STATUS_RANK(q)
        BY <1>1, <2>7, <3>1, <3>3, <3>9, <4>2
      <4>4. QED BY <4>1, <4>3, <2>2, <3>1, <3>2, <3>9
    <3>10. QED BY <3>7, <3>8, <3>9
  <2>8. QED
    BY <1>0, <2>1, <2>2, <2>4, <2>6, <2>7 DEF NothingLost
<1>5. QED BY <1>2, <1>3, <1>4

\* Every step keeps the strengthening.
LEMMA HistoryStep == HIInv /\ [ConversationNext]_conversationVars => HIInv'
<1> SUFFICES ASSUME HIInv, [ConversationNext]_conversationVars PROVE HIInv'
  OBVIOUS
<1>1. CASE UNCHANGED historyVars
  <2>1. /\ history' = history /\ task' = task /\ erase' = erase
        /\ ack' = ack /\ early' = early /\ torn' = torn
    BY <1>1 DEF historyVars
  <2>2. HistoryTypeOK' /\ NothingInvented'
    BY <2>1 DEF HIInv, HistoryTypeOK, NothingInvented, Claimed
  <2>3. ~torn' => NothingLost'
    BY <2>1 DEF HIInv, NothingLost, Stored
  <2>4. QED BY <2>2, <2>3 DEF HIInv
<1>2. ASSUME NEW m \in Sent, StartSend(m) PROVE HIInv'
  BY <1>2, TaskStep DEF StartSend, Text, Receipt
<1>3. ASSUME NEW m \in Sent, SendAcked(m) PROVE HIInv'
  BY <1>3, TaskStep DEF SendAcked, Text
<1>4. ASSUME NEW m \in Received, Receive(m) PROVE HIInv'
  BY <1>4, TaskStep DEF Receive, Text
<1>5. ASSUME NEW m \in Text, AfterAppend(m) PROVE HIInv'
  BY <1>5, TaskStep DEF AfterAppend
<1>6. ASSUME NEW m \in Text, ReadForAppend(m) \/ StartDelete(m) PROVE HIInv'
  BY <1>6, ReadStep
<1>7. ASSUME NEW m \in Text, WriteAppend(m) PROVE HIInv'
  BY <1>7, AppendStep
<1>8. ASSUME NEW m \in Text, WriteDelete(m) PROVE HIInv'
  BY <1>8, DeleteStep
<1>9. ASSUME NEW m \in Text, AfterDelete(m) PROVE HIInv'
  BY <1>9, AfterDeleteStep
<1>10. ASSUME NEW m \in Sent, NEW r \in Receipt, GiveReceipt(m, r) \/ HearReceipt(m, r) PROVE HIInv'
  BY <1>10, GiveReceiptStep, HearReceiptStep
<1>11. ASSUME NEW c \in Chat, OpenChat(c) \/ Render(c) PROVE HIInv'
  BY <1>1, <1>11 DEF OpenChat, Render
<1>12. QED
  BY <1>1, <1>2, <1>3, <1>4, <1>5, <1>6, <1>7, <1>8, <1>9, <1>10, <1>11
     DEF ConversationNext, conversationVars, Receipt

-----------------------------------------------------------------------------
(* The screen. *)

\* Whoever will put the chat on the screen without looking works for the chat that is
\* open, as long as no other was opened meanwhile.
SIInv ==
    /\ open \in Chat /\ screen \in Chat
    /\ renders \subseteq Chat
    /\ mixed \in BOOLEAN
    /\ ~mixed =>
        /\ renders \subseteq {open}
        /\ renders = {} => screen = open
        /\ (\E m \in Sent : task[m].at \in {"sent", "acked", "writing", "stored"}) => open = "this"
        /\ (\E m \in Text : erase[m].at \in {"writing", "stored"}) => open = "this"

\* Every step keeps what is said of the screen.
LEMMA ScreenStep == HIInv /\ SIInv /\ [ConversationNext]_conversationVars => SIInv'
<1> SUFFICES ASSUME HIInv, SIInv, [ConversationNext]_conversationVars PROVE SIInv'
  OBVIOUS
<1> USE DEF SIInv
<1>0. /\ task \in [Text -> [at : {"idle", "sent", "acked", "writing", "stored", "done", "failed"}, snap : History]]
      /\ erase \in [Text -> [at : {"idle", "writing", "stored", "done"}, snap : History]]
  BY DEF HIInv, HistoryTypeOK
<1>1. ASSUME NEW m \in Sent, StartSend(m) PROVE SIInv'
  BY <1>0, <1>1 DEF StartSend, Work, viewVars
<1>2. ASSUME NEW m \in Sent, SendAcked(m) PROVE SIInv'
  BY <1>0, <1>2 DEF SendAcked, Work, viewVars, Text
<1>3. ASSUME NEW m \in Received, Receive(m) PROVE SIInv'
  BY <1>0, <1>3, ConversationAssumption DEF Receive, Work, viewVars, Text
<1>4. ASSUME NEW m \in Text, ReadForAppend(m) PROVE SIInv'
  BY <1>0, <1>4 DEF ReadForAppend, viewVars, Text
<1>5. ASSUME NEW m \in Text, WriteAppend(m) PROVE SIInv'
  BY <1>0, <1>5 DEF WriteAppend, Work, viewVars, Text
<1>6. ASSUME NEW m \in Text, AfterAppend(m) PROVE SIInv'
  BY <1>0, <1>6 DEF AfterAppend, Work, Text, Chat
<1>7. ASSUME NEW m \in Sent, NEW r \in Receipt, GiveReceipt(m, r) \/ HearReceipt(m, r) PROVE SIInv'
  <2>1. UNCHANGED <<task, erase, open, screen, mixed>>
    BY <1>7 DEF GiveReceipt, HearReceipt, viewVars
  <2>2. renders' = renders \/ (renders' = renders \cup {"this"} /\ open = "this")
    BY <1>7 DEF GiveReceipt, HearReceipt, viewVars
  <2>3. QED BY <2>1, <2>2 DEF Chat
<1>8. ASSUME NEW m \in Text, StartDelete(m) PROVE SIInv'
  BY <1>0, <1>8 DEF StartDelete, viewVars, Text
<1>9. ASSUME NEW m \in Text, WriteDelete(m) PROVE SIInv'
  BY <1>0, <1>9 DEF WriteDelete, Work, viewVars, Text
<1>10. ASSUME NEW m \in Text, AfterDelete(m) PROVE SIInv'
  BY <1>0, <1>10 DEF AfterDelete, Work, Text, Chat
<1>11. ASSUME NEW c \in Chat, OpenChat(c) PROVE SIInv'
  <2>1. UNCHANGED <<task, erase, screen>> /\ open' = c /\ renders' = renders \cup {c}
        /\ mixed' = (mixed \/ renders # {} \/ AtHand # {})
    BY <1>11 DEF OpenChat, historyVars
  <2>2. mixed' \in BOOLEAN /\ renders' \subseteq Chat /\ open' \in Chat /\ screen' \in Chat
    BY <1>11, <2>1
  <2>3. ASSUME ~mixed' PROVE renders = {} /\ AtHand = {}
    BY <2>1, <2>3
  <2>4. ASSUME ~mixed' PROVE SIInv'
    BY <2>1, <2>2, <2>3, <2>4 DEF AtHand
  <2>5. QED BY <2>2, <2>4
<1>12. ASSUME NEW c \in Chat, Render(c) PROVE SIInv'
  BY <1>12 DEF Render, historyVars
<1>13. CASE UNCHANGED conversationVars
  BY <1>13 DEF conversationVars, historyVars, viewVars
<1>14. QED
  BY <1>1, <1>2, <1>3, <1>4, <1>5, <1>6, <1>7, <1>8, <1>9, <1>10, <1>11, <1>12, <1>13
     DEF ConversationNext, Receipt

-----------------------------------------------------------------------------
(* The theorems. *)

\* The inductive invariant of the history.
THEOREM HistoryIInv == ConversationSpec => []HIInv
<1>1. ASSUME ConversationInit PROVE HIInv
  <2> USE <1>1 DEF ConversationInit
  <2>1. HistoryTypeOK
    BY EmptyHistory DEF HistoryTypeOK, Work, Receipt
  <2>2. Claimed(Empty)
    BY EmptyHistory DEF Claimed, Text, Receipt
  <2>3. NothingInvented
    BY <2>2 DEF NothingInvented, Work, Receipt
  <2>4. NothingLost
    BY EmptyHistory DEF NothingLost, Stored, Work, Receipt
  <2>5. QED BY <2>1, <2>3, <2>4 DEF HIInv
<1>2. QED BY <1>1, HistoryStep, PTL DEF ConversationSpec

\* For any messages sent and received at once, ticks claim what the recipient did and
\* only go forward, and messages stay until they are deleted (localDb.ts:159-204).
THEOREM HistoryIsRight == ConversationSpec => []HistoryRight
<1>1. HIInv => HistoryRight
  BY DEF HIInv, HistoryTypeOK, NothingInvented, NothingLost, Claimed, Stored, Receipt, Text,
     HistoryRight, TickTrue, TickCurrent, HistoryComplete
<1>2. QED BY <1>1, HistoryIInv, PTL

\* And that of the screen.
THEOREM ScreenIInv == ConversationSpec => []SIInv
<1>1. ConversationInit => SIInv
  BY DEF ConversationInit, SIInv, Work, Text, Chat
<1>2. QED BY <1>1, ScreenStep, HistoryIInv, PTL DEF ConversationSpec

\* Nor does the screen show another chat than the open one, once everything was read,
\* unless the chat was changed during an operation (page.tsx:1245, 1679, 1771).
THEOREM ScreenIsOpenChat == ConversationSpec => []ScreenMatches
<1>1. SIInv => ScreenMatches
  BY DEF SIInv, ScreenMatches
<1>2. QED BY <1>1, ScreenIInv, PTL

-----------------------------------------------------------------------------
(* The chat list (Roster).                                                   *)

PatchSet == [field : {"none", "gone"}] \cup [field : {"unread"}, to : Unread]
            \cup [field : {"favourite", "muted", "list"}, to : BOOLEAN]

\* Rows, and what stands in for a chat that has none.
LEMMA RowFacts ==
  /\ NewRow \in Row /\ NewRow.unread = 0 /\ NewRow.muted = FALSE
  /\ Unlisted \notin Row /\ Unlisted.muted = FALSE
  /\ Nowhere \in Listing
BY RosterAssumption DEF NewRow, Row, Unread, Unlisted, Nowhere, Listing

\* A patch sets its field and leaves the others.
LEMMA PatchFacts ==
  ASSUME NEW row \in Row \cup {Unlisted}, NEW patch \in PatchSet
  PROVE  /\ IsPatch(patch)
         /\ Patched(row, patch) \in Row \cup {Unlisted}
         /\ patch.field = "muted" => Patched(row, patch) \in Row /\ Patched(row, patch).muted = patch.to
         /\ patch.field # "muted" => (Patched(row, patch).muted => row.muted)
         /\ \A n \in Nat :
              (row \in Row => row.unread <= n) /\ (patch.field = "unread" => patch.to <= n)
                 => (Patched(row, patch) \in Row => Patched(row, patch).unread <= n)
<1> DEFINE old == IF row = Unlisted THEN NewRow ELSE row
<1>1. old \in Row /\ (old.muted => row.muted) /\ (row \in Row => old = row) /\ (row \notin Row => old.unread = 0)
  BY RowFacts
<1> HIDE DEF old
<1>2. CASE patch.field = "none"
  BY <1>1, <1>2 DEF Patched, IsPatch, old
<1>3. CASE patch.field = "gone"
  BY <1>3, RowFacts DEF Patched, IsPatch
<1>4. CASE patch.field = "unread"
  <2>1. patch.to \in Unread /\ IsPatch(patch)
    BY <1>4 DEF PatchSet, IsPatch
  <2>2. Patched(row, patch) = [old EXCEPT !["unread"] = patch.to]
    BY <1>4 DEF Patched, old
  <2>3. Patched(row, patch) \in Row /\ Patched(row, patch).unread = patch.to /\ Patched(row, patch).muted = old.muted
    BY <1>1, <2>1, <2>2 DEF Row
  <2>4. QED
    BY <1>1, <1>4, <2>1, <2>3
<1>5. CASE patch.field \in {"favourite", "list"}
  <2>1. patch.to \in BOOLEAN /\ IsPatch(patch)
    BY <1>5 DEF PatchSet, IsPatch
  <2>2. Patched(row, patch) = [old EXCEPT ![patch.field] = patch.to]
    BY <1>5 DEF Patched, old
  <2>3. Patched(row, patch) \in Row /\ Patched(row, patch).unread = old.unread /\ Patched(row, patch).muted = old.muted
    BY <1>1, <1>5, <2>1, <2>2 DEF Row
  <2>4. QED
    BY <1>1, <1>5, <2>1, <2>3
<1>6. CASE patch.field = "muted"
  <2>1. patch.to \in BOOLEAN /\ IsPatch(patch)
    BY <1>6 DEF PatchSet, IsPatch
  <2>2. Patched(row, patch) = [old EXCEPT !["muted"] = patch.to]
    BY <1>6 DEF Patched, old
  <2>3. Patched(row, patch) \in Row /\ Patched(row, patch).unread = old.unread /\ Patched(row, patch).muted = patch.to
    BY <1>1, <2>1, <2>2 DEF Row
  <2>4. QED
    BY <1>1, <1>6, <2>1, <2>3
<1>7. QED
  BY <1>2, <1>3, <1>4, <1>5, <1>6 DEF PatchSet

JobOp == {"none", "favourite", "list", "mute", "put", "arrive", "count", "seen", "delete",
          "drop list", "relist", "sync"}
JobPhase == {"new", "ask", "look", "get", "set", "done"}
JobSet == [op : JobOp, at : JobPhase, chats : SUBSET Chats, patch : PatchSet, snap : Listing]

RosterTypes ==
    /\ rows \in Listing
    /\ labelled \in BOOLEAN
    /\ muted \subseteq Chats /\ peers \subseteq Chats
    /\ job \in [Job -> JobSet]
    /\ gone \subseteq Chats /\ clashed \subseteq Chats

\* No count is above the number of operations that have counted or are over: each
\* adds one to a count it has read, and may do so but once.
HasCounted(q) == q.at = "done" \/ (q.op = "count" /\ q.at \in {"get", "set"})
Got == {j \in Job : HasCounted(job[j])}
Within(listing, n) == \A c \in Chats : listing[c] \in Row => listing[c].unread <= n
CountsOK ==
    /\ Within(rows, Cardinality(Got))
    /\ \A j \in Job : /\ Within(job[j].snap, Cardinality(Got))
                      /\ job[j].patch.field = "unread" => job[j].patch.to <= Cardinality(Got)

\* Which operations set a mute, and which are about one chat.
MuterOK(q) ==
    /\ q.patch.field = "muted" <=> q.op \in {"mute", "sync"}
    /\ q.op = "sync" => q.patch.to = TRUE
    /\ q.op = "mute" => q.at # "look"
    /\ q.op = "count" /\ q.at = "look" => \E c \in Chats : q.chats = {c}
    /\ q.op = "delete" => q.patch.field = "gone"

MutersOK == \A j \in Active : MuterOK(job[j])

\* As long as operations on a chat do not clash: once it is deleted, only a copy of
\* the mutes that has yet to look at the list is about it; one operation at a time
\* is about its mute, and what it is to set is what the server has; the list shows
\* no mute that the server does not have, but for one whose removal the server has
\* been told of.
KeptAt(c) ==
    /\ c \in gone => rows[c] = Unlisted /\ \A j \in On(c) : job[j].op = "sync" /\ job[j].at = "look"
    /\ \A i, j \in Muting(c) : i = j
    /\ \A j \in Muting(c) : job[j].patch.to = TRUE /\ job[j].at # "ask" => c \in muted
    /\ rows[c].muted => \/ c \in muted
                        \/ \E j \in Muting(c) : /\ job[j].op = "mute" /\ job[j].at \in {"get", "set"}
                                                /\ job[j].patch.to = FALSE

KeptOK == \A c \in Chats \ clashed : KeptAt(c)

RosterIInv == RosterTypes /\ CountsOK /\ MutersOK /\ KeptOK

\* The types above are those of the module.
LEMMA RosterTypeFacts == RosterTypes => RosterTypeOK
<1> SUFFICES ASSUME RosterTypes PROVE RosterTypeOK
  OBVIOUS
<1>1. ASSUME NEW p \in PatchSet PROVE IsPatch(p)
  BY <1>1, RowFacts, PatchFacts
<1>2. QED
  BY <1>1 DEF RosterTypes, RosterTypeOK, JobSet, JobOp, JobPhase

\* More operations have counted, and the number of them is larger.
LEMMA GotFacts ==
  ASSUME Got \subseteq Got'
  PROVE  /\ Cardinality(Got) \in Nat /\ Cardinality(Got') \in Nat
         /\ Cardinality(Got) <= Cardinality(Got')
         /\ Cardinality(Got') <= Jobs
         /\ \A j \in Got' \ Got : Cardinality(Got) + 1 <= Cardinality(Got')
<1>1. IsFiniteSet(Job) /\ Cardinality(Job) = Jobs
  <2>1. Jobs \in Nat
    BY RosterAssumption
  <2>2. IsFiniteSet(1 .. Jobs) /\ Cardinality(1 .. Jobs) = IF 1 > Jobs THEN 0 ELSE Jobs - 1 + 1
    BY <2>1, FS_Interval
  <2>3. QED
    BY <2>1, <2>2 DEF Job
<1>2. Got' \subseteq Job /\ Got \subseteq Job
  BY DEF Got
<1>3. IsFiniteSet(Got') /\ Cardinality(Got') <= Jobs
  BY <1>1, <1>2, FS_Subset
<1>4. IsFiniteSet(Got) /\ Cardinality(Got) <= Cardinality(Got')
  BY <1>3, FS_Subset
<1>5. Cardinality(Got) \in Nat /\ Cardinality(Got') \in Nat
  BY <1>3, <1>4, FS_CardinalityType
<1>6. ASSUME NEW j \in Got' \ Got PROVE Cardinality(Got) + 1 <= Cardinality(Got')
  <2>1. Got \cup {j} \subseteq Got'
    BY <1>6
  <2>2. Cardinality(Got \cup {j}) = Cardinality(Got) + 1
    BY <1>4, <1>6, FS_AddElement
  <2>3. Cardinality(Got \cup {j}) <= Cardinality(Got')
    BY <1>3, <2>1, FS_Subset
  <2>4. QED
    BY <2>2, <2>3
<1>7. QED
  BY <1>3, <1>4, <1>5, <1>6

\* While one has not counted, their number is below the bound.
LEMMA GotRoom ==
  ASSUME NEW j \in Job \ Got
  PROVE  Cardinality(Got) \in Nat /\ Cardinality(Got) + 1 <= Jobs
<1>1. IsFiniteSet(Job) /\ Cardinality(Job) = Jobs
  <2>1. IsFiniteSet(1 .. Jobs) /\ Cardinality(1 .. Jobs) = IF 1 > Jobs THEN 0 ELSE Jobs - 1 + 1
    BY RosterAssumption, FS_Interval
  <2>2. QED
    BY <2>1, RosterAssumption DEF Job
<1>2. Got \cup {j} \subseteq Job
  BY DEF Got
<1>3. IsFiniteSet(Got)
  BY <1>1, <1>2, FS_Subset
<1>4. Cardinality(Got) \in Nat /\ Cardinality(Got \cup {j}) = Cardinality(Got) + 1
  BY <1>3, FS_AddElement, FS_CardinalityType
<1>5. Cardinality(Got \cup {j}) <= Jobs
  BY <1>1, <1>2, FS_Subset
<1>6. QED
  BY <1>4, <1>5

\* A larger bound holds as well.
LEMMA WithinMore ==
  ASSUME NEW listing \in Listing, NEW m \in Nat, NEW n \in Nat, m <= n, Within(listing, m)
  PROVE  Within(listing, n)
BY DEF Within, Listing, Row, Unread, Unlisted

\* One operation takes a step; the list stays within the count.
LEMMA CountsStep ==
  ASSUME RosterTypes, CountsOK, NEW j \in Job, NEW q \in JobSet, job' = [job EXCEPT ![j] = q],
         HasCounted(job[j]) => HasCounted(q),
         rows' \in Listing, Within(rows', Cardinality(Got)),
         q.snap \in {job[j].snap, rows, Nowhere},
         q.patch.field = "unread" => \/ q.patch = job[j].patch \/ q.patch.to = 0
                                     \/ /\ q.patch.to <= Cardinality(Got) + 1
                                        /\ HasCounted(q) /\ ~HasCounted(job[j])
  PROVE  CountsOK'
<1>1. /\ job' \in [Job -> JobSet] /\ job'[j] = q /\ \A i \in Job \ {j} : job'[i] = job[i]
      /\ \A i \in Job : job[i] \in JobSet /\ job[i].snap \in Listing
      /\ rows \in Listing
  BY DEF RosterTypes, JobSet
<1>2. Got \subseteq Got'
  BY <1>1 DEF Got
<1>3. /\ Cardinality(Got) \in Nat /\ Cardinality(Got') \in Nat
      /\ Cardinality(Got) <= Cardinality(Got')
      /\ \A i \in Got' \ Got : Cardinality(Got) + 1 <= Cardinality(Got')
  BY <1>2, GotFacts
<1>4. Within(rows, Cardinality(Got')) /\ Within(rows', Cardinality(Got'))
  BY <1>1, <1>3, WithinMore DEF CountsOK
<1>5. \A i \in Job : Within(job[i].snap, Cardinality(Got'))
  BY <1>1, <1>3, WithinMore DEF CountsOK
<1>6. Within(Nowhere, Cardinality(Got'))
  BY RowFacts DEF Within, Nowhere
<1>7. \A i \in Job : Within(job'[i].snap, Cardinality(Got'))
  BY <1>1, <1>4, <1>5, <1>6
<1>8. \A i \in Job : job[i].patch.field = "unread" =>
          job[i].patch.to <= Cardinality(Got) /\ job[i].patch.to \in Nat
  BY <1>1 DEF CountsOK, JobSet, PatchSet, Unread
<1>9. ASSUME q.patch.field = "unread" PROVE q.patch.to <= Cardinality(Got')
  <2>1. q.patch.to \in Nat
    BY <1>9 DEF JobSet, PatchSet, Unread
  <2>2. HasCounted(q) /\ ~HasCounted(job[j]) => j \in Got' \ Got
    BY <1>1 DEF Got
  <2>3. QED
    BY <1>3, <1>8, <1>9, <2>1, <2>2
<1>10. \A i \in Job : job'[i].patch.field = "unread" => job'[i].patch.to <= Cardinality(Got')
  <2> SUFFICES ASSUME NEW i \in Job, job'[i].patch.field = "unread" PROVE job'[i].patch.to <= Cardinality(Got')
    OBVIOUS
  <2>1. CASE i = j
    BY <1>1, <1>9, <2>1
  <2>2. CASE i # j
    BY <1>1, <1>3, <1>8, <2>2
  <2>3. QED
    BY <2>1, <2>2
<1>11. QED
  BY <1>4, <1>7, <1>10 DEF CountsOK, Within

\* One operation becomes q: who is on a chat, and who sets its mute.
LEMMA OnFacts ==
  ASSUME RosterTypes, NEW j \in Job, NEW q \in JobSet, job' = [job EXCEPT ![j] = q], NEW c \in Chats
  PROVE  /\ job' \in [Job -> JobSet] /\ job'[j] = q /\ \A i \in Job \ {j} : job'[i] = job[i]
         /\ \A i \in Job \ {j} : (i \in On(c)' <=> i \in On(c)) /\ (i \in Muting(c)' <=> i \in Muting(c))
         /\ j \in On(c)' <=> q.at \notin {"new", "done"} /\ c \in q.chats
         /\ j \in Muting(c)' <=> q.at \notin {"new", "done"} /\ c \in q.chats /\ q.op \in {"mute", "sync"}
         /\ j \in Muting(c) <=> job[j].at \notin {"new", "done"} /\ c \in job[j].chats /\ job[j].op \in {"mute", "sync"}
         /\ On(c) \subseteq Job /\ Muting(c) \subseteq On(c)
         /\ On(c)' \subseteq Job /\ Muting(c)' \subseteq On(c)'
<1>1. /\ job' \in [Job -> JobSet] /\ job'[j] = q /\ \A i \in Job \ {j} : job'[i] = job[i]
  BY DEF RosterTypes
<1>2. \A i \in Job \ {j} : i \in On(c)' <=> i \in On(c)
  BY <1>1 DEF On, Active
<1>3. \A i \in Job \ {j} : i \in Muting(c)' <=> i \in Muting(c)
  BY <1>1, <1>2 DEF Muting
<1>4. j \in On(c)' <=> q.at \notin {"new", "done"} /\ c \in q.chats
  BY <1>1 DEF On, Active
<1>5. j \in Muting(c)' <=> q.at \notin {"new", "done"} /\ c \in q.chats /\ q.op \in {"mute", "sync"}
  BY <1>1, <1>4 DEF Muting
<1>6. j \in Muting(c) <=> job[j].at \notin {"new", "done"} /\ c \in job[j].chats /\ job[j].op \in {"mute", "sync"}
  BY DEF Muting, On, Active
<1>7. On(c) \subseteq Job /\ Muting(c) \subseteq On(c) /\ On(c)' \subseteq Job /\ Muting(c)' \subseteq On(c)'
  BY DEF Muting, On, Active
<1>8. QED
  BY <1>1, <1>2, <1>3, <1>4, <1>5, <1>6, <1>7

\* The operations under way, each as it should be, but one that becomes q.
LEMMA MutersStep ==
  ASSUME RosterTypes, MutersOK, NEW j \in Job, NEW q \in JobSet, job' = [job EXCEPT ![j] = q],
         q.at # "done" => MuterOK(q)
  PROVE  MutersOK'
<1>1. /\ job' \in [Job -> JobSet] /\ job'[j] = q /\ \A i \in Job \ {j} : job'[i] = job[i]
  BY DEF RosterTypes
<1>2. \A i \in Active' : i \in Job /\ (i # j => i \in Active) /\ (i = j => q.at # "done")
  BY <1>1 DEF Active
<1>3. ASSUME NEW i \in Active' PROVE MuterOK(job'[i])
  <2>1. CASE i = j
    BY <1>1, <1>2, <2>1
  <2>2. CASE i # j
    BY <1>1, <1>2, <2>2 DEF MutersOK
  <2>3. QED
    BY <2>1, <2>2
<1>4. QED
  BY <1>3 DEF MutersOK, MuterOK

\* An operation begins, or takes a step that neither sets the list nor tells the
\* server of a mute.
LEMMA MoveJob ==
  ASSUME RosterIInv, NEW j \in Job, NEW q \in JobSet, job' = [job EXCEPT ![j] = q],
         UNCHANGED <<rows, muted>>, labelled' \in BOOLEAN, peers' \subseteq Chats,
         gone' \subseteq gone, clashed \subseteq clashed', clashed' \subseteq Chats,
         HasCounted(job[j]) => HasCounted(q),
         q.snap \in {job[j].snap, rows, Nowhere},
         q.patch.field = "unread" => \/ q.patch = job[j].patch \/ q.patch.to = 0
                                     \/ /\ q.patch.to <= Cardinality(Got) + 1
                                        /\ HasCounted(q) /\ ~HasCounted(job[j]),
         q.at # "new", q.at # "done" => MuterOK(q),
         \A c \in q.chats : c \in gone' \ clashed' /\ q.at # "done" => q.op = "sync" /\ q.at = "look",
         \A c \in q.chats \ clashed' : q.at # "done" /\ q.op \in {"mute", "sync"} =>
             /\ j \in Muting(c) \/ Muting(c) = {}
             /\ q.patch.to = TRUE /\ q.at # "ask" =>
                   c \in muted \/ (j \in Muting(c) /\ q.patch = job[j].patch /\ job[j].at # "ask"),
         j \in Active /\ job[j].op = "mute" =>
             q.op = "mute" /\ q.at \in {"get", "set"} /\ q.patch = job[j].patch /\ q.chats = job[j].chats
  PROVE  RosterIInv'
<1>1. RosterTypes /\ CountsOK /\ MutersOK /\ KeptOK
  BY DEF RosterIInv
<1>2. /\ job' \in [Job -> JobSet] /\ job'[j] = q /\ \A i \in Job \ {j} : job'[i] = job[i]
  BY <1>1 DEF RosterTypes
<1>3. RosterTypes'
  BY <1>1, <1>2 DEF RosterTypes
<1>4. CountsOK'
  <2>1. rows' \in Listing /\ Within(rows', Cardinality(Got))
    BY <1>1 DEF RosterTypes, CountsOK
  <2>2. QED
    BY <1>1, <2>1, CountsStep
<1>5. MutersOK'
  BY <1>1, MutersStep
<1>6. ASSUME NEW c \in Chats, c \notin clashed' PROVE KeptAt(c)'
  <2>1. KeptAt(c)
    BY <1>1, <1>6 DEF KeptOK
  <2>2. /\ \A i \in Job \ {j} : (i \in On(c)' <=> i \in On(c)) /\ (i \in Muting(c)' <=> i \in Muting(c))
        /\ j \in On(c)' <=> q.at \notin {"new", "done"} /\ c \in q.chats
        /\ j \in Muting(c)' <=> q.at \notin {"new", "done"} /\ c \in q.chats /\ q.op \in {"mute", "sync"}
        /\ j \in Muting(c) <=> job[j].at \notin {"new", "done"} /\ c \in job[j].chats /\ job[j].op \in {"mute", "sync"}
        /\ On(c) \subseteq Job /\ Muting(c) \subseteq On(c)
        /\ On(c)' \subseteq Job /\ Muting(c)' \subseteq On(c)'
    BY <1>1, OnFacts
  <2>3. ASSUME c \in gone' PROVE rows[c] = Unlisted /\ \A i \in On(c)' : job'[i].op = "sync" /\ job'[i].at = "look"
    <3>1. c \in gone
      BY <2>3
    <3>2. rows[c] = Unlisted /\ \A i \in On(c) : job[i].op = "sync" /\ job[i].at = "look"
      BY <2>1, <3>1 DEF KeptAt
    <3>3. j \in On(c)' => q.op = "sync" /\ q.at = "look"
      BY <1>6, <2>2, <2>3
    <3>4. QED
      BY <1>2, <2>2, <3>2, <3>3
  <2>4. \A m, n \in Muting(c)' : m = n
    <3>1. \A m, n \in Muting(c) : m = n
      BY <2>1 DEF KeptAt
    <3>2. j \in Muting(c)' => j \in Muting(c) \/ Muting(c) = {}
      BY <1>6, <2>2
    <3>3. QED
      BY <2>2, <3>1, <3>2
  <2>5. \A i \in Muting(c)' : job'[i].patch.to = TRUE /\ job'[i].at # "ask" => c \in muted
    <3>1. \A i \in Muting(c) : job[i].patch.to = TRUE /\ job[i].at # "ask" => c \in muted
      BY <2>1 DEF KeptAt
    <3>2. j \in Muting(c)' /\ q.patch.to = TRUE /\ q.at # "ask" => c \in muted
      BY <1>6, <2>2, <3>1
    <3>3. QED
      BY <1>2, <2>2, <3>1, <3>2
  <2>6. ASSUME rows[c].muted, c \notin muted
        PROVE  \E i \in Muting(c)' : /\ job'[i].op = "mute" /\ job'[i].at \in {"get", "set"}
                                     /\ job'[i].patch.to = FALSE
    <3>1. PICK i \in Muting(c) : job[i].op = "mute" /\ job[i].at \in {"get", "set"} /\ job[i].patch.to = FALSE
      BY <2>1, <2>6 DEF KeptAt
    <3>2. CASE i = j
      <4>1. j \in Active
        BY <3>1, <3>2 DEF Active
      <4>2. q.op = "mute" /\ q.at \in {"get", "set"} /\ q.patch = job[j].patch /\ q.chats = job[j].chats
        BY <3>1, <3>2, <4>1
      <4>3. j \in Muting(c)'
        BY <2>2, <3>1, <3>2, <4>2
      <4>4. QED
        BY <1>2, <3>1, <3>2, <4>2, <4>3
    <3>3. CASE i # j
      BY <1>2, <2>2, <3>1, <3>3
    <3>4. QED
      BY <3>2, <3>3
  <2>7. QED
    BY <2>3, <2>4, <2>5, <2>6 DEF KeptAt
<1>7. KeptOK'
  BY <1>6 DEF KeptOK
<1>8. QED
  BY <1>3, <1>4, <1>5, <1>7 DEF RosterIInv

\* An operation that has its turn is not under way.
LEMMA NewJob ==
  ASSUME NEW j \in Job, Turn(j)
  PROVE  job[j].at = "new" /\ j \notin Active /\ ~HasCounted(job[j]) /\ \A c \in Chats : j \notin Muting(c)
BY DEF Turn, Active, HasCounted, Muting, On

\* An operation on one chat begins.
LEMMA BeginJob ==
  ASSUME RosterIInv, NEW j \in Job, NEW c \in Chats,
         NEW op \in JobOp, NEW at \in {"ask", "look", "get"}, NEW patch \in PatchSet,
         StartJob(j, op, at, c, patch),
         patch.field = "unread" => patch.to = 0,
         patch.field = "muted" <=> op = "mute", op = "mute" => at = "ask",
         op \notin {"sync", "count"}, op = "delete" => patch.field = "gone",
         peers' \subseteq Chats, gone' \subseteq gone,
         clashed' = clashed \/ clashed' = clashed \cup {c},
         rows[c] # Unlisted \/ c \notin gone',
         op = "mute" => Muting(c) = {} \/ c \in clashed'
  PROVE  RosterIInv'
<1> DEFINE q == [op |-> op, at |-> at, chats |-> {c}, patch |-> patch, snap |-> Nowhere]
<1>1. /\ q \in JobSet /\ q.op = op /\ q.at = at /\ q.chats = {c} /\ q.patch = patch /\ q.snap = Nowhere
      /\ Turn(j) /\ job' = [job EXCEPT ![j] = q]
      /\ UNCHANGED <<rows, labelled, muted>>
  BY RowFacts DEF JobSet, JobPhase, StartJob
<1> HIDE DEF q
<1>2. job[j].at = "new" /\ j \notin Active /\ ~HasCounted(job[j])
  BY <1>1, NewJob
<1>3. RosterTypes /\ KeptOK
  BY DEF RosterIInv
<1>4. clashed \subseteq clashed' /\ clashed' \subseteq Chats /\ labelled' \in BOOLEAN
  BY <1>1, <1>3 DEF RosterTypes
<1>5. c \in gone' => c \in clashed'
  <2>1. c \in gone \ clashed => rows[c] = Unlisted
    BY <1>3 DEF KeptOK, KeptAt
  <2>2. QED
    BY <1>4, <2>1
<1>6. MuterOK(q)
  BY <1>1 DEF MuterOK
<1>7. \A d \in q.chats : ~(d \in gone' \ clashed')
  BY <1>1, <1>5
<1>8. \A d \in q.chats \ clashed' : q.op \in {"mute", "sync"} => Muting(d) = {} /\ q.at = "ask"
  BY <1>1
<1>9. QED
  BY <1>1, <1>2, <1>4, <1>6, <1>7, <1>8, MoveJob

\* The operations a tap, an arriving message or a call begins.
LEMMA StartSteps ==
  ASSUME RosterIInv, NEW j \in Job, NEW c \in Chats,
         \/ \E field \in Toggle : StartToggle(j, c, field)
         \/ \E to \in BOOLEAN : StartMute(j, c, to)
         \/ StartArrive(j, c) \/ \E sends \in BOOLEAN : StartPut(j, c, sends)
         \/ StartSeen(j, c) \/ StartDeleteChat(j, c)
  PROVE  RosterIInv'
<1>1. NoPatch \in PatchSet /\ NoPatch.field = "none"
  BY DEF NoPatch, PatchSet
<1>2. peers \subseteq Chats
  BY DEF RosterIInv, RosterTypes
<1>3. CASE \E field \in Toggle : StartToggle(j, c, field)
  <2>1. PICK field \in Toggle : StartToggle(j, c, field)
    BY <1>3
  <2>2. field \in JobOp /\ field \notin {"mute", "sync", "count", "delete"}
    BY DEF Toggle, JobOp
  <2>3. QED
    BY <1>1, <1>2, <2>1, <2>2, BeginJob DEF StartToggle
<1>4. CASE \E to \in BOOLEAN : StartMute(j, c, to)
  <2>1. PICK to \in BOOLEAN : StartMute(j, c, to)
    BY <1>4
  <2> DEFINE p == [field |-> "muted", to |-> to]
  <2>2. p \in PatchSet /\ p.field = "muted"
    BY DEF PatchSet
  <2>3. /\ rows[c] # Unlisted /\ StartJob(j, "mute", "ask", c, p)
        /\ clashed' = (IF Muting(c) # {} THEN clashed \cup {c} ELSE clashed) /\ UNCHANGED <<peers, gone>>
    BY <2>1 DEF StartMute
  <2> HIDE DEF p
  <2>4. "mute" \in JobOp
    BY DEF JobOp
  <2>5. QED
    BY <1>2, <2>2, <2>3, <2>4, BeginJob
<1>5. CASE StartArrive(j, c)
  <2>1. /\ StartJob(j, "arrive", "get", c, NoPatch) /\ peers' = peers \cup {c} /\ gone' = gone \ {c}
        /\ clashed' = clashed /\ "arrive" \in JobOp
    BY <1>5 DEF StartArrive, JobOp
  <2>2. QED
    BY <1>1, <1>2, <2>1, BeginJob
<1>6. CASE \E sends \in BOOLEAN : StartPut(j, c, sends)
  <2>1. /\ StartJob(j, "put", "get", c, NoPatch) /\ peers' \subseteq Chats /\ gone' = gone \ {c}
        /\ clashed' = clashed /\ "put" \in JobOp
    BY <1>2, <1>6 DEF StartPut, JobOp
  <2>2. QED
    BY <1>1, <2>1, BeginJob
<1>7. CASE StartSeen(j, c)
  <2> DEFINE p == [field |-> "unread", to |-> 0]
  <2>1. p \in PatchSet /\ p.field = "unread" /\ p.to = 0
    BY RosterAssumption DEF PatchSet, Unread
  <2>2. rows[c] # Unlisted /\ StartJob(j, "seen", "get", c, p) /\ UNCHANGED <<peers, gone, clashed>>
    BY <1>7 DEF StartSeen
  <2> HIDE DEF p
  <2>3. "seen" \in JobOp
    BY DEF JobOp
  <2>4. QED
    BY <1>2, <2>1, <2>2, <2>3, BeginJob
<1>8. CASE StartDeleteChat(j, c)
  <2> DEFINE p == [field |-> "gone"]
  <2>1. p \in PatchSet /\ p.field = "gone"
    BY DEF PatchSet
  <2>2. rows[c] # Unlisted /\ StartJob(j, "delete", "get", c, p) /\ UNCHANGED <<peers, gone, clashed>>
    BY <1>8 DEF StartDeleteChat
  <2> HIDE DEF p
  <2>3. "delete" \in JobOp
    BY DEF JobOp
  <2>4. QED
    BY <1>2, <2>1, <2>2, <2>3, BeginJob
<1>9. QED
  BY <1>3, <1>4, <1>5, <1>6, <1>7, <1>8

\* A list is to be taken off all chats.
LEMMA DropListStep ==
  ASSUME RosterIInv, NEW j \in Job, StartDropList(j)
  PROVE  RosterIInv'
<1> DEFINE p == [field |-> "list", to |-> FALSE]
           q == [Waiting EXCEPT !.op = "drop list", !.at = "look", !.patch = p]
<1>1. p \in PatchSet /\ p.field = "list"
  BY DEF PatchSet
<1>2. job' = [job EXCEPT ![j] = q] /\ Turn(j)
      /\ labelled' \in BOOLEAN /\ UNCHANGED <<rows, muted, peers, gone, clashed>>
  BY DEF StartDropList
<1> HIDE DEF p
<1>3. /\ q \in JobSet /\ q.op = "drop list" /\ q.at = "look" /\ q.patch = p /\ q.snap = Nowhere /\ q.chats = {}
  BY <1>1, RowFacts DEF JobSet, JobOp, JobPhase, Waiting
<1> HIDE DEF q
<1>4. job[j].at = "new" /\ j \notin Active /\ ~HasCounted(job[j])
  BY <1>2, NewJob
<1>5. MuterOK(q) /\ peers \subseteq Chats /\ clashed \subseteq Chats
  BY <1>1, <1>3 DEF MuterOK, RosterIInv, RosterTypes
<1>6. QED
  BY <1>1, <1>2, <1>3, <1>4, <1>5, MoveJob

\* The copy of the mutes that a page load goes on to.
LEMMA SyncFacts ==
  /\ SyncMutes \in JobSet /\ SyncMutes.op = "sync" /\ SyncMutes.at = "ask" /\ SyncMutes.chats = {}
  /\ SyncMutes.snap = Nowhere /\ SyncMutes.patch.field = "muted" /\ SyncMutes.patch.to = TRUE
  /\ MuterOK(SyncMutes) /\ ~HasCounted(SyncMutes)
<1> DEFINE p == [field |-> "muted", to |-> TRUE]
<1>1. p \in PatchSet /\ p.field = "muted" /\ p.to = TRUE
  BY DEF PatchSet
<1>2. SyncMutes = [Waiting EXCEPT !.op = "sync", !.at = "ask", !.patch = p]
  BY DEF SyncMutes
<1> HIDE DEF p
<1>3. /\ SyncMutes \in JobSet /\ SyncMutes.op = "sync" /\ SyncMutes.at = "ask" /\ SyncMutes.chats = {}
      /\ SyncMutes.snap = Nowhere /\ SyncMutes.patch = p
  BY <1>1, <1>2, RowFacts DEF JobSet, JobOp, JobPhase, Waiting
<1>4. QED
  BY <1>1, <1>3 DEF MuterOK, HasCounted

\* An operation that is over.
LEMMA OverFacts ==
  LET over == [Waiting EXCEPT !.at = "done"] IN
  /\ over \in JobSet /\ over.at = "done" /\ over.chats = {} /\ over.snap = Nowhere
  /\ over.patch.field = "none" /\ HasCounted(over)
BY RowFacts DEF Waiting, NoPatch, JobSet, PatchSet, JobOp, JobPhase, HasCounted

\* The page has the server's peers, or not; it has the mutes.
LEMMA FetchStep ==
  ASSUME RosterIInv, NEW j \in Job, FetchPeers(j) \/ FetchMutes(j)
  PROVE  RosterIInv'
<1>1. /\ job[j] \in JobSet /\ job \in [Job -> JobSet] /\ muted \subseteq Chats /\ peers \subseteq Chats
      /\ clashed \subseteq Chats /\ labelled \in BOOLEAN
  BY DEF RosterIInv, RosterTypes
<1>2. MutersOK
  BY DEF RosterIInv
<1>3. CASE FetchPeers(j)
  <2>1. job[j].op = "relist" /\ job[j].at = "ask" /\ j \in Active
        /\ UNCHANGED <<rows, labelled, muted, peers, clashed>>
    BY <1>3 DEF FetchPeers, Active
  <2>2. MuterOK(job[j]) /\ ~HasCounted(job[j])
    BY <1>2, <2>1 DEF MutersOK, HasCounted
  <2>3. CASE job' = [job EXCEPT ![j].at = "get", ![j].chats = peers] /\ gone' = gone \ peers
    <3> DEFINE q == [job[j] EXCEPT !.at = "get", !.chats = peers]
    <3>1. job' = [job EXCEPT ![j] = q]
      BY <1>1, <2>3 DEF JobSet
    <3>2. /\ q \in JobSet /\ q.op = "relist" /\ q.at = "get" /\ q.snap = job[j].snap /\ q.patch = job[j].patch
          /\ q.chats = peers
      BY <1>1, <2>1 DEF JobSet, JobPhase
    <3> HIDE DEF q
    <3>3. MuterOK(q)
      BY <2>1, <2>2, <3>2 DEF MuterOK
    <3>4. \A c \in q.chats : c \notin gone'
      BY <2>3, <3>2
    <3>5. gone' \subseteq gone /\ clashed \subseteq clashed' /\ clashed' \subseteq Chats /\ peers' \subseteq Chats
      BY <1>1, <2>1, <2>3
    <3>6. QED
      BY <1>1, <2>1, <2>2, <3>1, <3>2, <3>3, <3>4, <3>5, MoveJob
  <2>4. CASE job' = [job EXCEPT ![j] = SyncMutes] /\ UNCHANGED gone
    BY <1>1, <2>1, <2>2, <2>4, SyncFacts, MoveJob
  <2>5. QED
    BY <1>3, <2>3, <2>4 DEF FetchPeers
<1>4. CASE FetchMutes(j)
  <2> DEFINE q == [job[j] EXCEPT !.at = "look", !.chats = muted]
  <2>1. /\ job[j].op = "sync" /\ job[j].at = "ask" /\ j \in Active
        /\ job' = [job EXCEPT ![j].at = "look", ![j].chats = muted]
        /\ clashed' = clashed \cup {c \in muted : Muting(c) # {}}
        /\ UNCHANGED <<rows, labelled, muted, peers, gone>>
    BY <1>4 DEF FetchMutes, Active
  <2>2. job' = [job EXCEPT ![j] = q]
    BY <1>1, <2>1 DEF JobSet
  <2>3. /\ q \in JobSet /\ q.op = "sync" /\ q.at = "look" /\ q.snap = job[j].snap /\ q.patch = job[j].patch
        /\ q.chats = muted
    BY <1>1, <2>1 DEF JobSet, JobPhase
  <2> HIDE DEF q
  <2>4. MuterOK(job[j]) /\ ~HasCounted(job[j])
    BY <1>2, <2>1 DEF MutersOK, HasCounted
  <2>5. MuterOK(q)
    BY <2>1, <2>3, <2>4 DEF MuterOK
  <2>6. \A c \in q.chats \ clashed' : Muting(c) = {} /\ c \in muted
    BY <2>1, <2>3
  <2>7. clashed \subseteq clashed' /\ clashed' \subseteq Chats
    BY <1>1, <2>1
  <2>8. QED
    BY <1>1, <2>1, <2>2, <2>3, <2>4, <2>5, <2>6, <2>7, MoveJob
<1>5. QED
  BY <1>3, <1>4

\* An operation looks which rows it is to patch, and with what.
LEMMA LookStep ==
  ASSUME RosterIInv, NEW j \in Job, Look(j)
  PROVE  RosterIInv'
<1> DEFINE row == rows[CHOOSE c \in job[j].chats : TRUE]
           patch == CASE job[j].op \in Toggle -> [field |-> job[j].op, to |-> ~row[job[j].op]]
                      [] job[j].op = "count" -> [field |-> "unread", to |-> IF row = Unlisted THEN 1 ELSE row.unread + 1]
                      [] OTHER -> job[j].patch
           at == IF Chosen(j) = {} THEN "done" ELSE "get"
           q == [job[j] EXCEPT !.at = at, !.chats = Chosen(j), !.patch = patch]
<1>1. job[j].at = "look" /\ UNCHANGED <<rows, labelled, muted, peers, gone, clashed>>
  BY DEF Look
<1>2. j \in Active
  BY <1>1 DEF Active
<1>4. /\ job[j] \in JobSet /\ at \in {"get", "done"} /\ job \in [Job -> JobSet]
      /\ labelled \in BOOLEAN /\ peers \subseteq Chats /\ clashed \subseteq Chats /\ rows \in Listing
  BY DEF RosterIInv, RosterTypes
<1>3. job' = [job EXCEPT ![j] = q]
  <2>1. job' = [job EXCEPT ![j].at = at, ![j].chats = Chosen(j), ![j].patch = patch]
    BY Zenon DEF Look
  <2> HIDE DEF at, patch
  <2>2. [job EXCEPT ![j].at = at, ![j].chats = Chosen(j), ![j].patch = patch] = [job EXCEPT ![j] = q]
    BY <1>4 DEF JobSet
  <2>3. QED
    BY <2>1, <2>2
<1>5. Chosen(j) \in SUBSET Chats
  BY <1>4 DEF Chosen, JobSet
<1>6. job[j].op # "drop list" => Chosen(j) \subseteq job[j].chats
  BY <1>4 DEF Chosen
<1> HIDE DEF at
<1>7. patch \in PatchSet =>
        /\ q \in JobSet /\ q.op = job[j].op /\ q.at = at /\ q.patch = patch
        /\ q.chats = Chosen(j) /\ q.snap = job[j].snap
  <2> HIDE DEF patch
  <2>1. QED
    BY <1>4, <1>5 DEF JobSet, JobPhase
<1>8. MuterOK(job[j]) /\ job[j].op # "mute" /\ ~HasCounted(job[j])
  BY <1>1, <1>2 DEF RosterIInv, MutersOK, MuterOK, HasCounted
<1>13. \A c \in Chosen(j) : ~(c \in gone \ clashed)
  <2> SUFFICES ASSUME NEW c \in Chosen(j), c \in gone, c \notin clashed PROVE FALSE
    OBVIOUS
  <2>1. c \in Chats /\ KeptAt(c)
    BY <1>5 DEF RosterIInv, KeptOK
  <2>2. rows[c] = Unlisted /\ \A i \in On(c) : job[i].op = "sync"
    BY <2>1 DEF KeptAt
  <2>3. ~rows[c].list
    BY <2>2 DEF Unlisted
  <2>4. job[j].op # "drop list" => j \in On(c)
    BY <1>2, <1>6 DEF On
  <2>5. QED
    BY <2>2, <2>3, <2>4 DEF Chosen
<1> HIDE DEF q, row
<1>9. CASE job[j].op \in Toggle
  <2>1. patch \in PatchSet /\ patch.field \in Toggle
    BY <1>9 DEF PatchSet, Toggle
  <2> HIDE DEF patch
  <2>2. MuterOK(q)
    BY <1>4, <1>7, <1>9, <2>1 DEF MuterOK, Toggle
  <2>3. q.op \notin {"mute", "sync"} /\ q.patch.field # "unread"
    BY <1>7, <1>9, <2>1 DEF Toggle
  <2>4. QED
    BY <1>1, <1>2, <1>3, <1>4, <1>7, <1>8, <1>13, <2>1, <2>2, <2>3, MoveJob
<1>10. CASE job[j].op = "count"
  <2>1. PICK c \in Chats : job[j].chats = {c}
    BY <1>1, <1>8, <1>10 DEF MuterOK
  <2>2. (CHOOSE d \in job[j].chats : TRUE) = c
    BY <2>1
  <2>3. row = rows[c]
    BY <2>2 DEF row
  <2>4. /\ row \in Row \cup {Unlisted}
        /\ row \in Row => row.unread <= Cardinality(Got) /\ row.unread \in Nat
    <3>1. row \in Row \cup {Unlisted}
      BY <2>3 DEF RosterIInv, RosterTypes, Listing
    <3>2. row \in Row => row.unread <= Cardinality(Got)
      BY <2>3 DEF RosterIInv, CountsOK, Within
    <3>3. QED
      BY <3>1, <3>2 DEF Row, Unread
  <2>5. Chosen(j) = {c}
    BY <1>10, <2>1 DEF Chosen, Toggle
  <2>6. at = "get"
    BY <2>5 DEF at
  <2>7. Cardinality(Got) \in Nat /\ Cardinality(Got) + 1 <= Jobs
    BY <1>8, GotRoom DEF Got
  <2> DEFINE n == IF row = Unlisted THEN 1 ELSE row.unread + 1
  <2>8. n \in Nat /\ n <= Cardinality(Got) + 1 /\ n <= Jobs
    BY <2>4, <2>7, RosterAssumption
  <2>9. patch = [field |-> "unread", to |-> n]
    BY <1>10 DEF Toggle
  <2> HIDE DEF n, patch
  <2>10. patch \in PatchSet /\ patch.field = "unread" /\ patch.to = n
    BY <2>8, <2>9, RosterAssumption DEF PatchSet, Unread
  <2>11. MuterOK(q) /\ HasCounted(q)
    BY <1>7, <1>10, <2>6, <2>10 DEF MuterOK, HasCounted
  <2>12. q.op \notin {"mute", "sync"}
    BY <1>7, <1>10, <2>10
  <2>13. QED
    BY <1>1, <1>2, <1>3, <1>4, <1>7, <1>8, <1>13, <2>6, <2>8, <2>10, <2>11, <2>12, MoveJob
<1>11. CASE job[j].op \notin Toggle \cup {"count"}
  <2>1. patch = job[j].patch /\ patch \in PatchSet
    BY <1>4, <1>11 DEF JobSet
  <2> HIDE DEF patch
  <2>2. MuterOK(q) /\ q.op # "mute"
    BY <1>4, <1>7, <1>8, <2>1 DEF MuterOK
  <2>3. q.op = "sync" => \A c \in q.chats : j \in Muting(c)
    BY <1>2, <1>6, <1>7, <2>1 DEF Muting, On
  <2>4. QED
    BY <1>1, <1>2, <1>3, <1>4, <1>7, <1>8, <1>13, <2>1, <2>2, <2>3, MoveJob
<1>12. QED
  BY <1>9, <1>10, <1>11

\* It reads the list.
LEMMA GetStep ==
  ASSUME RosterIInv, NEW j \in Job, GetRows(j)
  PROVE  RosterIInv'
<1> DEFINE q == [job[j] EXCEPT !.at = "set", !.snap = rows]
<1>1. /\ job[j].at = "get" /\ j \in Active /\ job' = [job EXCEPT ![j].at = "set", ![j].snap = rows]
      /\ UNCHANGED <<rows, labelled, muted, peers, gone, clashed>>
  BY DEF GetRows, Active
<1>2. /\ job[j] \in JobSet /\ rows \in Listing /\ job \in [Job -> JobSet]
      /\ labelled \in BOOLEAN /\ peers \subseteq Chats /\ clashed \subseteq Chats
  BY DEF RosterIInv, RosterTypes
<1>3. /\ q \in JobSet /\ q.op = job[j].op /\ q.at = "set" /\ q.snap = rows /\ q.patch = job[j].patch /\ q.chats = job[j].chats
      /\ job' = [job EXCEPT ![j] = q]
  BY <1>1, <1>2 DEF JobSet, JobPhase
<1> HIDE DEF q
<1>4. MuterOK(job[j]) /\ (HasCounted(job[j]) => HasCounted(q))
  BY <1>1, <1>3 DEF RosterIInv, MutersOK, HasCounted
<1>5. MuterOK(q)
  BY <1>3, <1>4 DEF MuterOK
<1>6. \A c \in q.chats : ~(c \in gone \ clashed)
  <2> SUFFICES ASSUME NEW c \in q.chats, c \in gone, c \notin clashed PROVE FALSE
    OBVIOUS
  <2>1. c \in Chats /\ j \in On(c)
    BY <1>1, <1>2, <1>3 DEF On, JobSet
  <2>2. job[j].at = "look"
    BY <2>1 DEF RosterIInv, KeptOK, KeptAt
  <2>3. QED
    BY <1>1, <2>2
<1>7. q.op \in {"mute", "sync"} => \A c \in q.chats : j \in Muting(c)
  BY <1>1, <1>3 DEF Muting, On
<1>8. QED
  BY <1>1, <1>2, <1>3, <1>4, <1>5, <1>6, <1>7, MoveJob

\* The server is told of a mute; its answer comes, or does not.
LEMMA ServerStep ==
  ASSUME RosterIInv, NEW j \in Job, AskServer(j)
  PROVE  RosterIInv'
<1> DEFINE asked == IF job[j].patch.to THEN muted \cup job[j].chats ELSE muted \ job[j].chats
           over == [Waiting EXCEPT !.at = "done"]
           go == [job[j] EXCEPT !.at = "get"]
<1>1. job[j].op = "mute" /\ job[j].at = "ask" /\ j \in Active /\ UNCHANGED <<rows, labelled, peers, gone>>
  BY DEF AskServer, Active
<1>2. RosterTypes /\ CountsOK /\ MutersOK /\ KeptOK /\ job[j] \in JobSet /\ job \in [Job -> JobSet]
  BY DEF RosterIInv, RosterTypes
<1>3. /\ go \in JobSet /\ go.op = "mute" /\ go.at = "get" /\ go.snap = job[j].snap
      /\ go.patch = job[j].patch /\ go.chats = job[j].chats
  BY <1>1, <1>2 DEF JobSet, JobPhase
<1>4. /\ over \in JobSet /\ over.at = "done" /\ over.chats = {} /\ over.snap = Nowhere
      /\ over.patch.field = "none" /\ HasCounted(over)
  BY OverFacts
<1>5. PICK q \in {go, over} :
        /\ job' = [job EXCEPT ![j] = q]
        /\ muted' \in {muted, asked}
        /\ q = go => muted' = asked /\ clashed' = clashed
        /\ q = over => clashed' = IF muted' # muted THEN clashed \cup job[j].chats ELSE clashed
  <2>1. CASE muted' = asked /\ job' = [job EXCEPT ![j].at = "get"] /\ UNCHANGED clashed
    <3>1. job' = [job EXCEPT ![j] = go]
      BY <1>2, <2>1 DEF JobSet
    <3>2. go # over
      BY <1>3, <1>4
    <3> HIDE DEF go, over
    <3>3. QED
      BY <2>1, <3>1, <3>2
  <2>2. CASE /\ muted' \in {muted, asked} /\ job' = [job EXCEPT ![j] = over]
             /\ clashed' = IF muted' # muted THEN clashed \cup job[j].chats ELSE clashed
    <3>1. go # over
      BY <1>3, <1>4
    <3> HIDE DEF go, over
    <3>2. QED
      BY <2>2, <3>1
  <2>3. QED
    BY <2>1, <2>2 DEF AskServer
<1> HIDE DEF go, over
<1>6. MuterOK(job[j]) /\ job[j].patch.field = "muted" /\ job[j].patch.to \in BOOLEAN /\ job[j].chats \subseteq Chats
  <2>1. MuterOK(job[j])
    BY <1>1, <1>2 DEF MutersOK
  <2>2. job[j].patch.field = "muted"
    BY <1>1, <2>1 DEF MuterOK
  <2>3. QED
    BY <1>2, <2>1, <2>2 DEF JobSet, PatchSet
<1>7. q \in JobSet /\ (q.at # "done" => q = go)
  BY <1>3, <1>4
<1>8. muted' \subseteq Chats /\ clashed' \subseteq Chats /\ clashed \subseteq clashed'
  BY <1>2, <1>5, <1>6 DEF RosterTypes
<1>9. /\ job' \in [Job -> JobSet] /\ job'[j] = q /\ \A i \in Job \ {j} : job'[i] = job[i]
  BY <1>2, <1>5, <1>7
<1>10. RosterTypes'
  BY <1>1, <1>2, <1>8, <1>9 DEF RosterTypes
<1>11. CountsOK'
  <2>1. Within(rows', Cardinality(Got)) /\ rows' \in Listing
    BY <1>1, <1>2 DEF CountsOK, RosterTypes
  <2>2. ~HasCounted(job[j])
    BY <1>1 DEF HasCounted
  <2>3. q.snap \in {job[j].snap, Nowhere} /\ q.patch.field # "unread"
    BY <1>3, <1>4, <1>6
  <2>4. QED
    BY <1>2, <1>5, <1>7, <2>1, <2>2, <2>3, CountsStep
<1>12. MutersOK'
  <2>1. MuterOK(go)
    BY <1>1, <1>3, <1>6 DEF MuterOK
  <2>2. QED
    BY <1>2, <1>5, <1>7, <2>1, MutersStep
<1>13. ASSUME NEW c \in Chats, c \notin clashed' PROVE KeptAt(c)'
  <2>1. KeptAt(c)
    BY <1>2, <1>8, <1>13 DEF KeptOK
  <2>2. /\ \A i \in Job \ {j} : (i \in On(c)' <=> i \in On(c)) /\ (i \in Muting(c)' <=> i \in Muting(c))
        /\ j \in On(c)' <=> q.at \notin {"new", "done"} /\ c \in q.chats
        /\ j \in Muting(c)' <=> q.at \notin {"new", "done"} /\ c \in q.chats /\ q.op \in {"mute", "sync"}
        /\ j \in Muting(c) <=> job[j].at \notin {"new", "done"} /\ c \in job[j].chats /\ job[j].op \in {"mute", "sync"}
        /\ On(c) \subseteq Job /\ Muting(c) \subseteq On(c)
        /\ On(c)' \subseteq Job /\ Muting(c)' \subseteq On(c)'
    BY <1>2, <1>5, <1>7, OnFacts
  <2>3. j \in On(c)' => j \in On(c) /\ j \in Muting(c) /\ q = go /\ c \in job[j].chats
    BY <1>1, <1>3, <1>7, <2>2
  <2>4. c \in gone => rows[c] = Unlisted /\ \A i \in On(c)' : job'[i].op = "sync" /\ job'[i].at = "look"
    <3> SUFFICES ASSUME c \in gone PROVE rows[c] = Unlisted /\ \A i \in On(c)' : job'[i].op = "sync" /\ job'[i].at = "look"
      OBVIOUS
    <3>1. rows[c] = Unlisted /\ \A i \in On(c) : job[i].op = "sync" /\ job[i].at = "look"
      BY <2>1 DEF KeptAt
    <3>2. j \notin On(c)'
      BY <1>1, <2>3, <3>1
    <3>3. QED
      BY <1>9, <2>2, <3>1, <3>2
  <2>5. \A m, n \in Muting(c)' : m = n
    <3>1. \A m, n \in Muting(c) : m = n
      BY <2>1 DEF KeptAt
    <3>2. Muting(c)' \subseteq Muting(c)
      BY <2>2, <2>3
    <3>3. QED
      BY <3>1, <3>2
  <2>6. CASE c \notin job[j].chats \/ muted' = muted
    <3>1. c \in muted' <=> c \in muted
      BY <1>5, <2>6
    <3>2. j \in Muting(c)' => q = go /\ (job[j].patch.to = TRUE => c \in muted)
      <4> SUFFICES ASSUME j \in Muting(c)' PROVE q = go /\ (job[j].patch.to = TRUE => c \in muted)
        OBVIOUS
      <4>1. q = go /\ c \in job[j].chats
        BY <2>2, <2>3
      <4>2. muted' = asked
        BY <1>5, <4>1
      <4>3. QED
        BY <3>1, <4>1, <4>2
    <3>3. \A i \in Muting(c)' : job'[i].patch.to = TRUE /\ job'[i].at # "ask" => c \in muted'
      <4>1. \A i \in Muting(c) : job[i].patch.to = TRUE /\ job[i].at # "ask" => c \in muted
        BY <2>1 DEF KeptAt
      <4>2. QED
        BY <1>3, <1>9, <2>2, <3>1, <3>2, <4>1
    <3>4. rows[c].muted => \/ c \in muted'
                           \/ \E i \in Muting(c)' : /\ job'[i].op = "mute" /\ job'[i].at \in {"get", "set"}
                                                    /\ job'[i].patch.to = FALSE
      <4> SUFFICES ASSUME rows[c].muted, c \notin muted
                   PROVE  \E i \in Muting(c)' : /\ job'[i].op = "mute" /\ job'[i].at \in {"get", "set"}
                                                /\ job'[i].patch.to = FALSE
        BY <3>1
      <4>1. PICK i \in Muting(c) : job[i].op = "mute" /\ job[i].at \in {"get", "set"} /\ job[i].patch.to = FALSE
        BY <2>1 DEF KeptAt
      <4>2. i # j
        BY <1>1, <4>1
      <4>3. QED
        BY <1>9, <2>2, <4>1, <4>2
    <3>5. QED
      BY <1>1, <2>4, <2>5, <3>3, <3>4 DEF KeptAt
  <2>7. CASE c \in job[j].chats /\ muted' # muted
    <3>1. q = go /\ muted' = asked
      BY <1>5, <1>13, <2>7
    <3>2. j \in Muting(c) /\ j \in Muting(c)' /\ job'[j] = go
      BY <1>1, <1>3, <1>9, <2>2, <2>7, <3>1
    <3>3. \A i \in Muting(c)' : i = j
      BY <2>5, <3>2
    <3>4. CASE job[j].patch.to = TRUE
      <4>1. c \in muted'
        BY <2>7, <3>1, <3>4
      <4>2. QED
        BY <1>1, <2>4, <2>5, <4>1 DEF KeptAt
    <3>5. CASE job[j].patch.to = FALSE
      <4>1. /\ job'[j].op = "mute" /\ job'[j].at \in {"get", "set"} /\ job'[j].patch.to = FALSE
        BY <1>3, <3>2, <3>5
      <4>2. \A i \in Muting(c)' : ~(job'[i].patch.to = TRUE /\ job'[i].at # "ask")
        BY <3>3, <4>1
      <4>3. QED
        BY <1>1, <2>4, <2>5, <3>2, <4>1, <4>2 DEF KeptAt
    <3>6. QED
      BY <1>6, <3>4, <3>5
  <2>8. QED
    BY <2>6, <2>7
<1>14. KeptOK'
  BY <1>13 DEF KeptOK
<1>15. QED
  BY <1>10, <1>11, <1>12, <1>14 DEF RosterIInv

\* One row of a listing is patched.
LEMMA PatchedListing ==
  ASSUME NEW listing \in Listing, NEW c \in Chats, NEW patch \in PatchSet, NEW n \in Nat,
         Within(listing, n), patch.field = "unread" => patch.to <= n
  PROVE  LET new == [listing EXCEPT ![c] = Patched(listing[c], patch)] IN
         new \in Listing /\ Within(new, n)
<1> DEFINE row == Patched(listing[c], patch)
           new == [listing EXCEPT ![c] = row]
<1>1. listing[c] \in Row \cup {Unlisted} /\ (listing[c] \in Row => listing[c].unread <= n)
  BY DEF Listing, Within
<1>2. row \in Row \cup {Unlisted} /\ (row \in Row => row.unread <= n)
  BY <1>1, PatchFacts
<1> HIDE DEF row
<1>3. new \in Listing
  BY <1>2 DEF Listing
<1>4. \A d \in Chats : new[d] = IF d = c THEN row ELSE listing[d]
  BY DEF Listing
<1> HIDE DEF new
<1>5. Within(new, n)
  BY <1>2, <1>4 DEF Within
<1>6. QED
  BY <1>3, <1>5 DEF new, row

\* What an operation goes on to when a chat is set: the other chats, or its next
\* part, or nothing.
LEMMA OnwardFacts ==
  ASSUME NEW q \in JobSet, q.at = "set", MuterOK(q), NEW c \in Chats, c \in q.chats, NEW next \in Onward(q, c)
  PROVE  /\ next \in JobSet /\ next.at # "new" /\ next.snap = Nowhere
         /\ HasCounted(q) => HasCounted(next)
         /\ next.patch.field = "unread" => next.patch = q.patch
         /\ next.at # "done" => MuterOK(next)
         /\ next.at # "done" /\ next.chats # {} =>
               \/ next.op = q.op /\ next.at = "get" /\ next.patch = q.patch /\ next.chats = q.chats \ {c}
               \/ next.op = "count" /\ q.op = "arrive" /\ next.chats = {c}
         /\ q.chats # {c} => /\ next.op = q.op /\ next.at = "get" /\ next.patch = q.patch
                             /\ next.chats = q.chats \ {c}
<1>1. CASE q.chats # {c}
  <2>1. next = [q EXCEPT !.at = "get", !.chats = q.chats \ {c}, !.snap = Nowhere]
    BY <1>1 DEF Onward
  <2>2. /\ next \in JobSet /\ next.at = "get" /\ next.op = q.op /\ next.patch = q.patch
        /\ next.chats = q.chats \ {c} /\ next.snap = Nowhere
    BY <2>1, RowFacts DEF JobSet, JobPhase
  <2>3. MuterOK(next) /\ (HasCounted(q) => HasCounted(next))
    BY <2>2 DEF MuterOK, HasCounted
  <2>4. QED
    BY <2>2, <2>3
<1>2. CASE q.chats = {c} /\ next = [Waiting EXCEPT !.at = "done"]
  BY <1>2, OverFacts
<1>3. CASE q.chats = {c} /\ q.op = "arrive" /\ next = [Waiting EXCEPT !.op = "count", !.at = "look", !.chats = {c}]
  <2>1. /\ next \in JobSet /\ next.op = "count" /\ next.at = "look" /\ next.chats = {c}
        /\ next.snap = Nowhere /\ next.patch.field = "none"
    BY <1>3, RowFacts DEF Waiting, NoPatch, JobSet, PatchSet, JobOp, JobPhase
  <2>2. MuterOK(next) /\ ~HasCounted(q)
    BY <1>3, <2>1 DEF MuterOK, HasCounted
  <2>3. QED
    BY <1>3, <2>1, <2>2
<1>4. CASE q.chats = {c} /\ q.op = "relist" /\ next = SyncMutes
  <2>1. ~HasCounted(q)
    BY <1>4 DEF HasCounted
  <2>2. QED
    BY <1>4, <2>1, SyncFacts
<1>5. QED
  BY <1>1, <1>2, <1>3, <1>4 DEF Onward

\* It writes the list back.
LEMMA SetStep ==
  ASSUME RosterIInv, NEW j \in Job, SetRows(j)
  PROVE  RosterIInv'
<1> DEFINE q == job[j]
<1>1. PICK c \in q.chats :
        /\ rows' = [q.snap EXCEPT ![c] = Patched(q.snap[c], q.patch)]
        /\ \E next \in Onward(q, c) : job' = [job EXCEPT ![j] = next]
        /\ gone' = IF q.op = "delete" THEN gone \cup {c} ELSE gone
        /\ clashed' = clashed \cup {d \in Chats : rows[d] # q.snap[d]}
                          \cup (IF q.op = "delete" /\ On(c) # {j} THEN {c} ELSE {})
  BY DEF SetRows
<1>2. PICK next \in Onward(q, c) : job' = [job EXCEPT ![j] = next]
  BY <1>1
<1>3. q.at = "set" /\ UNCHANGED <<labelled, muted, peers>> /\ j \in Active
  BY DEF SetRows, Active
<1>4. RosterTypes /\ CountsOK /\ MutersOK /\ KeptOK
  BY DEF RosterIInv
<1>5. /\ q \in JobSet /\ q.chats \subseteq Chats /\ q.patch \in PatchSet /\ q.snap \in Listing
      /\ c \in Chats /\ job \in [Job -> JobSet]
  BY <1>1, <1>4 DEF RosterTypes, JobSet
<1>6. MuterOK(q)
  BY <1>3, <1>4 DEF MutersOK
<1>7. /\ next \in JobSet /\ next.at # "new" /\ next.snap = Nowhere
      /\ HasCounted(q) => HasCounted(next)
      /\ next.patch.field = "unread" => next.patch = q.patch
      /\ next.at # "done" => MuterOK(next)
      /\ next.at # "done" /\ next.chats # {} =>
            \/ next.op = q.op /\ next.at = "get" /\ next.patch = q.patch /\ next.chats = q.chats \ {c}
            \/ next.op = "count" /\ q.op = "arrive" /\ next.chats = {c}
      /\ q.chats # {c} => /\ next.op = q.op /\ next.at = "get" /\ next.patch = q.patch
                          /\ next.chats = q.chats \ {c}
  BY <1>2, <1>3, <1>5, <1>6, OnwardFacts
<1>8. /\ job' \in [Job -> JobSet] /\ job'[j] = next /\ \A i \in Job \ {j} : job'[i] = job[i]
  BY <1>2, <1>5, <1>7
<1>9. Cardinality(Got) \in Nat
  <2>1. Got \subseteq Got'
    BY <1>5, <1>7, <1>8 DEF Got
  <2>2. QED
    BY <2>1, GotFacts
<1>10. rows' \in Listing /\ Within(rows', Cardinality(Got))
  <2>1. q.patch.field = "unread" => q.patch.to <= Cardinality(Got)
    BY <1>4 DEF CountsOK
  <2>2. QED
    BY <1>1, <1>4, <1>5, <1>9, <2>1, PatchedListing DEF CountsOK
<1>11. RosterTypes'
  <2>1. gone' \subseteq Chats /\ clashed' \subseteq Chats
    BY <1>1, <1>4, <1>5 DEF RosterTypes
  <2>2. QED
    BY <1>3, <1>4, <1>8, <1>10, <2>1 DEF RosterTypes
<1>12. CountsOK'
  BY <1>2, <1>4, <1>7, <1>10, CountsStep
<1>13. MutersOK'
  BY <1>2, <1>4, <1>7, MutersStep
<1>14. ASSUME NEW d \in Chats, d \notin clashed' PROVE KeptAt(d)'
  <2>1. KeptAt(d) /\ q.snap[d] = rows[d]
    BY <1>1, <1>4, <1>14 DEF KeptOK
  <2>2. rows'[d] = IF d = c THEN Patched(rows[d], q.patch) ELSE rows[d]
    BY <1>1, <1>5, <2>1 DEF Listing
  <2>3. rows[d] \in Row \cup {Unlisted}
    BY <1>4 DEF RosterTypes, Listing
  <2>4. /\ \A i \in Job \ {j} : (i \in On(d)' <=> i \in On(d)) /\ (i \in Muting(d)' <=> i \in Muting(d))
        /\ j \in On(d)' <=> next.at \notin {"new", "done"} /\ d \in next.chats
        /\ j \in Muting(d)' <=> next.at \notin {"new", "done"} /\ d \in next.chats /\ next.op \in {"mute", "sync"}
        /\ j \in Muting(d) <=> q.at \notin {"new", "done"} /\ d \in q.chats /\ q.op \in {"mute", "sync"}
        /\ On(d) \subseteq Job /\ Muting(d) \subseteq On(d)
        /\ On(d)' \subseteq Job /\ Muting(d)' \subseteq On(d)'
    BY <1>2, <1>4, <1>7, OnFacts
  <2>5. j \in On(d) <=> d \in q.chats
    BY <1>3 DEF On
  <2>6. j \in On(d)' => d \in q.chats
    BY <1>1, <1>7, <2>4
  <2>7. j \in Muting(d)' => /\ j \in Muting(d) /\ d # c
                            /\ next.op = q.op /\ next.at = "get" /\ next.patch = q.patch
    BY <1>3, <1>7, <2>4
  <2>8. ASSUME d \in gone' PROVE rows'[d] = Unlisted /\ \A i \in On(d)' : job'[i].op = "sync" /\ job'[i].at = "look"
    <3>1. CASE d \in gone
      <4>1. rows[d] = Unlisted /\ \A i \in On(d) : job[i].op = "sync" /\ job[i].at = "look"
        BY <2>1, <3>1 DEF KeptAt
      <4>2. d \notin q.chats
        BY <1>3, <2>5, <4>1
      <4>3. QED
        BY <1>1, <1>8, <2>2, <2>4, <2>6, <4>1, <4>2
    <3>2. CASE d \notin gone
      <4>1. q.op = "delete" /\ d = c
        BY <1>1, <2>8, <3>2
      <4>2. On(d) = {j}
        BY <1>1, <1>14, <4>1
      <4>3. j \notin On(d)'
        BY <1>7, <2>4, <4>1
      <4>4. On(d)' = {}
        BY <2>4, <4>2, <4>3
      <4>5. q.patch.field = "gone"
        BY <1>6, <4>1 DEF MuterOK
      <4>6. rows'[d] = Unlisted
        BY <2>2, <4>1, <4>5 DEF Patched
      <4>7. QED
        BY <4>4, <4>6
    <3>3. QED
      BY <3>1, <3>2
  <2>9. \A m, n \in Muting(d)' : m = n
    <3>1. \A m, n \in Muting(d) : m = n
      BY <2>1 DEF KeptAt
    <3>2. Muting(d)' \subseteq Muting(d)
      BY <2>4, <2>7
    <3>3. QED
      BY <3>1, <3>2
  <2>10. \A i \in Muting(d)' : job'[i].patch.to = TRUE /\ job'[i].at # "ask" => d \in muted
    <3>1. \A i \in Muting(d) : job[i].patch.to = TRUE /\ job[i].at # "ask" => d \in muted
      BY <2>1 DEF KeptAt
    <3>2. QED
      BY <1>3, <1>8, <2>4, <2>7, <3>1
  <2>11. ASSUME rows'[d].muted, d \notin muted
         PROVE  \E i \in Muting(d)' : /\ job'[i].op = "mute" /\ job'[i].at \in {"get", "set"}
                                      /\ job'[i].patch.to = FALSE
    <3>1. ~(d = c /\ q.patch.field = "muted")
      <4> SUFFICES ASSUME d = c, q.patch.field = "muted" PROVE FALSE
        OBVIOUS
      <4>1. q.patch.to = TRUE
        BY <1>5, <2>2, <2>3, <2>11, PatchFacts DEF PatchSet
      <4>2. j \in Muting(d)
        BY <1>1, <1>3, <1>6, <2>4 DEF MuterOK
      <4>3. QED
        BY <1>3, <2>1, <2>11, <4>1, <4>2 DEF KeptAt
    <3>2. rows[d].muted
      <4>1. CASE d = c
        BY <1>5, <2>2, <2>3, <2>11, <3>1, <4>1, PatchFacts
      <4>2. CASE d # c
        BY <2>2, <2>11, <4>2
      <4>3. QED
        BY <4>1, <4>2
    <3>3. PICK i \in Muting(d) : job[i].op = "mute" /\ job[i].at \in {"get", "set"} /\ job[i].patch.to = FALSE
      BY <2>1, <2>11, <3>2 DEF KeptAt
    <3>4. CASE i # j
      BY <1>8, <2>4, <3>3, <3>4
    <3>5. CASE i = j
      <4>1. d # c /\ d \in q.chats /\ q.op = "mute"
        BY <1>6, <2>4, <3>1, <3>3, <3>5 DEF MuterOK
      <4>2. next.op = "mute" /\ next.at = "get" /\ next.patch = q.patch /\ next.chats = q.chats \ {c}
        BY <1>7, <4>1
      <4>3. QED
        BY <1>8, <2>4, <3>3, <3>5, <4>1, <4>2
    <3>6. QED
      BY <3>4, <3>5
  <2>12. QED
    BY <1>3, <2>8, <2>9, <2>10, <2>11 DEF KeptAt
<1>15. KeptOK'
  BY <1>14 DEF KeptOK
<1>16. QED
  BY <1>11, <1>12, <1>13, <1>15 DEF RosterIInv

\* The page is loaded again: what was under way is lost.
LEMMA ReloadStep ==
  ASSUME RosterIInv, NEW j \in Job, Reload(j)
  PROVE  RosterIInv'
<1> DEFINE over == [Waiting EXCEPT !.at = "done"]
           load == [Waiting EXCEPT !.op = "relist", !.at = "ask"]
<1>1. /\ job' = [i \in Job |-> IF i \in Active THEN over ELSE IF i = j THEN load ELSE job[i]]
      /\ clashed' = clashed \cup {c \in Chats : Muting(c) # {}}
      /\ UNCHANGED <<rows, labelled, muted, peers, gone>> /\ Turn(j)
  BY DEF Reload
<1>2. RosterTypes /\ CountsOK /\ KeptOK
  BY DEF RosterIInv
<1>3. /\ over \in JobSet /\ over.at = "done" /\ over.chats = {} /\ over.snap = Nowhere
      /\ over.patch.field = "none" /\ HasCounted(over)
  BY OverFacts
<1>4. /\ load \in JobSet /\ load.at = "ask" /\ load.patch.field = "none" /\ load.snap = Nowhere
      /\ load.op = "relist" /\ load.chats = {}
  BY RowFacts DEF Waiting, NoPatch, JobSet, PatchSet, JobOp, JobPhase
<1> HIDE DEF over, load
<1>5. j \notin Active /\ ~HasCounted(job[j]) /\ Active \subseteq Job
  BY <1>1, NewJob DEF Active
<1>6. /\ \A i \in Job : job'[i] = IF i \in Active THEN over ELSE IF i = j THEN load ELSE job[i]
      /\ job' \in [Job -> JobSet]
  BY <1>1, <1>2, <1>3, <1>4 DEF RosterTypes
<1>7. RosterTypes'
  BY <1>1, <1>2, <1>6 DEF RosterTypes
<1>8. Active' = {j}
  BY <1>3, <1>4, <1>5, <1>6 DEF Active
<1>9. CountsOK'
  <2>1. Got \subseteq Got'
    BY <1>3, <1>5, <1>6 DEF Got
  <2>2. Cardinality(Got) \in Nat /\ Cardinality(Got') \in Nat /\ Cardinality(Got) <= Cardinality(Got')
    BY <2>1, GotFacts
  <2>3. \A i \in Job : job[i] \in JobSet /\ job[i].snap \in Listing
    BY <1>2 DEF RosterTypes, JobSet
  <2>4. Within(Nowhere, Cardinality(Got')) /\ Within(rows, Cardinality(Got'))
    <3>1. Within(Nowhere, Cardinality(Got'))
      BY RowFacts DEF Within, Nowhere
    <3>2. QED
      BY <1>2, <2>2, <3>1, WithinMore DEF CountsOK, RosterTypes
  <2>5. ASSUME NEW i \in Job
        PROVE  /\ Within(job'[i].snap, Cardinality(Got'))
               /\ job'[i].patch.field = "unread" => job'[i].patch.to <= Cardinality(Got')
    <3>1. CASE job'[i] \in {over, load}
      BY <1>3, <1>4, <2>4, <3>1
    <3>2. CASE job'[i] = job[i]
      <4>1. Within(job[i].snap, Cardinality(Got'))
        BY <1>2, <2>2, <2>3, WithinMore DEF CountsOK
      <4>2. job[i].patch.field = "unread" => job[i].patch.to \in Nat /\ job[i].patch.to <= Cardinality(Got)
        BY <1>2, <2>3 DEF CountsOK, JobSet, PatchSet, Unread
      <4>3. QED
        BY <2>2, <3>2, <4>1, <4>2
    <3>3. QED
      BY <1>6, <3>1, <3>2
  <2>6. QED
    BY <1>1, <2>4, <2>5 DEF CountsOK, Within
<1>10. job'[j] = load /\ MuterOK(load)
  BY <1>1, <1>4, <1>5, <1>6 DEF MuterOK
<1>11. MutersOK'
  BY <1>8, <1>10 DEF MutersOK, MuterOK
<1>12. ASSUME NEW c \in Chats, c \notin clashed' PROVE KeptAt(c)'
  <2>1. KeptAt(c) /\ Muting(c) = {}
    BY <1>1, <1>2, <1>12 DEF KeptOK
  <2>2. On(c)' = {} /\ Muting(c)' = {}
    BY <1>4, <1>8, <1>10 DEF On, Muting
  <2>3. QED
    BY <1>1, <2>1, <2>2 DEF KeptAt
<1>13. KeptOK'
  BY <1>12 DEF KeptOK
<1>14. QED
  BY <1>7, <1>9, <1>11, <1>13 DEF RosterIInv

\* Labels matter to nothing that is said here.
LEMMA RosterSame ==
  ASSUME RosterIInv, UNCHANGED <<rows, muted, peers, job, gone, clashed>>, labelled' \in BOOLEAN
  PROVE  RosterIInv'
<1>1. RosterTypes'
  BY DEF RosterIInv, RosterTypes
<1>2. Active' = Active /\ Got' = Got
  BY DEF Active, Got, HasCounted
<1>3. CountsOK' /\ MutersOK'
  BY <1>2 DEF RosterIInv, CountsOK, Within, MutersOK, MuterOK
<1>4. \A c \in Chats : On(c)' = On(c) /\ Muting(c)' = Muting(c)
  BY <1>2 DEF On, Muting
<1>5. \A c \in Chats : KeptAt(c) => KeptAt(c)'
  BY <1>4 DEF KeptAt
<1>6. KeptOK'
  BY <1>5 DEF RosterIInv, KeptOK
<1>7. QED
  BY <1>1, <1>3, <1>6 DEF RosterIInv

\* Every step keeps the strengthening.
LEMMA RosterStep ==
  RosterIInv /\ [RosterNext]_rosterVars => RosterIInv'
<1> SUFFICES ASSUME RosterIInv, [RosterNext]_rosterVars PROVE RosterIInv'
  OBVIOUS
<1>1. ASSUME NEW j \in Job, NEW c \in Chats,
             \/ \E field \in Toggle : StartToggle(j, c, field)
             \/ \E to \in BOOLEAN : StartMute(j, c, to)
             \/ StartArrive(j, c) \/ StartPut(j, c, TRUE) \/ StartPut(j, c, FALSE)
             \/ StartSeen(j, c) \/ StartDeleteChat(j, c)
      PROVE  RosterIInv'
  BY <1>1, StartSteps
<1>2. ASSUME NEW j \in Job, StartDropList(j) PROVE RosterIInv'
  BY <1>2, DropListStep
<1>3. ASSUME NEW j \in Job, AskServer(j) PROVE RosterIInv'
  BY <1>3, ServerStep
<1>4. ASSUME NEW j \in Job, FetchPeers(j) \/ FetchMutes(j) PROVE RosterIInv'
  BY <1>4, FetchStep
<1>5. ASSUME NEW j \in Job, Look(j) PROVE RosterIInv'
  BY <1>5, LookStep
<1>6. ASSUME NEW j \in Job, GetRows(j) PROVE RosterIInv'
  BY <1>6, GetStep
<1>7. ASSUME NEW j \in Job, SetRows(j) PROVE RosterIInv'
  BY <1>7, SetStep
<1>8. ASSUME NEW j \in Job, Reload(j) PROVE RosterIInv'
  BY <1>8, ReloadStep
<1>9. ASSUME CreateList PROVE RosterIInv'
  BY <1>9, RosterSame DEF CreateList
<1>10. CASE UNCHANGED rosterVars
  <2>1. labelled' \in BOOLEAN
    BY <1>10 DEF rosterVars, RosterIInv, RosterTypes
  <2>2. QED
    BY <1>10, <2>1, RosterSame DEF rosterVars
<1>11. QED
  BY <1>1, <1>2, <1>3, <1>4, <1>5, <1>6, <1>7, <1>8, <1>9, <1>10 DEF RosterNext

\* Rows, jobs and mutes are as RosterIInv says in every reachable state.
THEOREM RosterInv == RosterSpec => []RosterIInv
<1>1. RosterInit => RosterIInv
  <2> SUFFICES ASSUME RosterInit PROVE RosterIInv
    OBVIOUS
  <2>1. Waiting \in JobSet /\ Waiting.at = "new" /\ Waiting.snap = Nowhere /\ Waiting.patch.field = "none"
    BY RowFacts DEF Waiting, NoPatch, JobSet, PatchSet, JobOp, JobPhase
  <2>2. /\ job \in [Job -> JobSet] /\ \A j \in Job : job[j] = Waiting
    BY <2>1 DEF RosterInit
  <2>3. Active = {} /\ Got = {}
    BY <2>1, <2>2 DEF Active, Got, HasCounted
  <2>4. PICK row \in {Unlisted, NewRow} : rows = [c \in Chats |-> row]
    BY DEF RosterInit
  <2>5. RosterTypes
    BY <2>2, <2>4, RowFacts DEF RosterInit, RosterTypes, Listing
  <2>6. Cardinality(Got) = 0
    BY <2>3, FS_EmptySet
  <2>7. Within(Nowhere, 0) /\ Within(rows, 0)
    BY <2>4, RowFacts DEF Within, Nowhere
  <2>8. CountsOK
    BY <2>1, <2>2, <2>6, <2>7 DEF CountsOK
  <2>9. \A c \in Chats : Muting(c) = {} /\ ~rows[c].muted /\ gone = {}
    BY <2>3, <2>4, RowFacts DEF RosterInit, Muting, On
  <2>10. MutersOK /\ KeptOK
    BY <2>3, <2>9 DEF MutersOK, KeptOK, KeptAt
  <2>11. QED
    BY <2>5, <2>8, <2>10 DEF RosterIInv
<1>2. QED
  BY <1>1, RosterStep, PTL DEF RosterSpec

\* A chat deleted from the list on the device stays off it until it is begun anew, and
\* a mute it shows is the server's, whatever operations of localDb.ts and page.tsx
\* overlap, unless they clash on the chat itself.
THEOREM ListIsKept == RosterSpec => []ListKept
<1>1. ASSUME RosterIInv PROVE ListKept
  <2> SUFFICES ASSUME NEW c \in Chats, c \notin clashed
               PROVE  /\ c \in gone => rows[c] = Unlisted
                      /\ rows[c] # Unlisted /\ rows[c].muted /\ Muting(c) = {} => c \in muted
    BY DEF ListKept
  <2>1. KeptAt(c)
    BY <1>1 DEF RosterIInv, KeptOK
  <2>2. QED
    BY <2>1 DEF KeptAt
<1>2. QED
  BY <1>1, RosterInv, PTL

-----------------------------------------------------------------------------
(* Recording voice notes (VoiceRecorder).                                    *)

\* While no presses have overlapped: one of them is not settled; the refs name
\* its recorder, its microphone and its limit, or nothing at all; and the outcome
\* a stopping recorder will look up is the one that was asked of it.
RefsOK ==
    ~confused =>
        /\ \A m, n \in Under({"asking", "recording", "stopping"}) : m = n
        /\ streamRef = recorder /\ timerRef = recorder
        /\ mics = {recorder} \ {0} /\ timers = {recorder} \ {0}
        /\ recorder = 0 <=> state = "idle"
        /\ recorder # 0 => press[recorder] \in {"recording", "stopping"}
        /\ recorder = 0 => Under({"recording"}) = {}
        /\ \A n \in Under({"stopping"}) : meant[n] = outcome

NIInv == RecorderTypeOK /\ RefsOK /\ NoteAsMeant

\* No press is the one the refs name when there is none.
LEMMA PressFacts == 0 \notin Press
BY RecorderAssumption DEF Press

\* What is asked of the recorder there is, once, whoever asks.
LEMMA FinishStep ==
  ASSUME NIInv, NEW result \in Outcome, FinishRecording(result),
         pointer' \in {0} \cup Press, dragged' \in BOOLEAN,
         down' \in [Press -> {"up", "still", "left"}], confused' \in BOOLEAN,
         ~confused' => ~confused /\ recorder # 0
  PROVE  NIInv'
<1> USE PressFacts DEF NIInv, Outcome
<1>1. RecorderTypeOK'
  BY DEF RecorderTypeOK, FinishRecording, Cleanup
<1>2. RefsOK'
  <2> SUFFICES ASSUME ~confused' PROVE RefsOK!2'
    BY DEF RefsOK
  <2>1. CASE press[recorder] = "recording"
    BY <2>1 DEF RecorderTypeOK, RefsOK, Under, FinishRecording
  <2>2. CASE press[recorder] # "recording"
    BY <2>2 DEF RecorderTypeOK, RefsOK, Under, FinishRecording, Cleanup
  <2>3. QED
    BY <2>1, <2>2
<1>3. NoteAsMeant'
  BY <1>2 DEF RecorderTypeOK, RefsOK, NoteAsMeant, Under, FinishRecording, Cleanup
<1>4. QED
  BY <1>1, <1>2, <1>3

\* Every step keeps the strengthening.
LEMMA RecorderStep ==
  NIInv /\ [RecorderNext]_recorderVars => NIInv'
<1> SUFFICES ASSUME NIInv, [RecorderNext]_recorderVars PROVE NIInv'
  OBVIOUS
<1> USE PressFacts DEF NIInv
<1>1. ASSUME NEW n \in Press, StartRecording(n) PROVE NIInv'
  <2>1. RecorderTypeOK'
    BY <1>1 DEF RecorderTypeOK, StartRecording, Outcome
  <2>2. ~confused' => ~confused /\ Under({"asking", "recording", "stopping"}) = {}
    BY <1>1 DEF RecorderTypeOK, StartRecording
  <2>3. ~confused' => \A m \in Press : /\ press'[m] = IF m = n THEN "asking" ELSE press[m]
                                       /\ m # n => press[m] \notin {"asking", "recording", "stopping"}
    BY <1>1, <2>2 DEF RecorderTypeOK, StartRecording, Under
  <2>4. RefsOK' /\ NoteAsMeant'
    BY <1>1, <2>1, <2>2, <2>3 DEF RecorderTypeOK, RefsOK, NoteAsMeant, Under, StartRecording
  <2>5. QED
    BY <2>1, <2>4
<1>2. ASSUME NEW n \in Press, MicGranted(n) PROVE NIInv'
  <2>1. RecorderTypeOK'
    BY <1>2 DEF RecorderTypeOK, MicGranted
  <2>2. ~confused => recorder = 0 /\ state = "idle"
    BY <1>2 DEF RecorderTypeOK, RefsOK, Under, MicGranted
  <2>3. RefsOK' /\ NoteAsMeant'
    BY <1>2, <2>2 DEF RecorderTypeOK, RefsOK, NoteAsMeant, Under, MicGranted
  <2>4. QED
    BY <2>1, <2>3
<1>3. ASSUME NEW n \in Press, MicDenied(n) PROVE NIInv'
  <2>1. ~confused => recorder = 0 /\ state = "idle"
    BY <1>3 DEF RecorderTypeOK, RefsOK, Under, MicDenied
  <2>2. RecorderTypeOK'
    BY <1>3 DEF RecorderTypeOK, MicDenied, Cleanup
  <2>3. RefsOK' /\ NoteAsMeant'
    BY <1>3, <2>1, <2>2 DEF RecorderTypeOK, RefsOK, NoteAsMeant, Under, MicDenied, Cleanup
  <2>4. QED
    BY <2>2, <2>3
<1>4. ASSUME NEW n \in Press, Lock(n) PROVE NIInv'
  BY <1>4 DEF RecorderTypeOK, RefsOK, NoteAsMeant, Under, Lock, refVars
<1>5. ASSUME NEW n \in Press, Release(n) PROVE NIInv'
  <2>1. /\ down' \in [Press -> {"up", "still", "left"}]
        /\ UNCHANGED <<dragged, confused>>
    BY <1>5 DEF RecorderTypeOK, Release
  <2>2. CASE state = "holding" /\ n = pointer
    <3>1. PICK result \in Outcome : FinishRecording(result) /\ pointer' = 0
      BY <1>5, <2>2 DEF Release, Outcome
    <3>2. ~confused' => ~confused /\ recorder # 0
      BY <2>1, <2>2 DEF RefsOK
    <3>3. pointer' \in {0} \cup Press /\ dragged' \in BOOLEAN /\ confused' \in BOOLEAN
      BY <2>1, <3>1 DEF RecorderTypeOK
    <3>4. QED
      BY <2>1, <3>1, <3>2, <3>3, FinishStep
  <2>3. CASE ~(state = "holding" /\ n = pointer)
    BY <1>5, <2>1, <2>3 DEF RecorderTypeOK, RefsOK, NoteAsMeant, Under, Release
  <2>4. QED
    BY <2>2, <2>3
<1>6. ASSUME NEW n \in Press, LimitReached(n) PROVE NIInv'
  <2>1. ~confused' => ~confused /\ recorder # 0
    BY <1>6 DEF LimitReached
  <2>2. /\ pointer' \in {0} \cup Press /\ dragged' \in BOOLEAN
        /\ down' \in [Press -> {"up", "still", "left"}] /\ confused' \in BOOLEAN
    BY <1>6 DEF LimitReached, RecorderTypeOK
  <2>3. "send" \in Outcome /\ FinishRecording("send")
    BY <1>6 DEF LimitReached, Outcome
  <2>4. QED
    BY <2>1, <2>2, <2>3, FinishStep
<1>7. ASSUME NEW n \in Press, RecorderStopped(n) PROVE NIInv'
  <2>1. RecorderTypeOK'
    BY <1>7 DEF RecorderTypeOK, RecorderStopped, Cleanup
  <2>2. ~confused => recorder \in {0, n} /\ Under({"recording"}) = {} /\ meant[n] = outcome
    BY <1>7 DEF RecorderTypeOK, RefsOK, Under, RecorderStopped
  <2>3. RefsOK'
    BY <1>7, <2>2 DEF RecorderTypeOK, RefsOK, Under, RecorderStopped, Cleanup
  <2>4. NoteAsMeant'
    BY <1>7, <2>2, <2>3 DEF RecorderTypeOK, RefsOK, NoteAsMeant, RecorderStopped, Cleanup, Outcome
  <2>5. QED
    BY <2>1, <2>3, <2>4
<1>8. ASSUME NEW n \in Press, NEW to \in {"still", "left"}, Drag(n, to) PROVE NIInv'
  <2>1. dragged' \in BOOLEAN
    BY <1>8 DEF Drag, RecorderTypeOK
  <2>2. QED
    BY <1>8, <2>1 DEF RecorderTypeOK, RefsOK, NoteAsMeant, Under, Drag
<1>9. ASSUME NEW result \in Outcome, TapFinish(result) PROVE NIInv'
  <2>1. ~confused' => ~confused /\ recorder # 0
    BY <1>9 DEF TapFinish, RefsOK
  <2>2. /\ pointer' \in {0} \cup Press /\ dragged' \in BOOLEAN
        /\ down' \in [Press -> {"up", "still", "left"}] /\ confused' \in BOOLEAN
    BY <1>9 DEF TapFinish, RecorderTypeOK
  <2>3. FinishRecording(result)
    BY <1>9 DEF TapFinish
  <2>4. QED
    BY <2>1, <2>2, <2>3, FinishStep
<1>10. ASSUME TogglePause PROVE NIInv'
  BY <1>10 DEF RecorderTypeOK, RefsOK, NoteAsMeant, Under, TogglePause
<1>11. CASE UNCHANGED recorderVars
  BY <1>11 DEF RecorderTypeOK, RefsOK, NoteAsMeant, Under, recorderVars, refVars
<1>12. QED
  BY <1>1, <1>2, <1>3, <1>4, <1>5, <1>6, <1>7, <1>8, <1>9, <1>10, <1>11 DEF RecorderNext

\* The strengthening holds in every state.
THEOREM RecorderIInv == RecorderSpec => []NIInv
<1>1. RecorderInit => NIInv
  BY PressFacts DEF RecorderInit, NIInv, RecorderTypeOK, RefsOK, NoteAsMeant, Under, Outcome
<1>2. QED
  BY <1>1, RecorderStep, PTL DEF RecorderSpec

\* A recording is sent or thrown away as it was meant when it was let go, unless
\* presses overlapped (finishRecording and onstop, VoiceRecorder.tsx).
THEOREM RecordingAsAsked == RecorderSpec => []NoteAsMeant
<1>1. NIInv => NoteAsMeant
  BY DEF NIInv
<1>2. QED
  BY <1>1, RecorderIInv, PTL

-----------------------------------------------------------------------------
(* Playing them (VoicePlayer).                                               *)

\* Whoever waits for a decode waits for one that is under way; the effect of a
\* player that is not in view has not run, and bars are shown when they are known.
WaitersServed ==
    /\ awaiting \subseteq inView \cap Inflight
    /\ \A n \in bars : decodedCache[n] = "bars"

PIInv == PlayerTypeOK /\ inView \subseteq mounted /\ OneAtATime /\ DecodedOnce /\ WaitersServed /\ BarsShown

\* What Append does to the chain of decodes.
LEMMA ChainGrows ==
  ASSUME NEW chain \in Seq(Note), NEW n \in Note
  PROVE  /\ Append(chain, n) \in Seq(Note)
         /\ Len(Append(chain, n)) = Len(chain) + 1
         /\ \A i \in 1 .. Len(chain) : Append(chain, n)[i] = chain[i]
         /\ Append(chain, n)[Len(chain) + 1] = n
  OBVIOUS

\* What Tail does to it.
LEMMA ChainShrinks ==
  ASSUME NEW chain \in Seq(Note), chain # <<>>
  PROVE  /\ Tail(chain) \in Seq(Note)
         /\ Len(chain) \in Nat \ {0}
         /\ Len(Tail(chain)) = Len(chain) - 1
         /\ \A i \in 1 .. Len(chain) - 1 : Tail(chain)[i] = chain[i + 1]
         /\ Head(chain) = chain[1] /\ chain[1] \in Note
  OBVIOUS

Members(chain) == {chain[i] : i \in 1 .. Len(chain)}
Distinct(chain) == \A i, j \in 1 .. Len(chain) : chain[i] = chain[j] => i = j

\* A new decode at the end of the chain.
LEMMA AppendMembers ==
  ASSUME NEW chain \in Seq(Note), NEW n \in Note
  PROVE  /\ Members(Append(chain, n)) = Members(chain) \cup {n}
         /\ Distinct(chain) /\ n \notin Members(chain) => Distinct(Append(chain, n))
<1> DEFINE new == Append(chain, n)
<1>1. Len(chain) \in Nat
  OBVIOUS
<1>2. /\ Len(new) = Len(chain) + 1
      /\ \A i \in 1 .. Len(chain) : new[i] = chain[i]
      /\ new[Len(chain) + 1] = n
  BY ChainGrows
<1> HIDE DEF new
<1>3. QED
  BY <1>1, <1>2 DEF Members, Distinct, new

\* The first decode of the chain has ended.
LEMMA TailMembers ==
  ASSUME NEW chain \in Seq(Note), chain # <<>>, Distinct(chain)
  PROVE  /\ Members(Tail(chain)) = Members(chain) \ {Head(chain)}
         /\ Head(chain) \in Members(chain)
         /\ Distinct(Tail(chain))
<1> DEFINE rest == Tail(chain)
<1>1. /\ Len(chain) \in Nat \ {0}
      /\ Len(rest) = Len(chain) - 1
      /\ \A i \in 1 .. Len(chain) - 1 : rest[i] = chain[i + 1]
      /\ Head(chain) = chain[1]
  BY ChainShrinks
<1> HIDE DEF rest
<1>2. Members(rest) \subseteq Members(chain) \ {chain[1]}
  BY <1>1 DEF Members, Distinct
<1>3. ASSUME NEW i \in 1 .. Len(chain), chain[i] # chain[1] PROVE chain[i] \in Members(rest)
  <2>1. i - 1 \in 1 .. Len(rest) /\ rest[i - 1] = chain[i]
    BY <1>1, <1>3
  <2>2. QED BY <2>1 DEF Members
<1>4. Distinct(rest)
  BY <1>1 DEF Distinct
<1>5. /\ Members(rest) = Members(chain) \ {Head(chain)}
      /\ Head(chain) \in Members(chain)
  <2>1. chain[1] \in Members(chain)
    BY <1>1 DEF Members
  <2>2. ASSUME NEW k \in Members(chain), k # chain[1] PROVE k \in Members(rest)
    <3>1. PICK i \in 1 .. Len(chain) : k = chain[i]
      BY <2>2 DEF Members
    <3>2. QED BY <1>3, <2>2, <3>1
  <2>3. QED BY <1>1, <1>2, <2>1, <2>2
<1>6. QED
  BY <1>4, <1>5 DEF rest

\* Every step of the players, the decodes and the audio elements keeps PIInv.
LEMMA PlayerStep ==
  ASSUME PIInv, [PlayerNext]_playerVars
  PROVE  PIInv'
<1> USE NoteAssumption DEF PIInv, WaitersServed, PlayerTypeOK, OneAtATime, BarsShown, decodeVars
<1>0. /\ Inflight = Members(decodeChain) /\ Inflight' = Members(decodeChain')
      /\ DecodedOnce <=> Distinct(decodeChain) /\ \A n \in Inflight : decodedCache[n] = "absent"
      /\ DecodedOnce' <=> Distinct(decodeChain') /\ \A n \in Inflight' : decodedCache'[n] = "absent"
  BY DEF Inflight, Members, Distinct, DecodedOnce
<1> DEFINE Same == decodeChain' = decodeChain /\ decodedCache' = decodedCache
<1>k. Same => Inflight' = Inflight /\ DecodedOnce'
  BY <1>0
<1>1. ASSUME NEW n \in Note, MountPlayer(n) PROVE PIInv'
  <2>1. n \notin mounted /\ n \notin inView
    BY <1>1 DEF MountPlayer
  <2>2. QED BY <1>1, <1>k, <2>1 DEF MountPlayer
<1>2. ASSUME NEW n \in Note, ComeIntoView(n) PROVE PIInv'
  <2>1. /\ n \in mounted \ inView /\ inView' = inView \cup {n}
        /\ UNCHANGED <<mounted, decodedCache, playing, activeAudio, position>>
    BY <1>2 DEF ComeIntoView
  <2>2. CASE awaiting' = awaiting /\ decodeChain' = decodeChain
    <3>1. \/ UNCHANGED bars /\ (n \in bars \/ decodedCache[n] = "null")
          \/ decodedCache[n] = "bars" /\ bars' = bars \cup {n}
      BY <1>2, <2>1, <2>2 DEF ComeIntoView
    <3>2. decodedCache[n] # "absent" /\ (decodedCache[n] = "bars" => n \in bars')
      BY <3>1
    <3>3. QED BY <1>k, <2>1, <2>2, <3>1, <3>2
  <2>3. CASE /\ decodedCache[n] = "absent" /\ awaiting' = awaiting \cup {n} /\ UNCHANGED bars
             /\ n \in Inflight /\ decodeChain' = decodeChain
    BY <1>k, <2>1, <2>3
  <2>4. CASE /\ decodedCache[n] = "absent" /\ awaiting' = awaiting \cup {n} /\ UNCHANGED bars
             /\ n \notin Inflight /\ decodeChain' = Append(decodeChain, n)
    <3>1. /\ decodeChain' \in Seq(Note)
          /\ Inflight' = Inflight \cup {n} /\ Distinct(decodeChain')
      BY <1>0, <2>4, AppendMembers
    <3>2. QED BY <1>0, <2>1, <2>4, <3>1
  <2>5. QED BY <1>2, <2>2, <2>3, <2>4 DEF ComeIntoView
<1>3. ASSUME NEW result \in {"bars", "null"}, DecodeEnds(result) PROVE PIInv'
  <2> DEFINE n == Head(decodeChain)
  <2>1. /\ decodeChain' \in Seq(Note) /\ n \in Note
        /\ Inflight' = Inflight \ {n} /\ n \in Inflight /\ Distinct(decodeChain')
    BY <1>0, <1>3, TailMembers, ChainShrinks DEF DecodeEnds
  <2>2. /\ decodedCache' = [decodedCache EXCEPT ![n] = result]
        /\ bars' = IF n \in awaiting /\ result = "bars" THEN bars \cup {n} ELSE bars
        /\ awaiting' = awaiting \ {n}
        /\ UNCHANGED <<mounted, inView, playing, activeAudio, position>>
    BY <1>3 DEF DecodeEnds
  <2> HIDE DEF n
  <2>3. DecodedOnce'
    BY <1>0, <2>1, <2>2
  <2>4. PlayerTypeOK' /\ WaitersServed'
    <3>1. n \notin bars
      BY <1>0, <2>1
    <3>2. \A k \in bars' : decodedCache'[k] = "bars"
      BY <2>1, <2>2, <3>1
    <3>3. PlayerTypeOK'
      BY <1>3, <2>1, <2>2
    <3>4. awaiting' \subseteq inView' \cap Inflight'
      BY <2>1, <2>2
    <3>5. QED BY <3>2, <3>3, <3>4
  <2>5. BarsShown'
    <3>1. ASSUME NEW k \in inView', decodedCache'[k] = "bars" PROVE k \in bars'
      <4>1. k \in inView /\ k \in Note
        BY <2>2
      <4>2. CASE k = n
        BY <1>0, <2>1, <2>2, <3>1, <4>1, <4>2
      <4>3. CASE k # n
        BY <2>2, <3>1, <4>1, <4>3
      <4>4. QED BY <4>2, <4>3
    <3>2. ASSUME NEW k \in inView', decodedCache'[k] = "absent" PROVE k \in awaiting' \cap Inflight'
      BY <2>1, <2>2, <3>2
    <3>3. QED BY <3>1, <3>2
  <2>6. QED BY <2>2, <2>3, <2>4, <2>5
<1>4. ASSUME NEW n \in Note, UnmountPlayer(n) PROVE PIInv'
  BY <1>4, <1>k DEF UnmountPlayer
<1>5. ASSUME NEW n \in Note, TogglePlay(n) PROVE PIInv'
  BY <1>5, <1>k DEF TogglePlay
<1>6. ASSUME NEW n \in Note, PlayRefused(n) PROVE PIInv'
  BY <1>6, <1>k DEF PlayRefused
<1>7. ASSUME NEW n \in Note, MetadataLoaded(n) \/ Rewind(n) \/ Move(n) PROVE PIInv'
  BY <1>7, <1>k DEF MetadataLoaded, Rewind, Move
<1>8. ASSUME NEW n \in Note, Ended(n) PROVE PIInv'
  BY <1>8, <1>k DEF Ended
<1>9. CASE UNCHANGED playerVars
  BY <1>9, <1>k DEF playerVars
<1>10. QED
  BY <1>1, <1>2, <1>3, <1>4, <1>5, <1>6, <1>7, <1>8, <1>9 DEF PlayerNext

\* The strengthening holds in every state: for any notes, however threads are left,
\* opened and scrolled while notes are decoded and played.
THEOREM PlayerIInv == PlayerSpec => []PIInv
<1>1. PlayerInit => PIInv
  BY NoteAssumption DEF PlayerInit, PIInv, PlayerTypeOK, WaitersServed, OneAtATime, DecodedOnce,
     BarsShown, Inflight
<1>2. PIInv /\ [PlayerNext]_playerVars => PIInv'
  BY PlayerStep
<1>3. QED BY <1>1, <1>2, PTL DEF PlayerSpec

\* Only one voice note plays at a time, and it is the one activeAudio names
\* (VoiceMessagePlayer.tsx:19-20, 176-190, 149-155).
THEOREM OneNotePlays == PlayerSpec => []OneAtATime
BY PlayerIInv, PTL DEF PIInv

\* No note is decoded twice (VoiceMessagePlayer.tsx:11-61).
THEOREM NotesDecodedOnce == PlayerSpec => []DecodedOnce
BY PlayerIInv, PTL DEF PIInv

\* Whoever looks at a note sees its bars once they are known, also after leaving
\* the thread in the middle of a decode (VoiceMessagePlayer.tsx:98, 125-134).
THEOREM PlayersShowBars == PlayerSpec => []BarsShown
BY PlayerIInv, PTL DEF PIInv

-----------------------------------------------------------------------------
(* Layers and the back button (Screens).                                     *)

\* The panels and the back button touch the call overlay in one way only: a call
\* that was not ringing here may have been minimized.
PageStep ==
    /\ layers' \subseteq Layer
    /\ thread' \in BOOLEAN /\ exitPrompt' \in BOOLEAN /\ exited' \in BOOLEAN
    /\ minimized' \in BOOLEAN
    /\ UNCHANGED <<callStatus, callVideo, callReconnecting, uiVisible, trayOpen, hideTimer>>

\* Each step of the page is of that kind.
LEMMA PageSteps ==
  ASSUME ScreensTypeOK,
         \/ \E layer \in Layer : OpenLayer(layer) \/ CloseLayer(layer)
         \/ SelectThread \/ BackToList \/ Back \/ ExitPromptEnds
         \/ \E to \in BOOLEAN : Minimize(to)
  PROVE  PageStep
<1> USE DEF ScreensTypeOK, PageStep, pageVars, overlayVars
<1>1. ASSUME NEW layer \in Layer, OpenLayer(layer) \/ CloseLayer(layer) PROVE PageStep
  BY <1>1 DEF OpenLayer, CloseLayer
<1>2. CASE SelectThread \/ BackToList \/ ExitPromptEnds
  BY <1>2 DEF SelectThread, BackToList, ExitPromptEnds
<1>3. CASE Back
  BY <1>3 DEF Back, BackToList
<1>4. ASSUME NEW to \in BOOLEAN, Minimize(to) PROVE PageStep
  BY <1>4 DEF Minimize
<1>5. QED BY <1>1, <1>2, <1>3, <1>4

\* Every step keeps the types and the controls within reach.
LEMMA ScreensStep ==
  ASSUME ScreensTypeOK, ControlsReachable, [ScreensNext]_screenVars
  PROVE  ScreensTypeOK' /\ ControlsReachable'
<1> USE DEF ScreensTypeOK, ControlsReachable, MayHide, Rearm, pageVars, overlayVars
<1>1. CASE PageStep
  BY <1>1 DEF PageStep
<1>2. ASSUME NEW status \in {"none", "outgoing", "incoming", "connected"}, NEW video \in BOOLEAN,
             CallChanges(status, video)
      PROVE  ScreensTypeOK' /\ ControlsReachable'
  BY <1>2 DEF CallChanges
<1>3. CASE LinkChanges
  BY <1>3 DEF LinkChanges
<1>4. CASE ToggleTray
  BY <1>4 DEF ToggleTray
<1>5. CASE StageTap
  BY <1>5 DEF StageTap
<1>6. CASE ControlsHide
  BY <1>6 DEF ControlsHide
<1>7. CASE UNCHANGED screenVars
  BY <1>7 DEF screenVars
<1>8. QED
  BY <1>1, <1>2, <1>3, <1>4, <1>5, <1>6, <1>7, PageSteps DEF ScreensNext

\* Hanging up stays one tap away: no controls are hidden, and no timer runs to hide
\* them, while the link is down, the reactions are open, or the call is not a live
\* video call (CallOverlay.tsx:192-207, 228-241).
THEOREM HangUpInReach == ScreensSpec => [](ScreensTypeOK /\ ControlsReachable)
<1>1. ScreensInit => ScreensTypeOK /\ ControlsReachable
  BY DEF ScreensInit, ScreensTypeOK, ControlsReachable
<1>2. QED BY <1>1, ScreensStep, PTL DEF ScreensSpec
=============================================================================
