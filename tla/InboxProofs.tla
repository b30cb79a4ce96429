---------------------------- MODULE InboxProofs ----------------------------
(***************************************************************************)
(* Theorems about Inbox, for any set of messages, threads and faults.      *)
(***************************************************************************)
EXTENDS Inbox, TLAPS

\* Whatever the client or the database holds was relayed before.
OnlyRelayed ==
    /\ persisting \cup downlink \cup seen \cup batch \cup keyUsed
         \subseteq relayed
    /\ \A m \in Msg : row[m] # "none" => m \in relayed
    /\ \A m \in Msg : pc[m] # "idle" => m \in seen

\* A message enters the history through its key, and only once: while it is
\* in hand no copy of it is in the history or in what any handler read.
OneEntry ==
    /\ entered \subseteq keyUsed
    /\ \A m \in Msg : store[m] > 0 => m \in entered
    /\ \A m \in Msg : pc[m] \in InHand => m \in keyUsed \ entered
    /\ \A m, n \in Msg :
          snap[m][n] <= 1 /\ (snap[m][n] > 0 => n \in entered)

\* Whoever reports a message read or viewed has it in the history.
ReadsEntered ==
    /\ toMark \subseteq entered
    /\ \A m \in Msg :
          pc[m] \in {"stored", "showing", "acking"} => m \in entered
    /\ \A r \in uplink \cup jobs : r.kind # "DELIVERED" => r.msg \in entered
    /\ \A m \in Msg : row[m] = "READ" => m \in entered

IInv == TypeOK /\ OnlyRelayed /\ OneEntry /\ AtMostOnce /\ ReadsEntered

\* Every step preserves the type invariant.
LEMMA TypeStep ==
  ASSUME TypeOK, [Next]_vars
  PROVE  TypeOK'
<1> USE ConstAssumption DEF TypeOK, Receipt, Stage, serverVars, netVars,
            handlerVars, localVars, screenVars, syncVars
<1>1. ASSUME NEW m \in Msg, Relay(m) PROVE TypeOK'
  BY <1>1 DEF Relay
<1>2. ASSUME NEW m \in Msg, Persist(m) PROVE TypeOK'
  BY <1>2 DEF Persist
<1>3. ASSUME NEW m \in Msg, ReceiveLive(m) PROVE TypeOK'
  BY <1>3 DEF ReceiveLive, Begin, Emit, Delivered
<1>4. ASSUME NEW m \in Msg, PassMessage(m) PROVE TypeOK'
  BY <1>4 DEF PassMessage, Begin, Emit, Delivered, PassBusy
<1>5. ASSUME NEW m \in Msg, DecryptOk(m) PROVE TypeOK'
  BY <1>5 DEF DecryptOk
<1>6. ASSUME NEW m \in Msg, DecryptFails(m) PROVE TypeOK'
  BY <1>6 DEF DecryptFails, Finish, Emit, Delivered
<1>7. ASSUME NEW m \in Msg, EnsureThread(m) PROVE TypeOK'
  BY <1>7 DEF EnsureThread
<1>8. ASSUME NEW m \in Msg, LookupFails(m) PROVE TypeOK'
  BY <1>8 DEF LookupFails, Finish, Emit, Delivered
<1>9. ASSUME NEW m \in Msg, AppendWrite(m) PROVE TypeOK'
  BY <1>9 DEF AppendWrite, Nothing
<1>10. ASSUME NEW m \in Msg, MarkNext(m) PROVE TypeOK'
  BY <1>10 DEF MarkNext, Emit, Read
<1>11. ASSUME NEW m \in Msg, OpenViewOnce(m) PROVE TypeOK'
  BY <1>11 DEF OpenViewOnce, Emit, Viewed
<1>12. ASSUME NEW r \in Receipt, ReceiveReceipt(r) PROVE TypeOK'
  BY <1>12 DEF ReceiveReceipt
<1>13. ASSUME NEW r \in Receipt, ApplyReceipt(r) PROVE TypeOK'
  BY <1>13 DEF ApplyReceipt, ResumeAfterAck, Finish, Emit, StatusOf, Delivered
<1>14. ASSUME NEW r \in Receipt, GiveUpReceipt(r) PROVE TypeOK'
  BY <1>14 DEF GiveUpReceipt, ResumeAfterAck, Finish, Emit, Delivered
<1>15. CASE Join
  BY <1>15 DEF Join
<1>16. CASE OnConnect
  BY <1>16 DEF OnConnect, CatchUp
<1>17. CASE Drop
  BY <1>17 DEF Drop, LoseSocket
<1>18. CASE ServerCrash
  BY <1>18 DEF ServerCrash, LoseSocket
<1>19. CASE FetchAnswer
  BY <1>19 DEF FetchAnswer, Stored
<1>20. CASE FetchFails
  BY <1>20 DEF FetchFails, InitGoesOn
<1>21. CASE PassEnd
  BY <1>21 DEF PassEnd, InitGoesOn, PassBusy
<1>22. CASE Launch
  BY <1>22 DEF Launch
<1>23. CASE InitCatchUp
  BY <1>23 DEF InitCatchUp, CatchUp
<1>24. CASE Resume
  BY <1>24 DEF Resume, CatchUp
<1>25. CASE Reload
  BY <1>25 DEF Reload, Nothing
<1>26. ASSUME NEW t \in Thread, OpenThread(t) PROVE TypeOK'
  BY <1>26 DEF OpenThread
<1>27. CASE CloseThread
  BY <1>27 DEF CloseThread
<1>28. ASSUME NEW m \in Msg, DecideOpen(m) PROVE TypeOK'
  BY <1>28 DEF DecideOpen, Finish, Emit, Delivered
<1>29. ASSUME NEW m \in Msg, AckShown(m) PROVE TypeOK'
  BY <1>29 DEF AckShown, Emit, Delivered, Read
<1>30. ASSUME NEW t \in Thread, ReadUnread(t) PROVE TypeOK'
  BY <1>30 DEF ReadUnread
<1>31. CASE UNCHANGED vars
  BY <1>31 DEF vars
<1>32. QED
  BY <1>1, <1>2, <1>3, <1>4, <1>5, <1>6, <1>7, <1>8, <1>9, <1>10, <1>11,
     <1>12, <1>13, <1>14, <1>15, <1>16, <1>17, <1>18, <1>19, <1>20, <1>21,
     <1>22, <1>23, <1>24, <1>25, <1>26, <1>27, <1>28, <1>29, <1>30, <1>31
     DEF Next

\* Every step leaves the client with relayed messages only.
LEMMA RelayedStep ==
  ASSUME TypeOK, OnlyRelayed, [Next]_vars
  PROVE  OnlyRelayed'
<1> USE DEF TypeOK, OnlyRelayed, serverVars, netVars, handlerVars, localVars,
            screenVars, syncVars
<1>1. ASSUME NEW m \in Msg, Relay(m) \/ Persist(m) PROVE OnlyRelayed'
  BY <1>1 DEF Relay, Persist
<1>2. ASSUME NEW m \in Msg, ReceiveLive(m) PROVE OnlyRelayed'
  BY <1>2 DEF ReceiveLive, Begin, Emit
<1>3. ASSUME NEW m \in Msg, PassMessage(m) PROVE OnlyRelayed'
  BY <1>3 DEF PassMessage, Begin, Emit
<1>4. ASSUME NEW m \in Msg, DecryptOk(m) \/ EnsureThread(m) PROVE OnlyRelayed'
  BY <1>4 DEF DecryptOk, EnsureThread
<1>5. ASSUME NEW m \in Msg, DecryptFails(m) \/ LookupFails(m)
      PROVE OnlyRelayed'
  BY <1>5 DEF DecryptFails, LookupFails, Finish
<1>6. ASSUME NEW m \in Msg, AppendWrite(m) \/ DecideOpen(m) \/ AckShown(m)
      PROVE OnlyRelayed'
  BY <1>6 DEF AppendWrite, DecideOpen, AckShown, Finish
<1>7. ASSUME NEW m \in Msg, MarkNext(m) \/ OpenViewOnce(m) PROVE OnlyRelayed'
  BY <1>7 DEF MarkNext, OpenViewOnce
<1>8. ASSUME NEW r \in Receipt,
             ReceiveReceipt(r) \/ ApplyReceipt(r) \/ GiveUpReceipt(r)
      PROVE OnlyRelayed'
  BY <1>8 DEF ReceiveReceipt, ApplyReceipt, GiveUpReceipt, ResumeAfterAck,
              Finish, Emit, Receipt
<1>9. CASE Join \/ OnConnect \/ Launch \/ InitCatchUp \/ Resume
  BY <1>9 DEF Join, OnConnect, Launch, InitCatchUp, Resume, CatchUp
<1>10. CASE Drop \/ ServerCrash
  BY <1>10 DEF Drop, ServerCrash, LoseSocket
<1>11. CASE FetchAnswer
  BY <1>11 DEF FetchAnswer, Stored
<1>12. CASE FetchFails \/ PassEnd \/ CloseThread
  BY <1>12 DEF FetchFails, PassEnd, CloseThread
<1>13. CASE Reload
  BY <1>13 DEF Reload
<1>14. ASSUME NEW t \in Thread, OpenThread(t) \/ ReadUnread(t)
      PROVE OnlyRelayed'
  BY <1>14 DEF OpenThread, ReadUnread
<1>15. CASE UNCHANGED vars
  BY <1>15 DEF vars
<1>16. QED
  BY <1>1, <1>2, <1>3, <1>4, <1>5, <1>6, <1>7, <1>8, <1>9, <1>10, <1>11,
     <1>12, <1>13, <1>14, <1>15 DEF Next

\* Steps that neither consume a key, nor read or write the history, nor take
\* a message in hand.
Quiet ==
    /\ UNCHANGED localVars
    /\ relayed \subseteq relayed'
    /\ snap' \in {snap, [m \in Msg |-> Nothing]}
    /\ \A m \in Msg : pc'[m] \in InHand => pc[m] \in InHand

\* But for three actions of a handler, a step changes neither keys nor history
\* and reads no history.
LEMMA QuietStep ==
  ASSUME TypeOK, [Next]_vars,
         \A m \in Msg : ~DecryptOk(m) /\ ~EnsureThread(m) /\ ~AppendWrite(m)
  PROVE  Quiet
<1> USE DEF TypeOK, Quiet, InHand, serverVars, netVars, handlerVars,
            localVars, screenVars, syncVars
<1>1. ASSUME NEW m \in Msg, Relay(m) \/ Persist(m) PROVE Quiet
  BY <1>1 DEF Relay, Persist
<1>2. ASSUME NEW m \in Msg, ReceiveLive(m) \/ PassMessage(m) PROVE Quiet
  BY <1>2 DEF ReceiveLive, PassMessage, Begin
<1>3. ASSUME NEW m \in Msg, \/ DecryptFails(m) \/ LookupFails(m)
                            \/ DecideOpen(m) \/ AckShown(m)
      PROVE Quiet
  BY <1>3 DEF DecryptFails, LookupFails, DecideOpen, AckShown, Finish
<1>4. ASSUME NEW m \in Msg, MarkNext(m) \/ OpenViewOnce(m) PROVE Quiet
  BY <1>4 DEF MarkNext, OpenViewOnce
<1>5. ASSUME NEW r \in Receipt,
             ReceiveReceipt(r) \/ ApplyReceipt(r) \/ GiveUpReceipt(r)
      PROVE Quiet
  BY <1>5 DEF ReceiveReceipt, ApplyReceipt, GiveUpReceipt, ResumeAfterAck,
              Finish, Emit, Receipt
<1>6. CASE Join \/ OnConnect \/ Launch \/ InitCatchUp \/ Resume
  BY <1>6 DEF Join, OnConnect, Launch, InitCatchUp, Resume
<1>7. CASE Drop \/ ServerCrash
  BY <1>7 DEF Drop, ServerCrash, LoseSocket
<1>8. CASE FetchAnswer \/ FetchFails \/ PassEnd \/ CloseThread
  BY <1>8 DEF FetchAnswer, FetchFails, PassEnd, CloseThread
<1>9. CASE Reload
  BY <1>9 DEF Reload
<1>10. ASSUME NEW t \in Thread, OpenThread(t) \/ ReadUnread(t)
      PROVE Quiet
  BY <1>10 DEF OpenThread, ReadUnread
<1>11. CASE UNCHANGED vars
  BY <1>11 DEF vars
<1>12. QED
  BY <1>1, <1>2, <1>3, <1>4, <1>5, <1>6, <1>7, <1>8, <1>9, <1>10, <1>11
     DEF Next

\* A history is written with a message in hand only, and what was read of it
\* before is no older than the entries it lacks.
LEMMA OneEntryStep ==
  ASSUME TypeOK, OneEntry, AtMostOnce, [Next]_vars
  PROVE  OneEntry' /\ AtMostOnce'
<1> USE DEF TypeOK, OneEntry, AtMostOnce, InHand, serverVars, netVars,
            handlerVars, localVars, screenVars, syncVars
<1>1. ASSUME NEW m \in Msg, DecryptOk(m) PROVE OneEntry' /\ AtMostOnce'
  BY <1>1 DEF DecryptOk
<1>2. ASSUME NEW m \in Msg, EnsureThread(m) PROVE OneEntry' /\ AtMostOnce'
  BY <1>2 DEF EnsureThread
<1>3. ASSUME NEW m \in Msg, AppendWrite(m) PROVE OneEntry' /\ AtMostOnce'
  <2>1. snap[m][m] = 0 /\ m \in keyUsed
    BY <1>3 DEF AppendWrite
  <2>2. \A n \in Msg : pc'[n] \in InHand => n # m /\ pc[n] \in InHand
    BY <1>3 DEF AppendWrite
  <2>3. \A n \in Msg : store'[n] <= 1 /\ (store'[n] > 0 => n \in entered')
    BY <1>3, <2>1 DEF AppendWrite
  <2>4. \A k, n \in Msg :
           snap'[k][n] <= 1 /\ (snap'[k][n] > 0 => n \in entered')
    BY <1>3 DEF AppendWrite, Nothing
  <2>5. entered' \subseteq keyUsed'
    BY <1>3, <2>1 DEF AppendWrite
  <2>6. \A n \in Msg : pc'[n] \in InHand => n \in keyUsed' \ entered'
    BY <1>3, <2>2 DEF AppendWrite
  <2>7. QED BY <2>3, <2>4, <2>5, <2>6
<1>4. ASSUME Quiet PROVE OneEntry' /\ AtMostOnce'
  BY <1>4 DEF Quiet, Nothing
<1>5. QED BY <1>1, <1>2, <1>3, <1>4, QuietStep

\* Receipts that report a message as read are of entered messages.
LEMMA ReadsStep ==
  ASSUME TypeOK, OneEntry, ReadsEntered, [Next]_vars
  PROVE  ReadsEntered'
<1> USE DEF TypeOK, OneEntry, ReadsEntered, Receipt, Delivered, Read, Viewed,
            serverVars, netVars, handlerVars, localVars, screenVars, syncVars
<1>1. ASSUME NEW m \in Msg, Relay(m) \/ Persist(m) PROVE ReadsEntered'
  BY <1>1 DEF Relay, Persist
<1>2. ASSUME NEW m \in Msg, ReceiveLive(m) \/ PassMessage(m)
      PROVE ReadsEntered'
  BY <1>2 DEF ReceiveLive, PassMessage, Begin, Emit
<1>3. ASSUME NEW m \in Msg, DecryptOk(m) \/ EnsureThread(m)
      PROVE ReadsEntered'
  BY <1>3 DEF DecryptOk, EnsureThread
<1>4. ASSUME NEW m \in Msg, DecryptFails(m) \/ LookupFails(m)
      PROVE ReadsEntered'
  BY <1>4 DEF DecryptFails, LookupFails, Finish, Emit
<1>5. ASSUME NEW m \in Msg, AppendWrite(m) \/ DecideOpen(m) \/ AckShown(m)
      PROVE ReadsEntered'
  BY <1>5 DEF AppendWrite, DecideOpen, AckShown, Finish, Emit
<1>6. ASSUME NEW m \in Msg, MarkNext(m) \/ OpenViewOnce(m)
      PROVE ReadsEntered'
  BY <1>6 DEF MarkNext, OpenViewOnce, Emit
<1>7. ASSUME NEW r \in Receipt,
             ReceiveReceipt(r) \/ ApplyReceipt(r) \/ GiveUpReceipt(r)
      PROVE ReadsEntered'
  BY <1>7 DEF ReceiveReceipt, ApplyReceipt, GiveUpReceipt, ResumeAfterAck,
              Finish, Emit, StatusOf
<1>8. CASE Join \/ OnConnect \/ Launch \/ InitCatchUp \/ Resume
  BY <1>8 DEF Join, OnConnect, Launch, InitCatchUp, Resume
<1>9. CASE Drop \/ ServerCrash
  BY <1>9 DEF Drop, ServerCrash, LoseSocket
<1>10. CASE FetchAnswer \/ FetchFails \/ PassEnd \/ CloseThread
  BY <1>10 DEF FetchAnswer, FetchFails, PassEnd, CloseThread
<1>11. CASE Reload
  BY <1>11 DEF Reload
<1>12. ASSUME NEW t \in Thread, OpenThread(t) \/ ReadUnread(t)
      PROVE ReadsEntered'
  BY <1>12 DEF OpenThread, ReadUnread
<1>13. CASE UNCHANGED vars
  BY <1>13 DEF vars
<1>14. QED
  BY <1>1, <1>2, <1>3, <1>4, <1>5, <1>6, <1>7, <1>8, <1>9, <1>10, <1>11,
     <1>12, <1>13 DEF Next

\* The invariant holds before any message is sent.
LEMMA InitIInv == Init => IInv
<1> SUFFICES ASSUME Init PROVE IInv
  OBVIOUS
<1>1. TypeOK
  BY ConstAssumption DEF Init, TypeOK, Nothing, Stage
<1>2. OnlyRelayed
  BY DEF Init, OnlyRelayed
<1>3. OneEntry /\ AtMostOnce
  BY DEF Init, OneEntry, AtMostOnce, Nothing, InHand
<1>4. ReadsEntered
  BY DEF Init, ReadsEntered
<1>5. QED BY <1>1, <1>2, <1>3, <1>4 DEF IInv

\* IInv is inductive: every state of Inbox satisfies it.
THEOREM IInvHolds == Spec => []IInv
<1>1. IInv /\ [Next]_vars => IInv'
  BY TypeStep, RelayedStep, OneEntryStep, ReadsStep DEF IInv
<1>2. QED BY InitIInv, <1>1, PTL DEF Spec

\* The variables stay in their types, whatever the constants.
THEOREM TypeCorrect == Spec => []TypeOK
BY IInvHolds, PTL DEF IInv

\* No history ever holds a second copy of a message: the live handler, the
\* catch-up pass, reloads and racing appends included.
THEOREM HistoryAtMostOnce == Spec => []AtMostOnce
BY IInvHolds, PTL DEF IInv

\* Blue ticks are only ever claimed of messages that entered the history.
THEOREM ReadsAreEntered == Spec => []ReadOnlyEntered
<1>1. IInv => ReadOnlyEntered
  BY DEF IInv, ReadsEntered, ReadOnlyEntered, Read
<1>2. QED BY IInvHolds, <1>1, PTL

-----------------------------------------------------------------------------
(* Inbox implements Mailbox                                                *)

\* What one step can do to the keys and to the history.
LEMMA LocalFacts ==
  ASSUME IInv, [Next]_vars
  PROVE  /\ relayed \subseteq relayed'
         /\ entered \subseteq entered'
         /\ \A m \in entered' \ entered : pc[m] = "writing"
         /\ \A m, n \in entered' \ entered : m = n
         /\ \A m \in keyUsed' \ keyUsed :
               pc[m] = "decrypting" /\ pc'[m] \in InHand
         /\ \A m \in Msg :
               pc'[m] \in InHand => pc[m] \in InHand \/ m \notin keyUsed
         /\ keyUsed \subseteq keyUsed'
<1> USE DEF IInv, TypeOK, InHand, serverVars, netVars, localVars
<1>1. ASSUME NEW m \in Msg, DecryptOk(m) PROVE
         /\ UNCHANGED <<relayed, entered>>
         /\ keyUsed' = keyUsed \cup {m} /\ m \notin keyUsed
         /\ pc[m] = "decrypting" /\ pc' = [pc EXCEPT ![m] = "ensuring"]
  BY <1>1 DEF DecryptOk
<1>2. ASSUME NEW m \in Msg, EnsureThread(m) PROVE
         /\ UNCHANGED <<relayed, entered, keyUsed>>
         /\ pc[m] = "ensuring" /\ pc' = [pc EXCEPT ![m] = "writing"]
  BY <1>2 DEF EnsureThread
<1>3. ASSUME NEW m \in Msg, AppendWrite(m) PROVE
         /\ UNCHANGED <<relayed, keyUsed>>
         /\ entered' = entered \cup {m} /\ pc[m] = "writing"
         /\ \A n \in Msg : pc'[n] \in InHand => pc[n] \in InHand
  BY <1>3 DEF AppendWrite
<1>4. CASE Quiet
  BY <1>4 DEF Quiet
<1>5. CASE \E m \in Msg : DecryptOk(m)
  BY <1>1, <1>5
<1>6. CASE \E m \in Msg : EnsureThread(m)
  BY <1>2, <1>6
<1>7. CASE \E m \in Msg : AppendWrite(m)
  BY <1>3, <1>7
<1>8. QED BY <1>4, <1>5, <1>6, <1>7, QuietStep

\* Every step moves the fates of the messages as Mailbox allows.
LEMMA FateStep ==
  ASSUME IInv, IInv', [Next]_vars
  PROVE  [M!Next]_([m \in Msg |-> FateOf(m)])
<1> DEFINE f == [m \in Msg |-> FateOf(m)]
<1>1. \A m \in Msg : FateOf(m) \in M!Fate /\ FateOf(m)' \in M!Fate
  BY DEF FateOf, M!Fate
<1>2. ASSUME NEW m \in Msg
      PROVE  <<FateOf(m), FateOf(m)'>> \in M!Moves
  <2>1. CASE m \in entered
    BY <2>1, LocalFacts DEF FateOf, M!Moves
  <2>2. CASE m \in keyUsed \ entered /\ pc[m] \notin InHand
    <3>1. m \in keyUsed' \ entered' /\ pc'[m] \notin InHand
      BY <2>2, LocalFacts DEF InHand
    <3>2. QED BY <2>2, <3>1 DEF FateOf, M!Moves
  <2>3. CASE m \notin keyUsed /\ m \in relayed
    BY <2>3, LocalFacts DEF IInv, OneEntry, FateOf, M!Moves
  <2>4. CASE m \notin relayed
    <3>1. m \notin keyUsed /\ m \notin entered /\ pc[m] = "idle"
      BY <2>4 DEF IInv, TypeOK, OnlyRelayed, OneEntry
    <3>2. m \notin keyUsed' /\ m \notin entered'
      BY <3>1, LocalFacts
    <3>3. QED BY <2>4, <3>1, <3>2 DEF FateOf, M!Moves
  <2>5. CASE m \in keyUsed \ entered /\ pc[m] \in InHand
    <3>1. m \in relayed /\ m \in relayed' /\ m \in keyUsed'
      BY <2>5, LocalFacts DEF IInv, OnlyRelayed
    <3>2. QED BY <2>5, <3>1 DEF FateOf, M!Moves
  <2>6. QED BY <2>1, <2>2, <2>3, <2>4, <2>5
<1>3. ASSUME NEW m \in Msg, FateOf(m)' = "shown", FateOf(m) # FateOf(m)'
      PROVE  m \in entered' \ entered
  BY <1>3 DEF FateOf
<1>4. f' \in [Msg -> M!Fate]
  BY <1>1
<1>5. QED BY <1>2, <1>3, <1>4, LocalFacts DEF M!Next

\* Every behaviour of Inbox is one of Mailbox: a message is entered at most
\* once in its life or gone for good, across sessions and server restarts.
THEOREM InboxImplementsMailbox == Spec => ImplementsMailbox
<1>1. Init => M!Init
  BY DEF Init, M!Init, FateOf
<1>2. IInv /\ IInv' /\ [Next]_vars => [M!Next]_([m \in Msg |-> FateOf(m)])
  BY FateStep
<1>3. QED BY IInvHolds, <1>1, <1>2, PTL DEF Spec, ImplementsMailbox, M!Spec

-----------------------------------------------------------------------------
(* Action properties of the handlers                                       *)

\* The live handler and the catch-up pass start a handler only for a message
\* that is not in seen, hence idle.
LEMMA BeginsFromIdle ==
  ASSUME IInv, [Next]_vars, NEW m \in Msg, pc[m] # pc'[m],
         pc'[m] = "decrypting"
  PROVE  pc[m] = "idle"
<1> USE DEF IInv, TypeOK, handlerVars
<1>1. ASSUME NEW n \in Msg, ReceiveLive(n) \/ PassMessage(n)
      PROVE  n = m /\ n \notin seen
  BY <1>1 DEF ReceiveLive, PassMessage, Begin, Emit
<1>2. CASE \E n \in Msg : ReceiveLive(n) \/ PassMessage(n)
  <2>1. m \notin seen
    BY <1>1, <1>2
  <2>2. \A n \in Msg : pc[n] # "idle" => n \in seen
    BY DEF OnlyRelayed
  <2>3. QED BY <2>1, <2>2
<1>3. ASSUME \A n \in Msg : ~ReceiveLive(n) /\ ~PassMessage(n)
      PROVE  FALSE
  <2>1. ASSUME NEW n \in Msg,
               Relay(n) \/ Persist(n) \/ MarkNext(n) \/ OpenViewOnce(n)
        PROVE FALSE
    BY <2>1 DEF Relay, Persist, MarkNext, OpenViewOnce
  <2>2. ASSUME NEW n \in Msg,
               DecryptOk(n) \/ DecryptFails(n) \/ EnsureThread(n)
                 \/ LookupFails(n) \/ AppendWrite(n) \/ DecideOpen(n)
                 \/ AckShown(n)
        PROVE FALSE
    BY <2>2 DEF DecryptOk, DecryptFails, EnsureThread, LookupFails,
                AppendWrite, DecideOpen, AckShown, Finish
  <2>3. ASSUME NEW r \in Receipt,
               ReceiveReceipt(r) \/ ApplyReceipt(r) \/ GiveUpReceipt(r)
        PROVE FALSE
    BY <2>3 DEF ReceiveReceipt, ApplyReceipt, GiveUpReceipt, ResumeAfterAck,
                Finish, Emit
  <2>4. CASE Join \/ OnConnect \/ Launch \/ InitCatchUp \/ Resume
               \/ FetchAnswer \/ FetchFails \/ PassEnd \/ CloseThread
               \/ \E t \in Thread : OpenThread(t) \/ ReadUnread(t)
    BY <2>4 DEF Join, OnConnect, Launch, InitCatchUp, Resume, FetchAnswer,
                FetchFails, PassEnd, CloseThread, OpenThread, ReadUnread
  <2>5. CASE Drop \/ ServerCrash \/ Reload
    BY <2>5 DEF Drop, ServerCrash, LoseSocket, Reload
  <2>6. CASE UNCHANGED vars
    BY <2>6 DEF vars
  <2>7. QED BY <1>3, <2>1, <2>2, <2>3, <2>4, <2>5, <2>6 DEF Next
<1>4. QED BY <1>2, <1>3

\* No session decrypts a ciphertext twice.
THEOREM DecryptsOnce == Spec => DecryptOncePerSession
<1>1. IInv /\ [Next]_vars =>
        [\A m \in Msg :
           (pc[m] # pc'[m] /\ pc'[m] = "decrypting") => pc[m] = "idle"]_pc
  BY BeginsFromIdle
<1>2. QED BY IInvHolds, <1>1, PTL DEF Spec, DecryptOncePerSession

\* What a step newly emits is of a message taken up in this session or entered.
LEMMA EmitsTakenUp ==
  ASSUME IInv, [Next]_vars, NEW r \in uplink' \ uplink
  PROVE  r.msg \in seen' \cup entered'
<1> USE DEF IInv, TypeOK, OnlyRelayed, ReadsEntered, Emit, Delivered, Read, Viewed, Receipt,
            serverVars, netVars, handlerVars, localVars, screenVars, syncVars
<1>1. ASSUME NEW m \in Msg, Relay(m) \/ Persist(m) \/ DecryptOk(m) \/ EnsureThread(m) PROVE FALSE
  BY <1>1 DEF Relay, Persist, DecryptOk, EnsureThread
<1>2. ASSUME NEW m \in Msg, ReceiveLive(m) \/ PassMessage(m) PROVE r.msg \in seen'
  BY <1>2 DEF ReceiveLive, PassMessage, Begin
<1>3. ASSUME NEW m \in Msg, DecryptFails(m) \/ LookupFails(m) PROVE r.msg \in seen'
  BY <1>3 DEF DecryptFails, LookupFails, Finish
<1>4. ASSUME NEW m \in Msg, AppendWrite(m) \/ DecideOpen(m) \/ AckShown(m)
      PROVE  r.msg \in entered'
  BY <1>4 DEF AppendWrite, DecideOpen, AckShown, Finish
<1>5. ASSUME NEW m \in Msg, MarkNext(m) PROVE r.msg \in entered'
  BY <1>5 DEF MarkNext
<1>6. ASSUME NEW m \in Msg, OpenViewOnce(m) PROVE r.msg \in entered'
  BY <1>6 DEF OpenViewOnce, OneEntry
<1>7. ASSUME NEW q \in Receipt, ReceiveReceipt(q) \/ ApplyReceipt(q) \/ GiveUpReceipt(q)
      PROVE  r.msg \in seen'
  BY <1>7 DEF ReceiveReceipt, ApplyReceipt, GiveUpReceipt, ResumeAfterAck, Finish
<1>8. CASE \/ Join \/ OnConnect \/ Launch \/ InitCatchUp \/ Resume \/ FetchAnswer \/ FetchFails
           \/ PassEnd \/ CloseThread \/ (\E t \in Thread : OpenThread(t) \/ ReadUnread(t))
           \/ UNCHANGED vars
  BY <1>8 DEF Join, OnConnect, Launch, InitCatchUp, Resume, CatchUp, FetchAnswer, FetchFails,
              PassEnd, CloseThread, OpenThread, ReadUnread, vars
<1>9. CASE Drop \/ ServerCrash \/ Reload
  BY <1>9 DEF Drop, ServerCrash, LoseSocket, Reload
<1>10. QED
  BY <1>1, <1>2, <1>3, <1>4, <1>5, <1>6, <1>7, <1>8, <1>9 DEF Next

\* No receipt runs ahead of the client: each is of a message that a handler of this
\* session has taken up, or that is in the history (page.tsx:733-812, 1042-1117).
THEOREM ReceiptsFollowHandlers == Spec => AckOnlyTakenUp
<1>1. IInv /\ [Next]_vars => [\A r \in uplink' \ uplink : r.msg \in seen' \cup entered']_uplink
  BY EmitsTakenUp
<1>2. QED BY IInvHolds, <1>1, PTL DEF Spec, AckOnlyTakenUp

-----------------------------------------------------------------------------
(* Acknowledged messages, when the handlers themselves do not fail         *)

\* In one uninterrupted session whose handlers meet no error, every message
\* taken up is entered or on its way, and only those are acknowledged.
NoLoss ==
    /\ keyUsed \cup toMark \subseteq seen
    /\ \A m \in Msg : pc[m] = "decrypting" => m \notin keyUsed
    /\ \A m \in seen : m \in entered \/ pc[m] \in {"decrypting"} \cup InHand
    /\ \A r \in uplink \cup jobs : r.msg \in seen
    /\ \A m \in Msg : row[m] \in {"DELIVERED", "READ"} => m \in seen

\* Without faults of the handler, every message taken up is in hand or entered.
LEMMA NoLossStep ==
  ASSUME IInv, NoLoss, [Next]_vars, Faults \cap HandlerFaults = {}
  PROVE  NoLoss'
<1> USE DEF IInv, TypeOK, OneEntry, NoLoss, InHand, HandlerFaults, Receipt,
            Delivered, Read, Viewed, serverVars, netVars, handlerVars,
            localVars, screenVars, syncVars
<1>1. ASSUME NEW m \in Msg, Relay(m) \/ Persist(m) PROVE NoLoss'
  BY <1>1 DEF Relay, Persist
<1>2. ASSUME NEW m \in Msg, ReceiveLive(m) PROVE NoLoss'
  BY <1>2 DEF ReceiveLive, Begin, Emit
<1>3. ASSUME NEW m \in Msg, PassMessage(m) PROVE NoLoss'
  BY <1>3 DEF PassMessage, Begin, Emit
<1>4. ASSUME NEW m \in Msg, DecryptOk(m) PROVE NoLoss'
  BY <1>4 DEF DecryptOk, OnlyRelayed
<1>5. ASSUME NEW m \in Msg, DecryptFails(m) \/ LookupFails(m) PROVE NoLoss'
  BY <1>5 DEF DecryptFails, LookupFails
<1>6. ASSUME NEW m \in Msg, EnsureThread(m) PROVE NoLoss'
  BY <1>6 DEF EnsureThread
<1>7. ASSUME NEW m \in Msg, AppendWrite(m) PROVE NoLoss'
  <2>1. m \in seen
    BY <1>7 DEF AppendWrite
  <2>2. QED BY <1>7, <2>1 DEF AppendWrite
<1>8. ASSUME NEW m \in Msg, \/ MarkNext(m) \/ OpenViewOnce(m)
                            \/ DecideOpen(m) \/ AckShown(m)
      PROVE NoLoss'
  BY <1>8 DEF MarkNext, OpenViewOnce, DecideOpen, AckShown, Finish, Emit,
              ReadsEntered
<1>9. ASSUME NEW r \in Receipt,
             ReceiveReceipt(r) \/ ApplyReceipt(r) \/ GiveUpReceipt(r)
      PROVE NoLoss'
  BY <1>9 DEF ReceiveReceipt, ApplyReceipt, GiveUpReceipt, ResumeAfterAck,
              Finish, Emit, StatusOf, ReadsEntered
<1>10. CASE Join \/ OnConnect \/ Launch \/ InitCatchUp \/ Resume
  BY <1>10 DEF Join, OnConnect, Launch, InitCatchUp, Resume
<1>11. CASE Drop \/ ServerCrash
  BY <1>11 DEF Drop, ServerCrash, LoseSocket, ReadsEntered
<1>12. CASE FetchAnswer \/ FetchFails \/ PassEnd \/ CloseThread
  BY <1>12 DEF FetchAnswer, FetchFails, PassEnd, CloseThread
<1>13. CASE Reload
  BY <1>13 DEF Reload
<1>14. ASSUME NEW t \in Thread, OpenThread(t) \/ ReadUnread(t)
      PROVE NoLoss'
  BY <1>14 DEF OpenThread, ReadUnread
<1>15. CASE UNCHANGED vars
  BY <1>15 DEF vars
<1>16. QED
  BY <1>1, <1>2, <1>3, <1>4, <1>5, <1>6, <1>7, <1>8, <1>9, <1>10, <1>11,
     <1>12, <1>13, <1>14, <1>15 DEF Next

\* Lost frames, server restarts, failed creates and failed inbox requests
\* never make the server forget a message its recipient does not get.
THEOREM AcknowledgedIsEntered == Spec => []AckedIsEntered
<1>1. CASE Faults \cap HandlerFaults # {}
  <2>1. AckedIsEntered
    BY <1>1 DEF AckedIsEntered
  <2>2. QED BY <2>1, PTL
<1>2. CASE Faults \cap HandlerFaults = {}
  <2>1. Init => NoLoss
    BY DEF Init, NoLoss
  <2>2. IInv /\ NoLoss /\ [Next]_vars => NoLoss'
    BY <1>2, NoLossStep
  <2>3. NoLoss => AckedIsEntered
    BY DEF NoLoss, AckedIsEntered
  <2>4. QED BY IInvHolds, <2>1, <2>2, <2>3, PTL DEF Spec
<1>3. QED BY <1>1, <1>2
=============================================================================
