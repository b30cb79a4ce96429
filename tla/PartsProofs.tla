---------------------------- MODULE PartsProofs ----------------------------
(***************************************************************************)
(* The components of MCParts side by side, for every value of all their    *)
(* constants: whatever is proved of one of them alone holds of it there.   *)
(***************************************************************************)
EXTENDS MCParts, AttachmentsProofs, CallLinkProofs, DeviceProofs, ServerProofs

\* A step of the whole is a step of each component or leaves it as it is.
LEMMA PartsSteps ==
  ASSUME [Next]_partsVars
  PROVE  /\ [AccountNext]_accountVars
         /\ [GroupNext]_groupVars
         /\ [ConversationNext]_conversationVars
         /\ [RosterNext]_rosterVars
         /\ [AttachNext]_attachVars
         /\ [PresenceNext]_presenceVars
         /\ [TypingNext]_typingVars
         /\ [LinkNext]_linkVars
         /\ [MediaNext]_mediaVars
         /\ [QualityNext]_qualityVars
         /\ [RecorderNext]_recorderVars
         /\ [PlayerNext]_playerVars
         /\ [ScreensNext]_screenVars
<1>1. CASE Rest("accounts") /\ AccountNext
  BY <1>1 DEF Rest
<1>2. CASE Rest("groups") /\ GroupNext
  BY <1>2 DEF Rest
<1>3. CASE Rest("conversation") /\ ConversationNext
  BY <1>3 DEF Rest
<1>4. CASE Rest("roster") /\ RosterNext
  BY <1>4 DEF Rest
<1>5. CASE Rest("attachments") /\ AttachNext
  BY <1>5 DEF Rest
<1>6. CASE Rest("presence") /\ PresenceNext
  BY <1>6 DEF Rest
<1>7. CASE Rest("typing") /\ TypingNext
  BY <1>7 DEF Rest
<1>8. CASE Rest("link") /\ LinkNext
  BY <1>8 DEF Rest
<1>9. CASE Rest("media") /\ MediaNext
  BY <1>9 DEF Rest
<1>10. CASE Rest("quality") /\ QualityNext
  BY <1>10 DEF Rest
<1>11. CASE Rest("recorder") /\ RecorderNext
  BY <1>11 DEF Rest
<1>12. CASE Rest("player") /\ PlayerNext
  BY <1>12 DEF Rest
<1>13. CASE Rest("screens") /\ ScreensNext
  BY <1>13 DEF Rest
<1>14. CASE UNCHANGED partsVars
  BY <1>14 DEF partsVars
<1>15. QED
  BY <1>1, <1>2, <1>3, <1>4, <1>5, <1>6, <1>7, <1>8, <1>9, <1>10, <1>11, <1>12, <1>13, <1>14 DEF Next

\* So the side-by-side composition implements every component's own specification:
\* no step of one is a step of another, which is what MCParts takes from the code.
THEOREM PartsAreComponents ==
  Spec => /\ AccountSpec
          /\ GroupSpec
          /\ ConversationSpec
          /\ RosterSpec
          /\ AttachSpec
          /\ PresenceSpec
          /\ TypingSpec
          /\ LinkSpec
          /\ MediaSpec
          /\ QualitySpec
          /\ RecorderSpec
          /\ PlayerSpec
          /\ ScreensSpec
<1>0. Init => AccountInit /\ GroupInit /\ ConversationInit /\ RosterInit /\ AttachInit /\ PresenceInit /\ TypingInit
             /\ LinkInit /\ MediaInit /\ QualityInit /\ RecorderInit /\ PlayerInit /\ ScreensInit
  BY DEF Init
<1>1. Spec => AccountSpec
  BY <1>0, PartsSteps, PTL DEF Spec, AccountSpec
<1>2. Spec => GroupSpec
  BY <1>0, PartsSteps, PTL DEF Spec, GroupSpec
<1>3. Spec => ConversationSpec
  BY <1>0, PartsSteps, PTL DEF Spec, ConversationSpec
<1>4. Spec => RosterSpec
  BY <1>0, PartsSteps, PTL DEF Spec, RosterSpec
<1>5. Spec => AttachSpec
  BY <1>0, PartsSteps, PTL DEF Spec, AttachSpec
<1>6. Spec => PresenceSpec
  BY <1>0, PartsSteps, PTL DEF Spec, PresenceSpec
<1>7. Spec => TypingSpec
  BY <1>0, PartsSteps, PTL DEF Spec, TypingSpec
<1>8. Spec => LinkSpec
  BY <1>0, PartsSteps, PTL DEF Spec, LinkSpec
<1>9. Spec => MediaSpec
  BY <1>0, PartsSteps, PTL DEF Spec, MediaSpec
<1>10. Spec => QualitySpec
  BY <1>0, PartsSteps, PTL DEF Spec, QualitySpec
<1>11. Spec => RecorderSpec
  BY <1>0, PartsSteps, PTL DEF Spec, RecorderSpec
<1>12. Spec => PlayerSpec
  BY <1>0, PartsSteps, PTL DEF Spec, PlayerSpec
<1>13. Spec => ScreensSpec
  BY <1>0, PartsSteps, PTL DEF Spec, ScreensSpec
<1>14. QED
  BY <1>1, <1>2, <1>3, <1>4, <1>5, <1>6, <1>7, <1>8, <1>9, <1>10, <1>11, <1>12, <1>13

\* Every variable of every component keeps its type, whatever the constants are.
THEOREM PartsTypeCorrect == Spec => []TypeOK
<1>1. Init => part \in Part
  BY DEF Init
<1>2. part \in Part /\ [Next]_partsVars => (part \in Part)'
  BY DEF Next, Rest, partsVars
<1>3. Spec => [](part \in Part)
  BY <1>1, <1>2, PTL DEF Spec
<1>4. HIInv /\ SIInv => ConversationTypeOK
  BY DEF HIInv, SIInv, HistoryTypeOK, ConversationTypeOK, Receipt
<1>5. RosterIInv => RosterTypeOK
  BY RosterTypeFacts DEF RosterIInv
<1>6. /\ AccountIInv => AccountTypeOK
      /\ GroupIInv => GroupTypeOK
      /\ SightIInv => PresenceTypeOK
      /\ TypingIInv => TypingTypeOK
      /\ AIInv => AttachTypeOK
      /\ LIInv => LinkTypeOK
      /\ MIInv => MediaTypeOK
      /\ QIInv => QualityTypeOK
      /\ NIInv => RecorderTypeOK
      /\ PIInv => PlayerTypeOK
  BY DEF AccountIInv, GroupIInv, SightIInv, TypingIInv, AIInv, LIInv, MIInv, QIInv, NIInv, PIInv
<1>7. /\ part \in Part
      /\ AccountIInv /\ GroupIInv /\ HIInv /\ SIInv /\ RosterIInv /\ AIInv /\ SightIInv /\ TypingIInv
      /\ LIInv /\ MIInv /\ QIInv /\ NIInv /\ PIInv /\ ScreensTypeOK /\ ControlsReachable
      => TypeOK
  BY <1>4, <1>5, <1>6 DEF TypeOK
<1>8. QED
  BY <1>3, <1>7, PartsAreComponents, AccountInv, GroupInv, HistoryIInv, ScreenIInv, RosterInv,
     AttachIInv, PresenceInv, TypingInv, LinkIInv, MediaIInv, QualityIInv, RecorderIInv,
     PlayerIInv, HangUpInReach, PTL

\* What the run parts checks of its instance holds of the composition whatever the
\* constants are: every promise of the components, each with the overlaps of the
\* code's unlocked reads and writes that may break it named in the promise.  And
\* the chunk store is the write-once store of BlobStore.
THEOREM PartsAreSafe ==
  Spec => /\ [](CodesSound /\ RosterCurrent /\ HistoryRight /\ ScreenMatches /\ ListKept)
          /\ [](QuotaHeld /\ RejectedOnlyIfPurged /\ CopyDropped /\ DotCurrent /\ StoppedNotShown)
          /\ [](SameRound /\ CamerasReleased /\ PeerToldCamera /\ NoteAsMeant)
          /\ StepUpSlowly /\ WriteOnce
<1>1. Spec => [](CodesSound /\ RosterCurrent /\ HistoryRight /\ ScreenMatches /\ ListKept)
  BY PartsAreComponents, NewestCodeIsStored, RosterIsCurrent, HistoryIsRight, ScreenIsOpenChat,
     ListIsKept, PTL
<1>2. Spec => [](QuotaHeld /\ RejectedOnlyIfPurged /\ CopyDropped /\ DotCurrent /\ StoppedNotShown)
  BY PartsAreComponents, QuotaOnlyByOverlap, ConflictOnlyAfterPurge, NoCopyLeft, DotIsCurrent,
     StopIsShown, PTL
<1>3. Spec => [](SameRound /\ CamerasReleased /\ PeerToldCamera /\ NoteAsMeant)
  BY PartsAreComponents, RoundsAgree, CamerasAreReleased, PeerIsToldCamera, RecordingAsAsked, PTL
<1>4. Spec => StepUpSlowly
  BY PartsAreComponents, NoFlapping
<1>5. Spec => WriteOnce
  BY PartsAreComponents, ChunkStoreIsWriteOnce
<1>6. QED
  BY <1>1, <1>2, <1>3, <1>4, <1>5
=============================================================================
