------------------------------ MODULE MCParts -------------------------------
(***************************************************************************)
(* The components that share no state with one another, side by side:      *)
(* what the server keeps (accounts, groups), what the device keeps (a      *)
(* conversation, the chat list), and what goes over a network or waits for *)
(* a device with retries and timers (attachments, presence and pushes,     *)
(* typing, and the link, the camera and the quality of a call).            *)
(*                                                                         *)
(* No step of one is enabled or changed by another, so each behaviour here *)
(* is one of a single component, chosen at the start, while the others     *)
(* stay as they are.                                                       *)
(***************************************************************************)
EXTENDS Accounts, Groups, Conversation, Roster, Attachments, Presence, Typing,
        CallLink, CallMedia, CallQuality, VoiceRecorder, VoicePlayer, Screens

VARIABLE part  \* the component at work

partsVars == <<part, accountVars, groupVars, conversationVars, rosterVars, attachVars,
               presenceVars, typingVars, linkVars, mediaVars, qualityVars, recorderVars,
               playerVars, screenVars>>

Part == {"accounts", "groups", "conversation", "roster", "attachments",
         "presence", "typing", "link", "media", "quality", "recorder", "player", "screens"}

Init ==
    /\ part \in Part
    /\ AccountInit /\ GroupInit /\ ConversationInit /\ RosterInit
    /\ AttachInit /\ PresenceInit /\ TypingInit
    /\ LinkInit /\ MediaInit /\ QualityInit /\ RecorderInit
    /\ PlayerInit /\ ScreensInit
    \* which shell it is matters to the media only, an earlier chat to the list only
    /\ native => part = "media"
    /\ rows # Nowhere \/ peers # {} => part = "roster"

\* Every component but p stays as it is.
Rest(p) ==
    /\ part = p /\ UNCHANGED part
    /\ p # "accounts" => UNCHANGED accountVars
    /\ p # "groups" => UNCHANGED groupVars
    /\ p # "conversation" => UNCHANGED conversationVars
    /\ p # "roster" => UNCHANGED rosterVars
    /\ p # "attachments" => UNCHANGED attachVars
    /\ p # "presence" => UNCHANGED presenceVars
    /\ p # "typing" => UNCHANGED typingVars
    /\ p # "link" => UNCHANGED linkVars
    /\ p # "media" => UNCHANGED mediaVars
    /\ p # "quality" => UNCHANGED qualityVars
    /\ p # "recorder" => UNCHANGED recorderVars
    /\ p # "player" => UNCHANGED playerVars
    /\ p # "screens" => UNCHANGED screenVars

Next ==
    \/ Rest("accounts") /\ AccountNext
    \/ Rest("groups") /\ GroupNext
    \/ Rest("conversation") /\ ConversationNext
    \/ Rest("roster") /\ RosterNext
    \/ Rest("attachments") /\ AttachNext
    \/ Rest("presence") /\ PresenceNext
    \/ Rest("typing") /\ TypingNext
    \/ Rest("link") /\ LinkNext
    \/ Rest("media") /\ MediaNext
    \/ Rest("quality") /\ QualityNext
    \/ Rest("recorder") /\ RecorderNext
    \/ Rest("player") /\ PlayerNext
    \/ Rest("screens") /\ ScreensNext

Spec == Init /\ [][Next]_partsVars

TypeOK ==
    /\ part \in Part
    /\ AccountTypeOK /\ GroupTypeOK /\ ConversationTypeOK /\ RosterTypeOK
    /\ AttachTypeOK /\ PresenceTypeOK /\ TypingTypeOK
    /\ LinkTypeOK /\ MediaTypeOK /\ QualityTypeOK /\ RecorderTypeOK
    /\ PlayerTypeOK /\ ScreensTypeOK
=============================================================================
