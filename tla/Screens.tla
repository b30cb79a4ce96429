------------------------------- MODULE Screens -------------------------------
(***************************************************************************)
(* What lies on top of what in the Android shell: the panels of the chat   *)
(* page, the open thread, the call overlay with controls that hide          *)
(* themselves, and the hardware back button (page.tsx, CallOverlay.tsx).   *)
(*                                                                         *)
(* An effect runs with the render that caused it, and a ref follows its    *)
(* state at once.  The modals that the back button does not know are the   *)
(* layer "modal"; they are drawn only over an open thread.                 *)
(***************************************************************************)
EXTENDS Naturals, Sequences

VARIABLES
    layers,       \* panels whose "show" state is set
    thread,       \* activePeer or activeGroup is set
    exitPrompt,   \* exitPromptArmedRef
    exited,
    callStatus,   \* "none" for null, and then there is no overlay
    callVideo,
    minimized,
    callReconnecting,
    uiVisible,    \* the controls of a video call
    trayOpen,     \* the reactions
    hideTimer     \* hideTimerRef runs

pageVars == <<layers, thread, exitPrompt, exited>>
overlayVars == <<callStatus, callVideo, minimized, callReconnecting, uiVisible, trayOpen, hideTimer>>
screenVars == <<pageVars, overlayVars>>

\* The panels the back button closes, in its order.
BackOrder == <<"viewer", "groupInfo", "newGroup", "profile", "contact", "emoji">>

Closable == {BackOrder[i] : i \in 1 .. Len(BackOrder)}
Layer == Closable \cup {"modal"}

ScreensTypeOK ==
    /\ layers \subseteq Layer
    /\ callStatus \in {"none", "outgoing", "incoming", "connected"}
    /\ thread \in BOOLEAN /\ exitPrompt \in BOOLEAN /\ exited \in BOOLEAN
    /\ callVideo \in BOOLEAN /\ minimized \in BOOLEAN /\ callReconnecting \in BOOLEAN
    /\ uiVisible \in BOOLEAN /\ trayOpen \in BOOLEAN /\ hideTimer \in BOOLEAN

ScreensInit ==
    /\ layers = {} /\ thread = FALSE /\ exitPrompt = FALSE /\ exited = FALSE
    /\ callStatus = "none" /\ callVideo = FALSE /\ minimized = FALSE /\ callReconnecting = FALSE
    /\ uiVisible = TRUE /\ trayOpen = FALSE /\ hideTimer = FALSE

-----------------------------------------------------------------------------
(* The page. *)

OpenLayer(layer) ==
    /\ ~exited /\ layer \notin layers
    /\ thread \/ layer \in {"newGroup", "profile"}
    /\ layers' = layers \cup {layer}
    /\ UNCHANGED <<thread, exitPrompt, exited, overlayVars>>

CloseLayer(layer) ==
    /\ ~exited /\ layer \in layers
    /\ layers' = layers \ {layer}
    /\ UNCHANGED <<thread, exitPrompt, exited, overlayVars>>

\* handleSelectConversation, handleSelectGroup
SelectThread ==
    /\ ~exited
    /\ thread' = TRUE
    /\ layers' = layers \ {"emoji", "contact"}
    /\ UNCHANGED <<exitPrompt, exited, overlayVars>>

\* handleBackToList, also from the button in the thread's header
BackToList ==
    /\ ~exited /\ thread
    /\ thread' = FALSE
    /\ layers' = layers \ {"contact"}
    /\ UNCHANGED <<exitPrompt, exited, overlayVars>>

\* The two conditions under which the call takes the back button.
OverlayUp == callStatus # "none" /\ ~minimized

\* The first of: the innermost panel closes; a call that is not minimized is, or a
\* ring swallows the press; handleBackToList; the app closes, or warns.
Back ==
    /\ ~exited
    /\ IF layers \cap Closable # {}
       THEN /\ \E i \in DOMAIN BackOrder :
                /\ BackOrder[i] \in layers
                /\ \A j \in 1 .. i - 1 : BackOrder[j] \notin layers
                /\ layers' = layers \ {BackOrder[i]}
            /\ UNCHANGED <<thread, exitPrompt, exited, overlayVars>>
       ELSE IF OverlayUp
       THEN /\ minimized' = (callStatus # "incoming")
            /\ UNCHANGED <<pageVars, callStatus, callVideo, callReconnecting, uiVisible, trayOpen, hideTimer>>
       ELSE IF thread
       THEN BackToList
       ELSE /\ exitPrompt' = TRUE
            /\ exited' = exitPrompt
            /\ UNCHANGED <<layers, thread, overlayVars>>

\* Two seconds after the warning.
ExitPromptEnds ==
    /\ exitPrompt /\ ~exited
    /\ exitPrompt' = FALSE
    /\ UNCHANGED <<layers, thread, exited, overlayVars>>

-----------------------------------------------------------------------------
(* The call overlay. *)

\* armHideTimer and the effect on it: whenever what it depends on changes, the
\* controls come back, and the timer starts anew if they may hide.
MayHide == callVideo /\ callStatus = "connected" /\ ~trayOpen /\ ~callReconnecting
Rearm == uiVisible' = TRUE /\ hideTimer' = MayHide'

\* A call starts, is answered or ends; the overlay is new for each call.
CallChanges(status, video) ==
    /\ ~exited
    /\ \/ callStatus = "none" /\ status \in {"outgoing", "incoming"} /\ callVideo' = video
       \/ callStatus \in {"outgoing", "incoming"} /\ status = "connected" /\ callVideo' = callVideo
       \/ callStatus # "none" /\ status = "none" /\ callVideo' = FALSE
    /\ callStatus' = status
    /\ minimized' = (minimized /\ status # "none")
    /\ callReconnecting' = FALSE /\ trayOpen' = FALSE
    /\ Rearm
    /\ UNCHANGED pageVars

LinkChanges ==
    /\ callStatus = "connected" /\ ~exited
    /\ callReconnecting' = ~callReconnecting
    /\ UNCHANGED <<pageVars, callStatus, callVideo, minimized, trayOpen>>
    /\ Rearm

Minimize(to) ==
    /\ callStatus \in {"outgoing", "connected"} /\ ~exited
    /\ minimized' = to
    /\ UNCHANGED <<pageVars, callStatus, callVideo, callReconnecting, uiVisible, trayOpen, hideTimer>>

\* Controls that the screen does not show cannot be tapped (chromeHidden).
ControlsShown == uiVisible \/ ~callVideo \/ callStatus # "connected" \/ callReconnecting

ToggleTray ==
    /\ OverlayUp /\ callStatus = "connected" /\ ControlsShown /\ ~exited
    /\ trayOpen' = ~trayOpen
    /\ UNCHANGED <<pageVars, callStatus, callVideo, minimized, callReconnecting>>
    /\ Rearm

\* handleStageTap: the tray closes, or the controls of a live video call go or come.
StageTap ==
    /\ OverlayUp /\ ~exited
    /\ UNCHANGED <<pageVars, callStatus, callVideo, minimized, callReconnecting>>
    /\ IF trayOpen
       THEN trayOpen' = FALSE /\ Rearm
       ELSE /\ callVideo /\ callStatus = "connected"
            /\ uiVisible' = ~uiVisible
            /\ hideTimer' = (~uiVisible /\ MayHide)
            /\ UNCHANGED trayOpen

\* CONTROLS_HIDE_MS without a tap.
ControlsHide ==
    /\ hideTimer /\ ~exited
    /\ uiVisible' = FALSE /\ hideTimer' = FALSE
    /\ UNCHANGED <<pageVars, callStatus, callVideo, minimized, callReconnecting, trayOpen>>

ScreensNext ==
    \/ \E layer \in Layer : OpenLayer(layer) \/ CloseLayer(layer)
    \/ SelectThread \/ BackToList \/ Back \/ ExitPromptEnds
    \/ \E status \in {"none", "outgoing", "incoming", "connected"}, video \in BOOLEAN :
        CallChanges(status, video)
    \/ LinkChanges \/ ToggleTray \/ StageTap \/ ControlsHide
    \/ \E to \in BOOLEAN : Minimize(to)

ScreensSpec == ScreensInit /\ [][ScreensNext]_screenVars

-----------------------------------------------------------------------------
(* What must hold. *)

\* "Hanging up must stay one tap away": the timer that hides the controls never
\* runs on while the link is down, the reactions are open or the call is not a live
\* video call, whichever of taps, link changes and answers came in between; and the
\* reactions are open only over controls that show.
ControlsReachable ==
    /\ hideTimer => MayHide
    /\ ~uiVisible => callVideo /\ callStatus = "connected" /\ ~trayOpen
=============================================================================
