----------------------------- MODULE CallMedia -----------------------------
(***************************************************************************)
(* One end's outgoing picture in a video call: the camera button, the      *)
(* camera switch and screen sharing (web/lib/callClient.ts,                *)
(* nativeScreenShare.ts, page.tsx, CallOverlay.tsx), each of which waits   *)
(* for a device, a picker or the sender, while the others and the end of   *)
(* the call go on.  No button is disabled while an earlier tap is at work. *)
(*                                                                         *)
(* A track is named by the tap that opened it; 0 is the camera opened with *)
(* the call.  Devices, pickers and the RTP sender are external.            *)
(***************************************************************************)
EXTENDS Naturals

CONSTANT Taps  \* bound: buttons tapped during the call

ASSUME MediaAssumption == Taps \in Nat

VARIABLES
    native,    \* the Android shell, not a browser
    tap,       \* what each tap is about and waits for
    stream,    \* localStream: tracks that have not been removed
    live,      \* tracks that capture
    sent,      \* the sender's track; Nothing when there is none
    cameraOn,  \* cameraOn
    sharing,   \* screenSharing
    capture,   \* the native capture: off, running, and whether its stop is held
    disposed,
    told,      \* the last call:camera event: what the other side shows
    videoPaused, \* the quality monitor has stopped the picture
    calm,      \* no tap was made while another was at work (auxiliary)
    shared,    \* a screen was shared (auxiliary)
    late,      \* screens picked when the call was over (auxiliary)
    dark,      \* a switch found neither camera (auxiliary)
    relit      \* the camera was turned on while video was paused (auxiliary)

mediaVars == <<native, tap, stream, live, sent, cameraOn, sharing, capture,
               disposed, told, videoPaused, calm, shared, late, dark, relit>>

Tap == 1 .. Taps
Track == 0 .. Taps
Nothing == Taps + 1
Idle == [kind |-> "none", at |-> "idle"]

MediaTypeOK ==
    /\ native \in BOOLEAN
    /\ tap \in [Tap -> [kind : {"none", "on", "off", "switch", "share", "unshare"},
                        at : {"idle", "asking", "asking again", "replacing", "clearing", "done"}]]
    /\ stream \subseteq Track /\ live \subseteq Track
    /\ sent \in Track \cup {Nothing}
    /\ cameraOn \in BOOLEAN /\ sharing \in BOOLEAN
    /\ capture \in {"off", "held", "loose"}
    /\ disposed \in BOOLEAN /\ told \in BOOLEAN /\ videoPaused \in BOOLEAN
    /\ calm \in BOOLEAN /\ shared \in BOOLEAN
    /\ late \subseteq Track /\ dark \in BOOLEAN /\ relit \in BOOLEAN

MediaInit ==
    /\ native \in BOOLEAN
    /\ tap = [n \in Tap |-> Idle]
    /\ stream = {0} /\ live = {0} /\ sent = 0
    /\ cameraOn = TRUE /\ sharing = FALSE /\ capture = "off"
    /\ disposed = FALSE /\ told = TRUE /\ videoPaused = FALSE
    /\ calm = TRUE /\ shared = FALSE /\ late = {} /\ dark = FALSE /\ relit = FALSE

-----------------------------------------------------------------------------
AtWork == {n \in Tap : tap[n].at \notin {"idle", "done"}}
NextTap == {n \in Tap : tap[n].at = "idle" /\ \A m \in Tap : m < n => tap[m].at # "idle"}

\* Tap n begins: what it waits for first, and whether it stops the picture now.
Begin(n, kind, at, stops) ==
    /\ ~disposed /\ n \in NextTap
    /\ tap' = [tap EXCEPT ![n] = [kind |-> kind, at |-> at]]
    /\ live' = IF stops THEN live \ stream ELSE live
    /\ stream' = IF stops THEN {} ELSE stream
    /\ calm' = (calm /\ AtWork = {})
    /\ UNCHANGED <<native, sent, cameraOn, disposed, told, videoPaused, late, dark, relit>>

\* toggleCallCamera.
ToggleCamera(n) ==
    /\ IF cameraOn THEN Begin(n, "off", "clearing", TRUE) ELSE Begin(n, "on", "asking", FALSE)
    /\ UNCHANGED <<sharing, capture, shared>>

\* switchCallCamera; its button is there while the camera is on.
SwitchCamera(n) ==
    /\ cameraOn
    /\ Begin(n, "switch", "asking", TRUE)
    /\ UNCHANGED <<sharing, capture, shared>>

\* toggleCallScreenShare.
StartShare(n) ==
    /\ ~sharing
    /\ Begin(n, "share", "asking", FALSE)
    /\ shared' = TRUE
    /\ UNCHANGED <<sharing, capture>>

StopShare(n) ==
    /\ sharing
    /\ Begin(n, "unshare", "asking", TRUE)
    /\ sharing' = FALSE
    /\ capture' = IF capture = "held" THEN "off" ELSE capture
    /\ UNCHANGED shared

\* The browser's own "Stop sharing": onended, set when the share is complete,
\* stops it in the client too.
BrowserStops(n) ==
    /\ ~native /\ sent \in live /\ sent # 0 /\ tap[sent].kind = "share"
    /\ StopShare(n)

\* The system ends the native capture: stop() on the track, which is told nobody.
SystemStops ==
    /\ native /\ capture # "off"
    /\ capture' = "off"
    /\ live' = live \ {n \in Tap : tap[n].kind = "share"}
    /\ UNCHANGED <<native, tap, stream, sent, cameraOn, sharing, disposed, told, videoPaused, calm, shared, late, dark, relit>>

-----------------------------------------------------------------------------
Go(n, at) == tap' = [tap EXCEPT ![n].at = at]

\* Mutation: a camera granted after the end of the call is kept.
CameraOpensLate(n) ==
    /\ tap[n].kind \in {"on", "switch", "unshare"} /\ tap[n].at \in {"asking", "asking again"}
    /\ Go(n, "replacing")
    /\ stream' = stream \cup {n} /\ live' = live \cup {n}
    /\ UNCHANGED <<native, sent, cameraOn, sharing, capture, disposed, told, videoPaused, calm, shared, late, dark, relit>>

\* getUserMedia grants the camera.  getMedia stops it if the call is over.
CameraOpens(n) ==
    /\ tap[n].kind \in {"on", "switch", "unshare"} /\ tap[n].at \in {"asking", "asking again"}
    /\ IF disposed
       \* a switch takes that for a failure and asks once more
       THEN /\ Go(n, IF tap[n].kind = "switch" /\ tap[n].at = "asking" THEN "asking again" ELSE "done")
            /\ UNCHANGED <<stream, live>>
       ELSE /\ Go(n, "replacing")
            /\ stream' = stream \cup {n} /\ live' = live \cup {n}
    /\ UNCHANGED <<native, sent, cameraOn, sharing, capture, disposed, told, videoPaused, calm, shared, late, dark, relit>>

\* It does not: a switch goes back to the camera it had, the end of a share
\* clears the sender, turning the camera on fails.
CameraFails(n) ==
    /\ tap[n].kind \in {"on", "switch", "unshare"} /\ tap[n].at \in {"asking", "asking again"}
    /\ Go(n, CASE tap[n].kind = "switch" /\ tap[n].at = "asking" -> "asking again"
               [] tap[n].kind = "unshare" /\ ~disposed -> "clearing"
               [] OTHER -> "done")
    /\ dark' = (dark \/ (tap[n].kind = "switch" /\ tap[n].at = "asking again"))
    /\ UNCHANGED <<native, stream, live, sent, cameraOn, sharing, capture, disposed, told, videoPaused, calm, shared, late, relit>>

\* The picker is answered.  The client does not look whether the call is over.
ScreenPicked(n) ==
    /\ tap[n] = [kind |-> "share", at |-> "asking"]
    /\ live' = (live \ stream) \cup {n}
    /\ stream' = {n}
    /\ Go(n, "replacing")
    /\ capture' = IF native THEN "loose" ELSE capture
    /\ late' = IF disposed THEN late \cup {n} ELSE late
    /\ UNCHANGED <<native, sent, cameraOn, sharing, disposed, told, videoPaused, calm, shared, dark, relit>>

PickerCancelled(n) ==
    /\ tap[n] = [kind |-> "share", at |-> "asking"]
    /\ Go(n, "done")
    /\ UNCHANGED <<native, stream, live, sent, cameraOn, sharing, capture, disposed, told, videoPaused, calm, shared, late, dark, relit>>

\* Mutation: the other side is told of a camera turned on, not of one turned off.
ReplacedTellsOn(n) ==
    /\ tap[n].at \in {"replacing", "clearing"}
    /\ Go(n, "done")
    /\ IF disposed
       THEN UNCHANGED <<sent, cameraOn, sharing, capture, told, relit>>
       ELSE /\ sent' = IF tap[n].at = "replacing" THEN n ELSE Nothing
            /\ cameraOn' = IF tap[n].kind = "switch" THEN cameraOn ELSE tap[n].at = "replacing"
            /\ sharing' = (sharing \/ tap[n].kind = "share")
            /\ capture' = IF tap[n].kind = "share" /\ capture = "loose" THEN "held" ELSE capture
            /\ told' = IF tap[n].kind = "on" THEN cameraOn' ELSE told
            /\ relit' = (relit \/ (tap[n].kind = "on" /\ videoPaused))
    /\ UNCHANGED <<native, stream, live, disposed, videoPaused, calm, shared, late, dark>>

\* replaceTrack is done; the sender of a closed connection refuses.  After the
\* camera button the page tells the other side whether the camera is on, not
\* whether video is paused.
Replaced(n) ==
    /\ tap[n].at \in {"replacing", "clearing"}
    /\ Go(n, "done")
    /\ IF disposed
       THEN UNCHANGED <<sent, cameraOn, sharing, capture, told, relit>>
       ELSE /\ sent' = IF tap[n].at = "replacing" THEN n ELSE Nothing
            /\ cameraOn' = IF tap[n].kind = "switch" THEN cameraOn ELSE tap[n].at = "replacing"
            /\ sharing' = (sharing \/ tap[n].kind = "share")
            /\ capture' = IF tap[n].kind = "share" /\ capture = "loose" THEN "held" ELSE capture
            /\ told' = IF tap[n].kind \in {"on", "off"} THEN cameraOn' ELSE told
            /\ relit' = (relit \/ (tap[n].kind = "on" /\ videoPaused))
    /\ UNCHANGED <<native, stream, live, disposed, videoPaused, calm, shared, late, dark>>

\* The quality monitor pauses video or takes it up again (sampleQuality, modelled
\* in CallQuality): the page tells the other side, but of a camera that is off.
VideoPaused ==
    /\ ~disposed
    /\ videoPaused' = ~videoPaused
    /\ told' = IF cameraOn THEN ~videoPaused' ELSE told
    /\ relit' = FALSE
    /\ UNCHANGED <<native, tap, stream, live, sent, cameraOn, sharing, capture, disposed, calm, shared, late, dark>>

\* dispose: every track of the stream is stopped, the native capture if its stop
\* is held.
Dispose ==
    /\ ~disposed
    /\ disposed' = TRUE
    /\ live' = live \ stream
    /\ sent' = Nothing /\ cameraOn' = FALSE
    /\ capture' = IF capture = "held" THEN "off" ELSE capture
    /\ UNCHANGED <<native, tap, stream, sharing, told, videoPaused, calm, shared, late, dark, relit>>

MediaNext ==
    \/ \E n \in Tap :
        \/ ToggleCamera(n) \/ SwitchCamera(n) \/ StartShare(n) \/ StopShare(n) \/ BrowserStops(n)
        \/ CameraOpens(n) \/ CameraFails(n) \/ ScreenPicked(n) \/ PickerCancelled(n) \/ Replaced(n)
    \/ SystemStops \/ VideoPaused \/ Dispose

MediaSpec == MediaInit /\ [][MediaNext]_mediaVars

-----------------------------------------------------------------------------
(* What must hold. *)

\* When the call is over and every permission prompt has been answered, no
\* camera is left on, in whatever order prompts, taps and the hang-up came; a
\* screen is, if it was picked after the end.  During the call a camera shown as
\* off captures nothing, unless a button was tapped while another was at work.
CamerasReleased ==
    AtWork = {} =>
        /\ disposed => live \subseteq late
        /\ ~disposed /\ calm /\ ~cameraOn => live = {} /\ sent = Nothing

\* As long as no screen was shared, the other side shows a picture just when the
\* camera is on and video is not paused, however taps and pauses overlap, except
\* that a camera turned on while video is paused is shown as if it were not; and
\* it is told of a picture just when a camera has one to send, unless taps
\* overlapped or a switch found no camera.
PeerToldCamera ==
    ~disposed /\ ~shared =>
        /\ told = (cameraOn /\ (~videoPaused \/ relit))
        /\ calm /\ ~dark /\ AtWork = {} => told = (sent \in live /\ (~videoPaused \/ relit))
=============================================================================
