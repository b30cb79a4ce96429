------------------------------- MODULE MCLive --------------------------------
(***************************************************************************)
(* What must come to an end, in the components that retry and wait:        *)
(* transfers of files, the delivery check of a message, a link that        *)
(* reconnects, and a video that was taken away.  As in MCParts one of them *)
(* is at work; no fair step of another is enabled where that one begins,   *)
(* so fairness asks nothing of it.                                         *)
(***************************************************************************)
EXTENDS Attachments, Presence, CallLink, CallQuality

VARIABLE part  \* the component at work

liveVars == <<part, attachVars, presenceVars, linkVars, qualityVars>>

Init ==
    /\ part \in {"attachments", "presence", "link", "quality"}
    /\ AttachInit /\ PresenceInit /\ LinkInit /\ QualityInit

Next ==
    \/ /\ part = "attachments" /\ AttachNext
       /\ UNCHANGED <<part, presenceVars, linkVars, qualityVars>>
    \/ /\ part = "presence" /\ PresenceNext
       /\ UNCHANGED <<part, attachVars, linkVars, qualityVars>>
    \/ /\ part = "link" /\ LinkNext
       /\ UNCHANGED <<part, attachVars, presenceVars, qualityVars>>
    \/ /\ part = "quality" /\ QualityNext
       /\ UNCHANGED <<part, attachVars, presenceVars, linkVars>>

Fairness == AttachFairness /\ PresenceFairness /\ LinkFairness /\ QualityFairness

FairSpec == Init /\ [][Next]_liveVars /\ Fairness
=============================================================================
