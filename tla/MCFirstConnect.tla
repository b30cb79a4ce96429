--------------------------- MODULE MCFirstConnect ---------------------------
(***************************************************************************)
(* Inbox with a history variable.  gap records, for the session at hand,   *)
(* the rows that were already stored when its socket first joined the      *)
(* room: the messages that fell into the gap before the first connect.     *)
(***************************************************************************)
EXTENDS MCInbox

VARIABLES gap, joinedOnce

gvars == <<vars, gap, joinedOnce>>

GapInit == Init /\ gap = {} /\ joinedOnce = FALSE

GapNext ==
    /\ Next
    /\ IF boot = "closed"
       THEN gap' = {} /\ joinedOnce' = FALSE
       ELSE IF conn = "down" /\ conn' = "joined" /\ ~joinedOnce
       THEN gap' = Stored /\ joinedOnce' = TRUE
       ELSE UNCHANGED <<gap, joinedOnce>>

GapSpec == GapInit /\ [][GapNext]_gvars

\* page.tsx:708: "The very first connect is covered by init's own catch-up".
\* Once init has caught up, the socket is up and no pass is under way, no
\* message stored before the first connect is left unhandled.
FirstConnectCovered ==
    (boot = "ready" /\ conn = "up" /\ sync = "idle") => gap \subseteq seen
=============================================================================
