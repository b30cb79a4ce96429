------------------------------- MODULE Typing -------------------------------
(***************************************************************************)
(* "is typing...": what the composer of each typist announces (page.tsx,   *)
(* handleDraftChange), how the relay passes it on (signal.gateway.ts), and *)
(* the label of a group and of private chats on one receiving page.        *)
(*                                                                         *)
(* The relay passes a private event on at once; for a group it awaits the  *)
(* members, so that two events of one typist may change places, and drops  *)
(* the event of a user who is no member.  A socket that goes away takes    *)
(* the events under way with it.                                           *)
(***************************************************************************)
EXTENDS Naturals, Sequences, SequencesExt

CONSTANTS
    Typist,    \* members of the group, besides the receiver
    Contact,   \* bound: those who also have a private chat with the receiver
    MaxPings   \* bound: typing events on their way

ASSUME TypingAssumption == Contact \subseteq Typist /\ MaxPings \in Nat \ {0}

VARIABLES
    composer,  \* typingTargetRef, and the thread the idle timer will report to
    pings,     \* signal:typing events on their way to the receiver
    typing,    \* typingByThread: who is shown in each thread
    clearing,  \* typingClearTimersRef: whom each thread's timer will clear
    amiss      \* typists whose group events were lost or changed places
               \* (auxiliary)

typingVars == <<composer, pings, typing, clearing, amiss>>

\* A private chat is keyed by the peer.
Thread == Contact \cup {"group"}
ThreadsOf(t) == {"group"} \cup ({t} \cap Contact)
Ping == [from : Typist, thread : Thread, on : BOOLEAN]

TypingTypeOK ==
    /\ composer \in [Typist -> [target : Thread \cup {"none"}, idle : Thread \cup {"none"}]]
    /\ pings \in Seq(Ping) /\ Len(pings) <= MaxPings
    /\ typing \in [Thread -> SUBSET Typist]
    /\ clearing \in [Thread -> Typist \cup {"none"}]
    /\ amiss \subseteq Typist

Silent == [target |-> "none", idle |-> "none"]

TypingInit ==
    /\ composer = [t \in Typist |-> Silent]
    /\ pings = <<>>
    /\ typing = [k \in Thread |-> {}]
    /\ clearing = [k \in Thread |-> "none"]
    /\ amiss = {}

-----------------------------------------------------------------------------
Emit(t, thread, on) ==
    /\ Len(pings) < MaxPings
    /\ pings' = Append(pings, [from |-> t, thread |-> thread, on |-> on])

\* A keystroke: announced once per burst.  The thread it is typed in is the one
\* announced, unless the answer to a change of the group has put the group into
\* the composer meanwhile.
Keystroke(t, thread) ==
    LET target == composer[t].target IN
    /\ target \in {"none", thread} \/ thread = "group"
    /\ IF target = "none" THEN Emit(t, thread, TRUE) ELSE UNCHANGED pings
    /\ composer' = [composer EXCEPT ![t] = [target |-> IF target = "none" THEN thread ELSE target,
                                            idle |-> thread]]
    /\ UNCHANGED <<typing, clearing, amiss>>

\* stopTypingIfNeeded: the draft is sent or emptied, or another thread is opened.
StopTyping(t) ==
    /\ composer[t] # Silent
    /\ Emit(t, composer[t].target, FALSE)
    /\ composer' = [composer EXCEPT ![t] = Silent]
    /\ UNCHANGED <<typing, clearing, amiss>>

\* Three seconds without a keystroke.
IdleTimeout(t) ==
    /\ composer[t].idle # "none"
    /\ Emit(t, composer[t].idle, FALSE)
    /\ composer' = [composer EXCEPT ![t] = Silent]
    /\ UNCHANGED <<typing, clearing, amiss>>

\* The typist's page is closed: nothing more is announced.
CloseComposer(t) ==
    /\ composer[t] # Silent
    /\ composer' = [composer EXCEPT ![t] = Silent]
    /\ amiss' = IF composer[t].target = "group" THEN amiss \cup {t} ELSE amiss
    /\ UNCHANGED <<pings, typing, clearing>>

\* An event never arrives: a socket was down, or the relay dropped it.
LosePing(i) ==
    /\ pings' = RemoveAt(pings, i)
    /\ amiss' = IF pings[i].thread = "group" THEN amiss \cup {pings[i].from} ELSE amiss
    /\ UNCHANGED <<composer, typing, clearing>>

-----------------------------------------------------------------------------
Earlier(i) == {j \in 1 .. i - 1 : pings[j].from = pings[i].from /\ pings[j].thread = pings[i].thread}

\* Mutation: the end of typing is left to the timer.
HearPingOnOnly(i) ==
    LET p == pings[i] IN
    /\ p.thread # "group" => Earlier(i) = {}
    /\ pings' = RemoveAt(pings, i)
    /\ typing' = [typing EXCEPT ![p.thread] = IF p.on THEN @ \cup {p.from} ELSE @]
    /\ clearing' = [clearing EXCEPT ![p.thread] = IF p.on THEN p.from ELSE @]
    /\ amiss' = IF Earlier(i) # {} THEN amiss \cup {p.from} ELSE amiss
    /\ UNCHANGED composer

\* signal:typing on the receiving page: the thread has one timer, and any event
\* of the thread cancels it.
HearPing(i) ==
    LET p == pings[i] IN
    /\ p.thread # "group" => Earlier(i) = {}
    /\ pings' = RemoveAt(pings, i)
    /\ typing' = [typing EXCEPT ![p.thread] = IF p.on THEN @ \cup {p.from} ELSE @ \ {p.from}]
    /\ clearing' = [clearing EXCEPT ![p.thread] = IF p.on THEN p.from ELSE "none"]
    /\ amiss' = IF Earlier(i) # {} THEN amiss \cup {p.from} ELSE amiss
    /\ UNCHANGED composer

\* Five seconds after the event that set it.
ClearTimeout(k) ==
    /\ clearing[k] # "none"
    /\ typing' = [typing EXCEPT ![k] = @ \ {clearing[k]}]
    /\ clearing' = [clearing EXCEPT ![k] = "none"]
    /\ UNCHANGED <<composer, pings, amiss>>

TypingNext ==
    \/ \E t \in Typist :
        \/ StopTyping(t) \/ IdleTimeout(t) \/ CloseComposer(t)
        \/ \E thread \in ThreadsOf(t) : Keystroke(t, thread)
    \/ \E i \in DOMAIN pings : LosePing(i) \/ HearPing(i)
    \/ \E k \in Thread : ClearTimeout(k)

TypingSpec == TypingInit /\ [][TypingNext]_typingVars

-----------------------------------------------------------------------------
(* What must hold. *)

\* A member who has told the group that they stopped is not shown as typing,
\* whatever the others do meanwhile, if none of their events was lost or
\* overtaken by the next.
StoppedNotShown ==
    \A t \in Typist \ amiss :
        /\ composer[t].target # "group"
        /\ ~\E i \in DOMAIN pings : pings[i].from = t /\ pings[i].thread = "group"
        => t \notin typing["group"]
=============================================================================
