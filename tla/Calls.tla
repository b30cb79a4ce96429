------------------------------- MODULE Calls --------------------------------
(***************************************************************************)
(* One-to-one calls: the call state of the chat page (web/app/chat/        *)
(* page.tsx), the life of its CallClient (web/lib/callClient.ts) and the   *)
(* server's relay (server/src/sockets/call.gateway.ts).                    *)
(*                                                                         *)
(* A call id is made up by its caller and used for one call.  A user has   *)
(* one phone: the refs of the page.  What startCall and handleAcceptCall   *)
(* do between two awaits is a step of a task, which goes on after its call *)
(* was torn down and may then meet a newer call on the same phone.         *)
(*                                                                         *)
(* The relay keeps nothing and forwards in order, with one exception: an   *)
(* invitation waits for a database lookup, and what its caller sends       *)
(* meanwhile overtakes it.                                                 *)
(*                                                                         *)
(* The faults that may happen, each any number of times, are the members   *)
(* of Faults.                                                              *)
(***************************************************************************)
EXTENDS Naturals, Sequences

CONSTANTS
    User,
    Call,     \* call ids
    None,     \* no call
    From,     \* who places each call
    To,       \* who is called
    Native,   \* the Android shell, where audio routing takes time
    Faults    \* the faults of this environment

FaultNames ==
    {"drop", "reload", "mediaFails", "connectionLost", "badAnswer",
     "lookupFails"}

ASSUME CallAssumption ==
    /\ None \notin Call
    /\ From \in [Call -> User]
    /\ To \in [Call -> User]
    /\ \A c \in Call : From[c] # To[c]
    /\ Native \in BOOLEAN
    /\ Faults \subseteq FaultNames

VARIABLES
    phone,     \* the call refs of each user's page
    placing,   \* where startCall stands, for each call
    taking,    \* where handleAcceptCall stands, for each call
    applying,  \* calls whose caller awaits applyAnswer
    mic,       \* who holds a microphone stream, and for which call
    lookups,   \* invitations waiting for the server's block lookup
    inbox,     \* what the server has sent to each user, in order
    invited,   \* calls relayed as call:incoming (auxiliary)
    answered,  \* calls whose callee has sent call:answer (auxiliary)
    applied,   \* calls whose caller has applied the answer
    log        \* call entries written to the local histories

taskVars == <<placing, taking, applying>>
netVars == <<lookups, invited, answered>>
vars == <<phone, taskVars, mic, inbox, netVars, applied, log>>

CallOrNone == Call \cup {None}

Phone ==
    [call : CallOrNone,      \* callIdRef
     client : CallOrNone,    \* the call of callClientRef
     offer : BOOLEAN,        \* pendingOfferRef is set
     sent : BOOLEAN,         \* callInviteSentRef
     connected : BOOLEAN,    \* callConnectedRef
     ring : CallOrNone,      \* the call the 30 s ring timer was set for
     fallback : CallOrNone,  \* the call whose track set the 8 s timer
     err : CallOrNone]       \* the call whose failure is on the screen

IdlePhone ==
    [call |-> None, client |-> None, offer |-> FALSE, sent |-> FALSE,
     connected |-> FALSE, ring |-> None, fallback |-> None, err |-> None]

EventKind == {"incoming", "ack", "refused", "answered", "rejected", "ended"}
Event == [kind : EventKind, call : Call]
Ev(k, c) == [kind |-> k, call |-> c]

TypeOK ==
    /\ phone \in [User -> Phone]
    /\ placing \in [Call -> {"none", "media", "offering", "inviting", "done"}]
    /\ taking \in [Call -> {"none", "describing", "media", "answering", "done"}]
    /\ applying \subseteq Call
    /\ mic \subseteq User \X Call
    /\ lookups \subseteq Call
    /\ inbox \in [User -> Seq(Event)]
    /\ invited \subseteq Call
    /\ answered \subseteq Call
    /\ applied \subseteq Call
    /\ log \subseteq User \X Call \X {"connected", "noAnswer", "missed"}

Init ==
    /\ phone = [u \in User |-> IdlePhone]
    /\ placing = [c \in Call |-> "none"]
    /\ taking = [c \in Call |-> "none"]
    /\ applying = {}
    /\ mic = {}
    /\ lookups = {}
    /\ inbox = [u \in User |-> <<>>]
    /\ invited = {}
    /\ answered = {}
    /\ applied = {}
    /\ log = {}

Outgoing(u) == phone[u].call # None /\ From[phone[u].call] = u
Incoming(u) == phone[u].call # None /\ To[phone[u].call] = u
Peer(c, u) == IF From[c] = u THEN To[c] ELSE From[c]

SetPhone(u, p) == phone' = [phone EXCEPT ![u] = p]
Send(u, e) == inbox' = [inbox EXCEPT ![u] = Append(@, e)]

\* Mutation: an entry is written whether or not there is a call.
LogAnyCall(u) ==
    IF phone[u].connected THEN {<<u, phone[u].call, "connected">>}
    ELSE IF Incoming(u) THEN {<<u, phone[u].call, "missed">>}
    ELSE IF phone[u].sent THEN {<<u, phone[u].call, "noAnswer">>}
    ELSE {}

\* logCallOutcome, for the call that is being torn down.
LogEntry(u) ==
    IF phone[u].call = None THEN {}
    ELSE IF phone[u].connected THEN {<<u, phone[u].call, "connected">>}
    ELSE IF Incoming(u) THEN {<<u, phone[u].call, "missed">>}
    ELSE IF phone[u].sent THEN {<<u, phone[u].call, "noAnswer">>}
    ELSE {}

\* resetCallState: everything goes but the pending error timer.  dispose()
\* stops the tracks of the client.
Reset(u, errLeft) ==
    /\ SetPhone(u, [IdlePhone EXCEPT !.sent = phone[u].sent, !.err = errLeft])
    /\ mic' = mic \ {<<u, phone[u].client>>}
    /\ log' = log \cup LogEntry(u)

\* failCall: the reason is shown, and a timer set to tear the call down.
FailCall(u) == SetPhone(u, [phone[u] EXCEPT !.err = phone[u].call])

\* handleCallConnected, for whatever call is on the phone by now.
MarkConnected(u) ==
    IF phone[u].connected \/ phone[u].call = None
    THEN SetPhone(u, [phone[u] EXCEPT !.fallback = None])
    ELSE SetPhone(u, [phone[u] EXCEPT !.connected = TRUE, !.ring = None,
                                      !.fallback = None])

-----------------------------------------------------------------------------
(* The caller                                                              *)

\* startCall up to the permission prompt for the microphone.
StartCall(c) ==
    LET u == From[c]
    IN  /\ placing[c] = "none"
        /\ phone[u].call = None
        /\ SetPhone(u, [phone[u] EXCEPT !.call = c, !.client = c, !.sent = FALSE])
        /\ placing' = [placing EXCEPT ![c] = "media"]
        /\ UNCHANGED <<taking, applying, mic, inbox, netVars, applied, log>>

\* Mutation: a stream that arrives after dispose() is kept.
PlacingMediaKept(c) ==
    /\ placing[c] = "media"
    /\ mic' = mic \cup {<<From[c], c>>}
    /\ placing' = [placing EXCEPT ![c] = "offering"]
    /\ UNCHANGED <<phone, taking, applying, inbox, netVars, applied, log>>

\* getMedia resolves.  A disposed client stops the stream and throws.
PlacingMedia(c) ==
    /\ placing[c] = "media"
    /\ IF phone[From[c]].client = c
       THEN /\ mic' = mic \cup {<<From[c], c>>}
            /\ placing' = [placing EXCEPT ![c] = "offering"]
       ELSE /\ placing' = [placing EXCEPT ![c] = "done"]
            /\ UNCHANGED mic
    /\ UNCHANGED <<phone, taking, applying, inbox, netVars, applied, log>>

\* The catch blocks of startCall and handleAcceptCall.
Caught(u, c) ==
    IF phone[u].call = c THEN FailCall(u) ELSE UNCHANGED phone

PlacingFails(c) ==
    /\ "mediaFails" \in Faults
    /\ placing[c] = "media"
    /\ placing' = [placing EXCEPT ![c] = "done"]
    /\ Caught(From[c], c)
    /\ UNCHANGED <<taking, applying, mic, inbox, netVars, applied, log>>

\* Mutation: the invitation counts as sent before it is acknowledged.
InviteCounts(c) ==
    /\ placing[c] = "offering"
    /\ IF phone[From[c]].call = c
       THEN /\ lookups' = lookups \cup {c}
            /\ placing' = [placing EXCEPT ![c] = "inviting"]
            /\ SetPhone(From[c], [phone[From[c]] EXCEPT !.sent = TRUE])
       ELSE /\ placing' = [placing EXCEPT ![c] = "done"]
            /\ UNCHANGED <<lookups, phone>>
    /\ UNCHANGED <<taking, applying, mic, inbox, invited, answered, applied,
                   log>>

\* The offer is ready; unless the call is gone, the invitation goes out.
Invite(c) ==
    /\ placing[c] = "offering"
    /\ IF phone[From[c]].call = c
       THEN /\ lookups' = lookups \cup {c}
            /\ placing' = [placing EXCEPT ![c] = "inviting"]
       ELSE /\ placing' = [placing EXCEPT ![c] = "done"]
            /\ UNCHANGED lookups
    /\ UNCHANGED <<phone, taking, applying, mic, inbox, invited, answered,
                   applied, log>>

\* call:invite at the server, once its lookup is over: the callee is called
\* and the caller told, or the caller is told that the callee is offline.  A
\* lookup that fails ends in the log of the server, and nobody is told.
LookedUp(c) ==
    /\ c \in lookups
    /\ lookups' = lookups \ {c}
    /\ \/ /\ inbox' = [inbox EXCEPT ![To[c]] = Append(@, Ev("incoming", c)),
                                   ![From[c]] = Append(@, Ev("ack", c))]
          /\ invited' = invited \cup {c}
       \/ Send(From[c], Ev("refused", c)) /\ UNCHANGED invited
       \/ "lookupFails" \in Faults /\ UNCHANGED <<inbox, invited>>
    /\ UNCHANGED <<phone, taskVars, mic, answered, applied, log>>

\* The first event of a user's inbox.
Reads(u, kind) == inbox[u] # <<>> /\ Head(inbox[u]).kind = kind
TakeEvent(u) == inbox' = [inbox EXCEPT ![u] = Tail(@)]

\* Mutation: the ring timer is not set.
AckRings(u) ==
    LET c == Head(inbox[u]).call
    IN  /\ Reads(u, "ack")
        /\ placing' = [placing EXCEPT ![c] = "done"]
        /\ IF phone[u].call = c
           THEN SetPhone(u, [phone[u] EXCEPT !.sent = TRUE])
           ELSE UNCHANGED phone
        /\ TakeEvent(u)
        /\ UNCHANGED <<taking, applying, mic, netVars, applied, log>>

\* The acknowledgement reaches startCall: the phone rings out.
Ack(u) ==
    LET c == Head(inbox[u]).call
    IN  /\ Reads(u, "ack")
        /\ placing' = [placing EXCEPT ![c] = "done"]
        /\ IF phone[u].call = c
           THEN SetPhone(u, [phone[u] EXCEPT !.sent = TRUE, !.ring = c])
           ELSE UNCHANGED phone
        /\ TakeEvent(u)
        /\ UNCHANGED <<taking, applying, mic, netVars, applied, log>>

Refused(u) ==
    LET c == Head(inbox[u]).call
    IN  /\ Reads(u, "refused")
        /\ placing' = [placing EXCEPT ![c] = "done"]
        /\ Caught(u, c)
        /\ TakeEvent(u)
        /\ UNCHANGED <<taking, applying, mic, netVars, applied, log>>

\* "No answer": the callee is told, and the call fails.
RingTimeout(u) ==
    /\ phone[u].ring # None
    /\ Send(Peer(phone[u].ring, u), Ev("ended", phone[u].ring))
    /\ SetPhone(u, [phone[u] EXCEPT !.ring = None, !.err = phone[u].call])
    /\ UNCHANGED <<taskVars, mic, netVars, applied, log>>

-----------------------------------------------------------------------------
(* The callee                                                              *)

\* call:incoming rings, unless the phone is busy.
BeCalled(u) ==
    LET c == Head(inbox[u]).call
    IN  /\ Reads(u, "incoming")
        /\ IF phone[u].call = None
           THEN /\ SetPhone(u, [phone[u] EXCEPT !.call = c, !.offer = TRUE])
                /\ TakeEvent(u)
           ELSE /\ inbox' = [inbox EXCEPT ![u] = Tail(@),
                                ![From[c]] = Append(@, Ev("rejected", c))]
                /\ UNCHANGED phone
        /\ UNCHANGED <<taskVars, mic, netVars, applied, log>>

\* The user taps Accept, which is there while the phone rings.
Accept(u) ==
    LET c == phone[u].call
    IN  /\ Incoming(u)
        /\ phone[u].client = None
        /\ ~phone[u].connected
        /\ phone[u].offer
        /\ SetPhone(u, [phone[u] EXCEPT !.client = c])
        /\ taking' = [taking EXCEPT ![c] = "describing"]
        /\ UNCHANGED <<placing, applying, mic, inbox, netVars, applied, log>>

\* acceptAsCallee applies the offer, which brings the caller's track and with
\* it the 8 s timer.  A client disposed during audio routing opens a fresh
\* connection here, and its track sets the timer all the same.
Describe(c) ==
    LET u == To[c]
    IN  /\ taking[c] = "describing"
        /\ taking' = [taking EXCEPT ![c] = "media"]
        /\ \/ /\ phone[u].client = c \/ Native
              /\ SetPhone(u, [phone[u] EXCEPT !.fallback = c])
           \/ phone[u].client # c /\ UNCHANGED phone
        /\ UNCHANGED <<placing, applying, mic, inbox, netVars, applied, log>>

TakingMedia(c) ==
    /\ taking[c] = "media"
    /\ IF phone[To[c]].client = c
       THEN /\ mic' = mic \cup {<<To[c], c>>}
            /\ taking' = [taking EXCEPT ![c] = "answering"]
       ELSE /\ taking' = [taking EXCEPT ![c] = "done"]
            /\ UNCHANGED mic
    /\ UNCHANGED <<phone, placing, applying, inbox, netVars, applied, log>>

TakingFails(c) ==
    /\ "mediaFails" \in Faults
    /\ taking[c] = "media"
    /\ taking' = [taking EXCEPT ![c] = "done"]
    /\ Caught(To[c], c)
    /\ UNCHANGED <<placing, applying, mic, inbox, netVars, applied, log>>

\* The answer is ready.  Whether the call is still there is not checked: a
\* teardown while the last candidates are drained lets the answer out, and
\* takes the offer of a newer call away.
Answer(c) ==
    LET u == To[c]
    IN  /\ taking[c] = "answering"
        /\ taking' = [taking EXCEPT ![c] = "done"]
        /\ \/ /\ SetPhone(u, [phone[u] EXCEPT !.offer = FALSE])
              /\ Send(From[c], Ev("answered", c))
              /\ answered' = answered \cup {c}
           \/ /\ phone[u].client # c
              /\ UNCHANGED <<phone, inbox, answered>>
        /\ UNCHANGED <<placing, applying, mic, lookups, invited, applied, log>>

-----------------------------------------------------------------------------
(* Both                                                                    *)

\* Mutation: an answer is applied whatever call it belongs to.
AnsweredAnyCall(u) ==
    /\ Reads(u, "answered")
    /\ TakeEvent(u)
    /\ applying' = applying \cup ({phone[u].client} \ {None})
    /\ UNCHANGED <<phone, placing, taking, mic, netVars, applied, log>>

\* call:answered, up to the await of applyAnswer.
Answered(u) ==
    LET c == Head(inbox[u]).call
    IN  /\ Reads(u, "answered")
        /\ TakeEvent(u)
        /\ applying' = IF phone[u].call = c THEN applying \cup {c} ELSE applying
        /\ UNCHANGED <<phone, placing, taking, mic, netVars, applied, log>>

\* The answer is applied, which brings the callee's track, or is refused.  A
\* connection that was closed meanwhile does neither.
ApplyAnswer(c) ==
    LET u == From[c]
    IN  /\ c \in applying
        /\ applying' = applying \ {c}
        /\ \/ /\ phone[u].client = c
              /\ applied' = applied \cup {c}
              /\ SetPhone(u, [phone[u] EXCEPT !.fallback = c])
           \/ /\ phone[u].client = c /\ "badAnswer" \in Faults
              /\ FailCall(u)
              /\ UNCHANGED applied
           \/ phone[u].client # c /\ UNCHANGED <<phone, applied>>
        /\ UNCHANGED <<placing, taking, mic, inbox, netVars, log>>

Rejected(u) ==
    /\ Reads(u, "rejected")
    /\ Caught(u, Head(inbox[u]).call)
    /\ TakeEvent(u)
    /\ UNCHANGED <<taskVars, mic, netVars, applied, log>>

Ended(u) ==
    /\ Reads(u, "ended")
    /\ TakeEvent(u)
    /\ IF phone[u].call = Head(inbox[u]).call
       THEN Reset(u, phone[u].err)
       ELSE UNCHANGED <<phone, mic, log>>
    /\ UNCHANGED <<taskVars, netVars, applied>>

\* The peer connection of an answered call comes up.
Connect(u) ==
    /\ phone[u].client \in applied
    /\ ~phone[u].connected
    /\ MarkConnected(u)
    /\ UNCHANGED <<taskVars, mic, inbox, netVars, applied, log>>

\* The 8 s timer fires.
FallbackFires(u) ==
    /\ phone[u].fallback # None
    /\ MarkConnected(u)
    /\ UNCHANGED <<taskVars, mic, inbox, netVars, applied, log>>

\* The client gives up after 45 s without a connection.
ConnectionLost(u) ==
    /\ "connectionLost" \in Faults
    /\ phone[u].client \in IF Outgoing(u) THEN applied ELSE answered
    /\ FailCall(u)
    /\ UNCHANGED <<taskVars, mic, inbox, netVars, applied, log>>

\* Mutation: an accepted call is still rejected, not ended.
HangUpRejects(u) ==
    LET c == phone[u].call
        kind == IF Incoming(u) /\ ~phone[u].connected
                THEN "rejected" ELSE "ended"
    IN  /\ c # None
        /\ Send(Peer(c, u), Ev(kind, c))
        /\ Reset(u, phone[u].err)
        /\ UNCHANGED <<taskVars, netVars, applied>>

\* handleDeclineCall: Decline while the phone rings, End call afterwards.
HangUp(u) ==
    LET c == phone[u].call
        kind == IF Incoming(u) /\ phone[u].client = None /\ ~phone[u].connected
                THEN "rejected" ELSE "ended"
    IN  /\ c # None
        /\ Send(Peer(c, u), Ev(kind, c))
        /\ Reset(u, phone[u].err)
        /\ UNCHANGED <<taskVars, netVars, applied>>

\* The timer of failCall: it tears down whatever call is on the phone.
ErrorFires(u) ==
    /\ phone[u].err # None
    /\ Reset(u, None)
    /\ UNCHANGED <<taskVars, inbox, netVars, applied>>

\* The socket is lost for a moment, and what was on its way with it.
Drop(u) ==
    /\ "drop" \in Faults
    /\ inbox[u] # <<>>
    /\ inbox' = [inbox EXCEPT ![u] = <<>>]
    /\ UNCHANGED <<phone, taskVars, mic, netVars, applied, log>>

\* The page is reloaded or killed.  Its peer is told nothing.
Reload(u) ==
    /\ "reload" \in Faults
    /\ phone[u] # IdlePhone
    /\ SetPhone(u, IdlePhone)
    /\ placing' = [c \in Call |->
         IF From[c] = u /\ placing[c] # "none" THEN "done" ELSE placing[c]]
    /\ taking' = [c \in Call |->
         IF To[c] = u /\ taking[c] # "none" THEN "done" ELSE taking[c]]
    /\ applying' = {c \in applying : From[c] # u}
    /\ mic' = {h \in mic : h[1] # u}
    /\ inbox' = [inbox EXCEPT ![u] = <<>>]
    /\ UNCHANGED <<netVars, applied, log>>

-----------------------------------------------------------------------------

Receive(u) ==
    \/ Ack(u) \/ Refused(u) \/ BeCalled(u) \/ Answered(u) \/ Rejected(u)
    \/ Ended(u)

Task(c) ==
    \/ Invite(c) \/ LookedUp(c) \/ Describe(c) \/ Answer(c) \/ ApplyAnswer(c)

Next ==
    \/ \E c \in Call :
          \/ StartCall(c) \/ PlacingMedia(c) \/ PlacingFails(c) \/ Invite(c)
          \/ LookedUp(c) \/ Describe(c) \/ TakingMedia(c) \/ TakingFails(c)
          \/ Answer(c) \/ ApplyAnswer(c)
    \/ \E u \in User :
          \/ Ack(u) \/ Refused(u) \/ BeCalled(u) \/ Answered(u)
          \/ Rejected(u) \/ Ended(u)
          \/ RingTimeout(u) \/ FallbackFires(u) \/ ErrorFires(u)
          \/ Accept(u) \/ HangUp(u) \/ Connect(u) \/ ConnectionLost(u)
          \/ Drop(u) \/ Reload(u)

Spec == Init /\ [][Next]_vars

\* Events arrive, timers fire and code runs on to its next await.  Nothing is
\* assumed of users, who may leave the phone or a permission prompt alone,
\* nor of the media connection.
Fairness ==
    /\ \A u \in User :
          /\ WF_vars(Receive(u))
          /\ WF_vars(RingTimeout(u))
          /\ WF_vars(FallbackFires(u))
          /\ WF_vars(ErrorFires(u))
    /\ \A c \in Call : WF_vars(Task(c))

FairSpec == Spec /\ Fairness

-----------------------------------------------------------------------------
(* Properties                                                              *)

\* The microphone is never open for a call that is not on its user's phone,
\* however late a permission prompt is answered.
NoOrphanMedia == \A h \in mic : phone[h[1]].client = h[2]

\* "No answer" is logged only of a call that the server relayed: one that
\* failed before ringing never reached anyone (page.tsx:281-283).
LoggedReached ==
    \A u \in User, c \in Call : <<u, c, "noAnswer">> \in log => c \in invited

\* A caller's phone turns to "connected" only when the callee has sent an
\* answer, or when the 8 s timer of an older call is still running.
CallerConnectsAnswered ==
    [][\A u \in User :
         (Outgoing(u) /\ ~phone[u].connected /\ phone'[u].connected) =>
            \/ phone[u].call \in answered
            \/ phone[u].fallback \notin {None, phone[u].call}]_phone

\* No call is both answered and declined: the caller is never told that a
\* call was declined whose callee took it (page.tsx:2198).
DeclinedNeverAnswered ==
    \A u \in User : \A i \in 1 .. Len(inbox[u]) :
        inbox[u][i].kind = "rejected" => inbox[u][i].call \notin answered

\* A caller that has been put through is connected, or idle, or rings no
\* longer than its timers allow; so is a callee that has accepted.
Waiting(u, c) ==
    /\ phone[u].client = c
    /\ ~phone[u].connected
    /\ From[c] = u => c \in invited

CallSettles == \A u \in User, c \in Call : Waiting(u, c) ~> ~Waiting(u, c)

\* page.tsx:2142: "the call is already gone (and a newer one may be in
\* progress), so leave it alone".  The failure of one call does not tear down
\* another.
ErrorSparesNewer ==
    [][\A u \in User :
         (phone[u].err # None /\ phone'[u].err = None) =>
            phone[u].call \in {None, phone[u].err}]_phone

\* page.tsx:2115: "don't resurrect it by inviting the other side to a call
\* we've already torn down".  A phone does not ring on for a caller who has
\* hung up.
Abandoned(c) ==
    /\ phone[To[c]].call = c
    /\ phone[To[c]].client = None
    /\ phone[From[c]].call # c

NoGhostRing == \A c \in Call : Abandoned(c) ~> ~Abandoned(c)
=============================================================================
