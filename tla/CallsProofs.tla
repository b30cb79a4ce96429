---------------------------- MODULE CallsProofs -----------------------------
(***************************************************************************)
(* What holds of calls for any users, any calls between them and any of    *)
(* the faults.                                                             *)
(***************************************************************************)
EXTENDS Calls, TLAPS

\* An event of kind k about call c is on its way to user u.
Queued(u, k, c) ==
    \E i \in 1 .. Len(inbox[u]) : inbox[u][i].kind = k /\ inbox[u][i].call = c

\* The client and the call on a phone belong together.
ClientOfCall == \A u \in User : phone[u].client \in {None, phone[u].call}

\* A call is only ever on the phones of its two parties.
OwnCall ==
    \A u \in User :
        phone[u].call # None => u \in {From[phone[u].call], To[phone[u].call]}

\* An invitation is looked up once, and relayed at most once.
InvitedOnce ==
    \A c \in Call :
        /\ placing[c] \in {"none", "media", "offering"} =>
              c \notin lookups /\ c \notin invited
        /\ c \in lookups => c \notin invited

\* Acknowledgements and invitations under way are of relayed calls.
RelayedEvents ==
    \A u \in User, c \in Call :
        Queued(u, "ack", c) \/ Queued(u, "incoming", c) => c \in invited

SentReached ==
    \A u \in User : (phone[u].sent /\ Outgoing(u)) => phone[u].call \in invited

\* Answers under way, being applied or applied were sent by the callee.
AnswersSent ==
    /\ applied \subseteq answered /\ applying \subseteq answered
    /\ \A u \in User, c \in Call : Queued(u, "answered", c) => c \in answered
    /\ \A u \in User :
          (phone[u].fallback # None /\ From[phone[u].fallback] = u) =>
             phone[u].fallback \in answered

\* While the invitation is under way, and while the callee's phone rings,
\* nobody has taken or declined the call.
Open(c) == taking[c] = "none" /\ \A v \in User : ~Queued(v, "rejected", c)

OnItsWay ==
    \A u \in User, c \in Call :
        Queued(u, "incoming", c) =>
            u = To[c] /\ phone[u].call # c /\ Open(c)

OnItsWayOnce ==
    \A u \in User : \A i, j \in 1 .. Len(inbox[u]) :
        (/\ inbox[u][i].kind = "incoming" /\ inbox[u][j].kind = "incoming"
         /\ inbox[u][i].call = inbox[u][j].call) => i = j

Ringing ==
    \A c \in Call :
        phone[To[c]].call = c =>
            /\ c \in invited
            /\ \A v \in User : ~Queued(v, "rejected", c)
            /\ phone[To[c]].client = None => taking[c] = "none"

\* A call is taken at most once, and never after it was declined.
TakenOnce ==
    \A c \in Call :
        /\ c \notin invited => taking[c] = "none"
        /\ c \in answered => taking[c] = "done"
        /\ \A v \in User :
              Queued(v, "rejected", c) => taking[c] = "none" /\ c \in invited

IInv ==
    /\ TypeOK
    /\ ClientOfCall
    /\ OwnCall
    /\ NoOrphanMedia
    /\ InvitedOnce
    /\ RelayedEvents
    /\ SentReached
    /\ LoggedReached
    /\ AnswersSent
    /\ OnItsWay
    /\ OnItsWayOnce
    /\ Ringing
    /\ TakenOnce

-----------------------------------------------------------------------------
(* Type correctness                                                        *)

\* Sending an event keeps every inbox a sequence of events.
LEMMA SendTyped ==
  ASSUME TypeOK, NEW u \in User, NEW c \in Call, NEW k \in EventKind
  PROVE  [inbox EXCEPT ![u] = Append(@, Ev(k, c))] \in [User -> Seq(Event)]
<1>1. Ev(k, c) \in Event
  BY DEF Ev, Event
<1>2. inbox[u] \in Seq(Event) /\ inbox \in [User -> Seq(Event)]
  BY DEF TypeOK
<1>3. Append(inbox[u], Ev(k, c)) \in Seq(Event)
  BY <1>1, <1>2
<1>4. QED
  BY <1>2, <1>3

\* An event that is read is about a call, and what is left of the inbox is typed.
LEMMA ReadTyped ==
  ASSUME TypeOK, NEW u \in User, NEW k, Reads(u, k)
  PROVE  /\ Head(inbox[u]) \in Event
         /\ Head(inbox[u]).call \in Call
         /\ Tail(inbox[u]) \in Seq(Event)
         /\ [inbox EXCEPT ![u] = Tail(@)] \in [User -> Seq(Event)]
<1>1. inbox[u] \in Seq(Event) /\ inbox \in [User -> Seq(Event)]
  BY DEF TypeOK
<1>2. Head(inbox[u]) \in Event /\ Tail(inbox[u]) \in Seq(Event)
  BY <1>1 DEF Reads
<1>3. Head(inbox[u]).call \in Call
  BY <1>2 DEF Event
<1>4. QED
  BY <1>1, <1>2, <1>3

\* resetCallState leaves phone, microphones and histories typed.
LEMMA ResetTyped ==
  ASSUME TypeOK, NEW u \in User, NEW e \in CallOrNone, Reset(u, e)
  PROVE  /\ (phone \in [User -> Phone])'
         /\ (mic \subseteq User \X Call)'
         /\ (log \subseteq User \X Call \X {"connected", "noAnswer", "missed"})'
<1>1. phone[u] \in Phone
  BY DEF TypeOK
<1>2. [IdlePhone EXCEPT !.sent = phone[u].sent, !.err = e] \in Phone
  BY <1>1 DEF Phone, IdlePhone, CallOrNone
<1>3. LogEntry(u) \subseteq User \X Call \X {"connected", "noAnswer", "missed"}
  BY <1>1 DEF LogEntry, Phone, CallOrNone
<1>4. QED
  BY <1>2, <1>3 DEF Reset, SetPhone, TypeOK

\* Every step leaves the phones typed.
LEMMA PhoneTyped ==
  ASSUME TypeOK, [Next]_vars
  PROVE  (phone \in [User -> Phone])'
<1>1. phone \in [User -> Phone]
  BY DEF TypeOK
<1>2. \A u \in User, p \in Phone : SetPhone(u, p) => phone' \in [User -> Phone]
  BY <1>1 DEF SetPhone
<1>3. \A u \in User :
         /\ phone[u].call \in CallOrNone /\ phone[u].err \in CallOrNone
         /\ [phone[u] EXCEPT !.err = phone[u].call] \in Phone
         /\ [phone[u] EXCEPT !.ring = None, !.err = phone[u].call] \in Phone
         /\ [phone[u] EXCEPT !.client = phone[u].call] \in Phone
         /\ [phone[u] EXCEPT !.offer = FALSE] \in Phone
         /\ [phone[u] EXCEPT !.sent = TRUE] \in Phone
  BY <1>1 DEF Phone, CallOrNone
<1>c. \A u \in User, c \in Call :
         /\ [phone[u] EXCEPT !.fallback = c] \in Phone
         /\ [phone[u] EXCEPT !.sent = TRUE, !.ring = c] \in Phone
         /\ [phone[u] EXCEPT !.call = c, !.offer = TRUE] \in Phone
  BY <1>1 DEF Phone, CallOrNone
<1>4. \A u \in User : FailCall(u) => phone' \in [User -> Phone]
  BY <1>2, <1>3 DEF FailCall
<1>5. \A u \in User, c \in Call : Caught(u, c) => phone' \in [User -> Phone]
  BY <1>1, <1>4 DEF Caught
<1>6. \A u \in User : MarkConnected(u) => phone' \in [User -> Phone]
  <2>1. \A u \in User :
           /\ [phone[u] EXCEPT !.connected = TRUE, !.ring = None,
                               !.fallback = None] \in Phone
           /\ [phone[u] EXCEPT !.fallback = None] \in Phone
    BY <1>1 DEF Phone, CallOrNone
  <2>2. QED
    BY <2>1, <1>2 DEF MarkConnected
<1>7. \A u \in User, e \in CallOrNone : Reset(u, e) => phone' \in [User -> Phone]
  BY ResetTyped
<1>8. IdlePhone \in Phone
  BY DEF IdlePhone, Phone, CallOrNone
<1>a. \A u \in User, c \in Call :
        [phone[u] EXCEPT !.call = c, !.client = c, !.sent = FALSE] \in Phone
  BY <1>1 DEF Phone, CallOrNone
<1>9. ASSUME NEW c \in Call,
             StartCall(c) \/ PlacingFails(c) \/ TakingFails(c) \/ Describe(c) \/ Answer(c)
      PROVE  phone' \in [User -> Phone]
  BY <1>9, <1>1, <1>2, <1>3, <1>c, <1>5, <1>a, CallAssumption
     DEF StartCall, PlacingFails, TakingFails, Describe, Answer, CallOrNone
<1>10. ASSUME NEW c \in Call,
              PlacingMedia(c) \/ Invite(c) \/ LookedUp(c) \/ TakingMedia(c)
       PROVE  phone' = phone
  BY <1>10 DEF PlacingMedia, Invite, LookedUp, TakingMedia
<1>11. ASSUME NEW u \in User, 
              Ack(u) \/ Refused(u) \/ BeCalled(u) \/ Answered(u) \/ Rejected(u)
       PROVE  phone' \in [User -> Phone]
  <2>1. Head(inbox[u]).call \in Call
    BY <1>11, ReadTyped DEF Ack, Refused, BeCalled, Answered, Rejected
  <2>2. QED
    BY <1>11, <2>1, <1>1, <1>2, <1>c, <1>4, <1>5
       DEF Ack, Refused, BeCalled, Answered, Rejected
<1>12. ASSUME NEW u \in User, Ended(u) \/ HangUp(u) \/ ErrorFires(u)
       PROVE  phone' \in [User -> Phone]
  BY <1>12, <1>1, <1>3, <1>7 DEF Ended, HangUp, ErrorFires, CallOrNone
<1>13. ASSUME NEW u \in User,
              \/ FallbackFires(u) \/ Connect(u) \/ ConnectionLost(u)
              \/ Drop(u) \/ Reload(u)
       PROVE  phone' \in [User -> Phone]
  BY <1>13, <1>1, <1>2, <1>4, <1>6, <1>8
     DEF FallbackFires, Connect, ConnectionLost, Drop, Reload
<1>b. ASSUME NEW u \in User, RingTimeout(u) \/ Accept(u)
      PROVE  phone' \in [User -> Phone]
  BY <1>b, <1>2, <1>3 DEF RingTimeout, Accept
<1>d. ASSUME NEW c \in Call, ApplyAnswer(c) PROVE phone' \in [User -> Phone]
  BY <1>d, <1>1, <1>2, <1>c, <1>4, CallAssumption DEF ApplyAnswer
<1>14. QED
  BY <1>1, <1>9, <1>10, <1>11, <1>12, <1>13, <1>b, <1>d DEF Next, vars

\* Every step leaves the two tasks typed.
LEMMA TasksTyped ==
  ASSUME TypeOK, [Next]_vars
  PROVE  /\ (applying \subseteq Call)'
         /\ (placing \in [Call -> {"none", "media", "offering", "inviting", "done"}])'
         /\ (taking \in [Call -> {"none", "describing", "media", "answering", "done"}])'
<1> DEFINE Goal ==
         /\ (applying \subseteq Call)'
         /\ (placing \in [Call -> {"none", "media", "offering", "inviting", "done"}])'
         /\ (taking \in [Call -> {"none", "describing", "media", "answering", "done"}])'
<1> USE DEF TypeOK, taskVars
<1>1. ASSUME NEW c \in Call,
             \/ StartCall(c) \/ PlacingMedia(c) \/ PlacingFails(c) \/ Invite(c)
             \/ LookedUp(c) \/ Describe(c) \/ TakingMedia(c) \/ TakingFails(c)
             \/ Answer(c) \/ ApplyAnswer(c)
      PROVE  Goal
  BY <1>1 DEF StartCall, PlacingMedia, PlacingFails, Invite, LookedUp,
              Describe, TakingMedia, TakingFails, Answer, ApplyAnswer
<1>4. ASSUME NEW u \in User, Answered(u) PROVE Goal
  BY <1>4, ReadTyped DEF Answered
<1>2. ASSUME NEW u \in User, 
          \/ Ack(u) \/ Refused(u) \/ BeCalled(u)
          \/ Rejected(u) \/ Ended(u)
          \/ RingTimeout(u) \/ FallbackFires(u) \/ ErrorFires(u)
          \/ Accept(u) \/ HangUp(u) \/ Connect(u) \/ ConnectionLost(u)
          \/ Drop(u) \/ Reload(u)
      PROVE  Goal
  BY <1>2 DEF Ack, Refused, BeCalled, Rejected, Ended,
              RingTimeout, FallbackFires, ErrorFires, Accept, HangUp, Connect,
              ConnectionLost, Drop, Reload
<1>3. QED
  BY <1>1, <1>2, <1>4 DEF Next, vars

\* Every step leaves the inboxes typed.
LEMMA InboxTyped ==
  ASSUME TypeOK, [Next]_vars
  PROVE  (inbox \in [User -> Seq(Event)])'
<1>1. inbox \in [User -> Seq(Event)] /\ phone \in [User -> Phone]
  BY DEF TypeOK
<1>2. \A u \in User : phone[u].call \in CallOrNone /\ phone[u].ring \in CallOrNone
  BY <1>1 DEF Phone
<1>s. \A u \in User, c \in Call, k \in EventKind :
        Send(u, Ev(k, c)) => inbox' \in [User -> Seq(Event)]
  BY SendTyped DEF Send
<1>3. ASSUME NEW c \in Call, LookedUp(c) PROVE inbox' \in [User -> Seq(Event)]
  <2>1. Ev("ack", c) \in Event /\ Ev("refused", c) \in Event
          /\ Ev("incoming", c) \in Event
    BY DEF Ev, Event, EventKind
  <2>2. \A s \in Seq(Event) : /\ Append(s, Ev("ack", c)) \in Seq(Event)
                              /\ Append(s, Ev("refused", c)) \in Seq(Event)
                              /\ Append(s, Ev("incoming", c)) \in Seq(Event)
    BY <2>1
  <2>3. From[c] \in User /\ To[c] \in User /\ From[c] # To[c]
    BY CallAssumption
  <2>4. CASE inbox' = [inbox EXCEPT ![To[c]] = Append(@, Ev("incoming", c)),
                                   ![From[c]] = Append(@, Ev("ack", c))]
    BY <2>2, <2>3, <2>4, <1>1
  <2>5. CASE Send(From[c], Ev("refused", c))
    BY <2>2, <2>3, <2>5, <1>1 DEF Send
  <2>6. CASE UNCHANGED inbox
    BY <1>1, <2>6
  <2>7. QED
    BY <1>3, <2>4, <2>5, <2>6 DEF LookedUp
<1>4. ASSUME NEW c \in Call, Answer(c) PROVE inbox' \in [User -> Seq(Event)]
  BY <1>4, <1>1, <1>s, CallAssumption DEF Answer, EventKind
<1>5. ASSUME NEW u \in User,
             Ack(u) \/ Refused(u) \/ Answered(u) \/ Rejected(u) \/ Ended(u)
      PROVE  inbox' \in [User -> Seq(Event)]
  BY <1>5, ReadTyped DEF Ack, Refused, Answered, Rejected, Ended, TakeEvent
<1>6. ASSUME NEW u \in User, BeCalled(u) PROVE inbox' \in [User -> Seq(Event)]
  <2> DEFINE c == Head(inbox[u]).call
  <2>1. c \in Call /\ Tail(inbox[u]) \in Seq(Event)
    BY <1>6, ReadTyped DEF BeCalled
  <2>2. Ev("rejected", c) \in Event /\ From[c] \in User
    BY <2>1, CallAssumption DEF Ev, Event, EventKind
  <2>3. \A s \in Seq(Event) : Append(s, Ev("rejected", c)) \in Seq(Event)
    BY <2>2
  <2>4. CASE TakeEvent(u)
    BY <2>1, <2>4, <1>1 DEF TakeEvent
  <2>5. CASE inbox' = [inbox EXCEPT ![u] = Tail(@),
                                ![From[c]] = Append(@, Ev("rejected", c))]
    BY <2>1, <2>2, <2>3, <2>5, <1>1
  <2>6. QED
    BY <1>6, <2>4, <2>5 DEF BeCalled
<1>7. ASSUME NEW u \in User, RingTimeout(u)
      PROVE  inbox' \in [User -> Seq(Event)]
  <2>1. phone[u].ring \in Call /\ Peer(phone[u].ring, u) \in User
    BY <1>7, <1>2, CallAssumption DEF RingTimeout, CallOrNone, Peer
  <2>2. QED
    BY <1>7, <2>1, <1>s DEF RingTimeout, EventKind
<1>8. ASSUME NEW u \in User, HangUp(u)
      PROVE  inbox' \in [User -> Seq(Event)]
  <2>1. phone[u].call \in Call /\ Peer(phone[u].call, u) \in User
    BY <1>8, <1>2, CallAssumption DEF HangUp, CallOrNone, Peer
  <2> DEFINE k == IF Incoming(u) /\ phone[u].client = None /\ ~phone[u].connected
                  THEN "rejected" ELSE "ended"
  <2>2. k \in EventKind /\ Send(Peer(phone[u].call, u), Ev(k, phone[u].call))
    BY <1>8 DEF HangUp, EventKind
  <2>3. QED
    BY <2>1, <2>2, <1>s
<1>9. ASSUME NEW u \in User, Drop(u) \/ Reload(u)
      PROVE  inbox' \in [User -> Seq(Event)]
  <2>1. <<>> \in Seq(Event)
    OBVIOUS
  <2>2. inbox' = [inbox EXCEPT ![u] = <<>>]
    BY <1>9 DEF Drop, Reload
  <2>3. QED
    BY <1>1, <2>1, <2>2
<1>10. ASSUME NEW u \in User, 
              \/ FallbackFires(u) \/ ErrorFires(u) \/ Accept(u) \/ Connect(u)
              \/ ConnectionLost(u)
       PROVE  inbox' = inbox
  BY <1>10 DEF FallbackFires, ErrorFires, Accept, Connect, ConnectionLost
<1>11. ASSUME NEW c \in Call,
              \/ StartCall(c) \/ PlacingMedia(c) \/ PlacingFails(c) \/ Invite(c)
              \/ Describe(c) \/ TakingMedia(c) \/ TakingFails(c)
              \/ ApplyAnswer(c)
       PROVE  inbox' = inbox
  BY <1>11 DEF StartCall, PlacingMedia, PlacingFails, Invite, Describe,
               TakingMedia, TakingFails, ApplyAnswer
<1>12. QED
  BY <1>1, <1>3, <1>4, <1>5, <1>6, <1>7, <1>8, <1>9, <1>10, <1>11
     DEF Next, vars

\* Every step leaves the sets of streams, invitations, answers and entries typed.
LEMMA SetsTyped ==
  ASSUME TypeOK, [Next]_vars
  PROVE  /\ (mic \subseteq User \X Call)'
         /\ (log \subseteq User \X Call \X {"connected", "noAnswer", "missed"})'
         /\ (lookups \subseteq Call /\ invited \subseteq Call)'
         /\ (answered \subseteq Call /\ applied \subseteq Call)'
<1> DEFINE Goal == 
         /\ (mic \subseteq User \X Call)'
         /\ (log \subseteq User \X Call \X {"connected", "noAnswer", "missed"})'
         /\ (lookups \subseteq Call /\ invited \subseteq Call)'
         /\ (answered \subseteq Call /\ applied \subseteq Call)'
<1>1. /\ mic \subseteq User \X Call
      /\ log \subseteq User \X Call \X {"connected", "noAnswer", "missed"}
      /\ lookups \subseteq Call /\ invited \subseteq Call
      /\ answered \subseteq Call /\ applied \subseteq Call
      /\ phone \in [User -> Phone]
  BY DEF TypeOK
<1>2. ASSUME NEW c \in Call, PlacingMedia(c) \/ TakingMedia(c) PROVE Goal
  BY <1>1, <1>2, CallAssumption DEF PlacingMedia, TakingMedia, netVars
<1>3. ASSUME NEW c \in Call,
             \/ StartCall(c) \/ PlacingFails(c) \/ Invite(c) \/ LookedUp(c)
             \/ Describe(c) \/ TakingFails(c) \/ Answer(c) \/ ApplyAnswer(c)
      PROVE  Goal
  BY <1>1, <1>3 DEF StartCall, PlacingFails, Invite, LookedUp, Describe,
                    TakingFails, Answer, ApplyAnswer, netVars
<1>4. ASSUME NEW u \in User, Ended(u) \/ ErrorFires(u) \/ HangUp(u) PROVE Goal
  <2>1. PICK e \in CallOrNone : Reset(u, e) \/ UNCHANGED <<phone, mic, log>>
    BY <1>1, <1>4 DEF Ended, ErrorFires, HangUp, Phone, CallOrNone
  <2>2. UNCHANGED netVars /\ UNCHANGED applied
    BY <1>4 DEF Ended, ErrorFires, HangUp
  <2>3. QED
    BY <1>1, <2>1, <2>2, ResetTyped DEF netVars
<1>5. ASSUME NEW u \in User, Answered(u) PROVE Goal
  BY <1>1, <1>5, ReadTyped DEF Answered, netVars
<1>6. ASSUME NEW u \in User, Reload(u) PROVE Goal
  BY <1>1, <1>6 DEF Reload, netVars
<1>7. ASSUME NEW u \in User,
             \/ Ack(u) \/ Refused(u) \/ BeCalled(u) \/ Rejected(u)
             \/ RingTimeout(u) \/ FallbackFires(u) \/ Accept(u) \/ Connect(u)
             \/ ConnectionLost(u) \/ Drop(u)
      PROVE  Goal
  BY <1>1, <1>7 DEF Ack, Refused, BeCalled, Rejected, RingTimeout,
       FallbackFires, Accept, Connect, ConnectionLost, Drop, netVars
<1>8. CASE UNCHANGED vars
  BY <1>1, <1>8 DEF vars, netVars
<1>9. QED
  BY <1>2, <1>3, <1>4, <1>5, <1>6, <1>7, <1>8 DEF Next

\* Every step preserves the type invariant.
LEMMA TypeStep ==
  ASSUME TypeOK, [Next]_vars
  PROVE  TypeOK'
<1>1. QED
  BY PhoneTyped, TasksTyped, InboxTyped, SetsTyped DEF TypeOK

-----------------------------------------------------------------------------
(* What a step does to the events under way                                *)

\* The event that is read is under way.
LEMMA HeadQueued ==
  ASSUME TypeOK, NEW u \in User, NEW k, Reads(u, k)
  PROVE  Queued(u, k, Head(inbox[u]).call)
<1>1. inbox[u] \in Seq(Event)
  BY DEF TypeOK
<1>2. 1 \in 1 .. Len(inbox[u]) /\ inbox[u][1] = Head(inbox[u])
  BY <1>1 DEF Reads
<1>3. QED
  BY <1>2 DEF Queued, Reads

\* Sending puts no other event under way than the one that is sent.
LEMMA SendQueues ==
  ASSUME TypeOK, NEW u \in User, NEW c \in Call, NEW k \in EventKind,
         Send(u, Ev(k, c)),
         NEW v \in User, NEW l, NEW d, Queued(v, l, d)'
  PROVE  Queued(v, l, d) \/ (v = u /\ l = k /\ d = c)
<1>1. inbox[u] \in Seq(Event) /\ inbox \in [User -> Seq(Event)]
  BY DEF TypeOK
<1>2. Ev(k, c) \in Event /\ Ev(k, c).kind = k /\ Ev(k, c).call = c
  BY DEF Ev, Event
<1>3. PICK i \in 1 .. Len(inbox'[v]) : inbox'[v][i].kind = l /\ inbox'[v][i].call = d
  BY DEF Queued
<1>4. CASE v # u
  BY <1>1, <1>3, <1>4 DEF Send, Queued
<1>5. CASE v = u
  <2>1. inbox'[u] = Append(inbox[u], Ev(k, c))
    BY <1>1 DEF Send
  <2>2. CASE i = Len(inbox[u]) + 1
    BY <1>1, <1>2, <1>3, <1>5, <2>1, <2>2
  <2>3. CASE i # Len(inbox[u]) + 1
    <3>1. i \in 1 .. Len(inbox[u]) /\ inbox'[u][i] = inbox[u][i]
      BY <1>1, <1>2, <1>3, <1>5, <2>1, <2>3
    <3>2. QED
      BY <3>1, <1>3, <1>5 DEF Queued
  <2>4. QED
    BY <2>2, <2>3
<1>6. QED
  BY <1>4, <1>5

\* Taking the first event puts none under way.
LEMMA TakeQueues ==
  ASSUME TypeOK, NEW u \in User, inbox[u] # <<>>, TakeEvent(u),
         NEW v \in User, NEW l, NEW d, Queued(v, l, d)'
  PROVE  Queued(v, l, d)
<1>1. inbox[u] \in Seq(Event) /\ inbox \in [User -> Seq(Event)]
  BY DEF TypeOK
<1>2. PICK i \in 1 .. Len(inbox'[v]) : inbox'[v][i].kind = l /\ inbox'[v][i].call = d
  BY DEF Queued
<1>3. CASE v # u
  BY <1>1, <1>2, <1>3 DEF TakeEvent, Queued
<1>4. CASE v = u
  <2>1. inbox'[u] = Tail(inbox[u])
    BY <1>1 DEF TakeEvent
  <2>2. i + 1 \in 1 .. Len(inbox[u]) /\ inbox'[u][i] = inbox[u][i + 1]
    BY <1>1, <1>2, <1>4, <2>1
  <2>3. QED
    BY <2>2, <1>2, <1>4 DEF Queued
<1>5. QED
  BY <1>3, <1>4

\* The callee of d declines it, or its phone does because it is busy.
Declines(u, d) ==
    \/ HangUp(u) /\ phone[u].call = d /\ Incoming(u) /\ phone[u].client = None
    \/ BeCalled(u) /\ phone[u].call # None /\ Head(inbox[u]).call = d

\* Where an event under way comes from, whatever the step: it was there, or
\* the relay, an answer or a refusal has just put it there.
LEMMA QueueStep ==
  ASSUME TypeOK, [Next]_vars, NEW v \in User, NEW l, NEW d \in Call,
         Queued(v, l, d)'
  PROVE  \/ Queued(v, l, d)
         \/ l \in {"ack", "incoming"} /\ LookedUp(d) /\ d \in invited'
              /\ (l = "incoming" => v = To[d])
         \/ l = "answered" /\ d \in answered'
         \/ l \in {"refused", "ended"}
         \/ l = "rejected" /\ \E u \in User : Declines(u, d)
<1> DEFINE Goal ==
         \/ Queued(v, l, d)
         \/ l \in {"ack", "incoming"} /\ LookedUp(d) /\ d \in invited'
              /\ (l = "incoming" => v = To[d])
         \/ l = "answered" /\ d \in answered'
         \/ l \in {"refused", "ended"}
         \/ l = "rejected" /\ \E u \in User : Declines(u, d)
<1>1. inbox \in [User -> Seq(Event)] /\ phone \in [User -> Phone]
  BY DEF TypeOK
<1>2. \A u \in User : phone[u].call \in CallOrNone /\ phone[u].ring \in CallOrNone
  BY <1>1 DEF Phone
<1>3. ASSUME NEW c \in Call, LookedUp(c) PROVE Goal
  <2>1. From[c] \in User /\ To[c] \in User /\ From[c] # To[c]
    BY CallAssumption
  <2>2. CASE Send(From[c], Ev("refused", c))
    BY <2>1, <2>2, SendQueues DEF EventKind
  <2>3. CASE /\ inbox' = [inbox EXCEPT ![To[c]] = Append(@, Ev("incoming", c)),
                                   ![From[c]] = Append(@, Ev("ack", c))]
             /\ invited' = invited \cup {c}
    <3>1. PICK i \in 1 .. Len(inbox'[v]) :
             inbox'[v][i].kind = l /\ inbox'[v][i].call = d
      BY DEF Queued
    <3>2. /\ Ev("incoming", c) \in Event /\ Ev("incoming", c).kind = "incoming"
          /\ Ev("incoming", c).call = c
          /\ Ev("ack", c) \in Event /\ Ev("ack", c).kind = "ack"
          /\ Ev("ack", c).call = c
      BY DEF Ev, Event, EventKind
    <3>3. inbox[v] \in Seq(Event)
      BY <1>1
    <3>4. CASE v = To[c]
      <4>1. inbox'[v] = Append(inbox[v], Ev("incoming", c))
        BY <1>1, <2>1, <2>3, <3>4
      <4>2. CASE i = Len(inbox[v]) + 1
        BY <1>3, <2>3, <3>1, <3>2, <3>3, <3>4, <4>1, <4>2
      <4>3. CASE i # Len(inbox[v]) + 1
        <5>1. i \in 1 .. Len(inbox[v]) /\ inbox'[v][i] = inbox[v][i]
          BY <3>1, <3>2, <3>3, <4>1, <4>3
        <5>2. QED
          BY <5>1, <3>1 DEF Queued
      <4>4. QED
        BY <4>2, <4>3
    <3>5. CASE v = From[c]
      <4>1. inbox'[v] = Append(inbox[v], Ev("ack", c))
        BY <1>1, <2>1, <2>3, <3>5
      <4>2. CASE i = Len(inbox[v]) + 1
        BY <1>3, <2>3, <3>1, <3>2, <3>3, <3>5, <4>1, <4>2
      <4>3. CASE i # Len(inbox[v]) + 1
        <5>1. i \in 1 .. Len(inbox[v]) /\ inbox'[v][i] = inbox[v][i]
          BY <3>1, <3>2, <3>3, <4>1, <4>3
        <5>2. QED
          BY <5>1, <3>1 DEF Queued
      <4>4. QED
        BY <4>2, <4>3
    <3>6. CASE v # To[c] /\ v # From[c]
      <4>1. inbox'[v] = inbox[v]
        BY <1>1, <2>3, <3>6
      <4>2. QED
        BY <3>1, <4>1 DEF Queued
    <3>7. QED
      BY <3>4, <3>5, <3>6
  <2>4. CASE UNCHANGED inbox
    BY <2>4 DEF Queued
  <2>5. QED
    BY <1>3, <2>2, <2>3, <2>4 DEF LookedUp
<1>4. ASSUME NEW c \in Call, Answer(c) PROVE Goal
  <2>1. From[c] \in User
    BY CallAssumption
  <2>2. CASE Send(From[c], Ev("answered", c)) /\ answered' = answered \cup {c}
    BY <2>1, <2>2, SendQueues DEF EventKind
  <2>3. CASE UNCHANGED inbox
    BY <2>3 DEF Queued
  <2>4. QED
    BY <1>4, <2>2, <2>3 DEF Answer
<1>5. ASSUME NEW u \in User,
             Ack(u) \/ Refused(u) \/ Answered(u) \/ Rejected(u) \/ Ended(u)
      PROVE  Goal
  <2>1. inbox[u] # <<>> /\ TakeEvent(u)
    BY <1>5 DEF Ack, Refused, Answered, Rejected, Ended, Reads
  <2>2. QED
    BY <2>1, TakeQueues
<1>6. ASSUME NEW u \in User, BeCalled(u) PROVE Goal
  <2> DEFINE c == Head(inbox[u]).call
  <2>1. /\ c \in Call /\ inbox[u] # <<>>
        /\ inbox[u] \in Seq(Event) /\ Tail(inbox[u]) \in Seq(Event)
    BY <1>1, <1>6, ReadTyped DEF BeCalled, Reads
  <2>2. CASE TakeEvent(u)
    BY <2>1, <2>2, TakeQueues
  <2>3. CASE /\ inbox' = [inbox EXCEPT ![u] = Tail(@),
                                ![From[c]] = Append(@, Ev("rejected", c))]
             /\ phone[u].call # None
    <3>1. PICK i \in 1 .. Len(inbox'[v]) :
             inbox'[v][i].kind = l /\ inbox'[v][i].call = d
      BY DEF Queued
    <3>2. /\ Ev("rejected", c) \in Event /\ Ev("rejected", c).kind = "rejected"
          /\ Ev("rejected", c).call = c
      BY <2>1 DEF Ev, Event, EventKind
    <3>3. From[c] \in User
      BY <2>1, CallAssumption
    <3>4. ASSUME l = "rejected", d = c PROVE Goal
      BY <1>6, <2>3, <3>4 DEF Declines
    <3>5. ASSUME NEW s \in Seq(Event), i # Len(s) + 1,
                 inbox'[v] = Append(s, Ev("rejected", c))
          PROVE  i \in 1 .. Len(s) /\ inbox'[v][i] = s[i]
      BY <3>1, <3>2, <3>5
    <3>6. ASSUME i \in 1 .. Len(Tail(inbox[u])), v = u,
                 inbox'[v][i] = Tail(inbox[u])[i]
          PROVE  Goal
      <4>1. i + 1 \in 1 .. Len(inbox[u]) /\ Tail(inbox[u])[i] = inbox[u][i + 1]
        BY <2>1, <3>6
      <4>2. QED
        BY <4>1, <3>1, <3>6 DEF Queued
    <3>7. CASE v = u /\ u # From[c]
      BY <1>1, <2>3, <3>1, <3>6, <3>7
    <3>8. CASE v = From[c] /\ u # From[c]
      <4>1. inbox'[v] = Append(inbox[v], Ev("rejected", c)) /\ inbox[v] \in Seq(Event)
        BY <1>1, <2>3, <3>3, <3>8
      <4>2. CASE i = Len(inbox[v]) + 1
        BY <3>1, <3>2, <3>4, <4>1, <4>2
      <4>3. CASE i # Len(inbox[v]) + 1
        BY <3>1, <3>5, <4>1, <4>3 DEF Queued
      <4>4. QED
        BY <4>2, <4>3
    <3>9. CASE v = u /\ u = From[c]
      <4>1. inbox'[v] = Append(Tail(inbox[u]), Ev("rejected", c))
        BY <1>1, <2>3, <3>3, <3>9
      <4>2. CASE i = Len(Tail(inbox[u])) + 1
        BY <2>1, <3>1, <3>2, <3>4, <4>1, <4>2
      <4>3. CASE i # Len(Tail(inbox[u])) + 1
        BY <2>1, <3>1, <3>5, <3>6, <3>9, <4>1, <4>3
      <4>4. QED
        BY <4>2, <4>3
    <3>10. CASE v # u /\ v # From[c]
      BY <1>1, <2>3, <3>1, <3>10 DEF Queued
    <3>11. QED
      BY <3>7, <3>8, <3>9, <3>10
  <2>4. QED
    BY <1>6, <2>2, <2>3 DEF BeCalled
<1>7. ASSUME NEW u \in User, RingTimeout(u) PROVE Goal
  <2>1. phone[u].ring \in Call /\ Peer(phone[u].ring, u) \in User
    BY <1>7, <1>2, CallAssumption DEF RingTimeout, CallOrNone, Peer
  <2>2. QED
    BY <1>7, <2>1, SendQueues DEF RingTimeout, EventKind
<1>8. ASSUME NEW u \in User, HangUp(u) PROVE Goal
  <2>1. phone[u].call \in Call /\ Peer(phone[u].call, u) \in User
    BY <1>8, <1>2, CallAssumption DEF HangUp, CallOrNone, Peer
  <2>2. CASE Incoming(u) /\ phone[u].client = None /\ ~phone[u].connected
    <3>1. Send(Peer(phone[u].call, u), Ev("rejected", phone[u].call))
      BY <1>8, <2>2 DEF HangUp
    <3>2. QED
      BY <1>8, <2>1, <2>2, <3>1, SendQueues DEF EventKind, Declines
  <2>3. CASE ~(Incoming(u) /\ phone[u].client = None /\ ~phone[u].connected)
    <3>1. Send(Peer(phone[u].call, u), Ev("ended", phone[u].call))
      BY <1>8, <2>3 DEF HangUp
    <3>2. QED
      BY <2>1, <3>1, SendQueues DEF EventKind
  <2>4. QED
    BY <2>2, <2>3
<1>9. ASSUME NEW u \in User, Drop(u) \/ Reload(u) PROVE Goal
  <2>1. inbox' = [inbox EXCEPT ![u] = <<>>]
    BY <1>9 DEF Drop, Reload
  <2>2. QED
    BY <1>1, <2>1 DEF Queued
<1>10. ASSUME NEW u \in User,
              \/ FallbackFires(u) \/ ErrorFires(u) \/ Accept(u) \/ Connect(u)
              \/ ConnectionLost(u)
       PROVE  Goal
  BY <1>10 DEF FallbackFires, ErrorFires, Accept, Connect, ConnectionLost, Queued
<1>11. ASSUME NEW c \in Call,
              \/ StartCall(c) \/ PlacingMedia(c) \/ PlacingFails(c) \/ Invite(c)
              \/ Describe(c) \/ TakingMedia(c) \/ TakingFails(c)
              \/ ApplyAnswer(c)
       PROVE  Goal
  BY <1>11 DEF StartCall, PlacingMedia, PlacingFails, Invite, Describe,
               TakingMedia, TakingFails, ApplyAnswer, Queued
<1>12. CASE UNCHANGED vars
  BY <1>12 DEF vars, Queued
<1>13. QED
  BY <1>3, <1>4, <1>5, <1>6, <1>7, <1>8, <1>9, <1>10, <1>11, <1>12 DEF Next

\* The phone of u rings: it takes the invitation at the head of its inbox.
Rings(u, c) ==
    BeCalled(u) /\ phone[u].call = None /\ Head(inbox[u]).call = c

\* resetCallState empties one phone and leaves the others alone.
LEMMA ResetPhone ==
  ASSUME TypeOK, NEW u \in User, NEW e, Reset(u, e)
  PROVE  /\ phone'[u].call = None /\ phone'[u].client = None
         /\ phone'[u].fallback = None
         /\ \A v \in User : v # u => phone'[v] = phone[v]
BY DEF TypeOK, Reset, SetPhone, IdlePhone

\* The call and the client of a phone change in four ways only: a teardown, a
\* call placed, a call that rings and a call accepted.
LEMMA PhoneStep ==
  ASSUME TypeOK, ClientOfCall, [Next]_vars, NEW v \in User
  PROVE  \/ /\ phone'[v].call = None /\ phone'[v].client = None
            /\ Ended(v) \/ ErrorFires(v) \/ HangUp(v) \/ Reload(v)
         \/ /\ phone'[v].call = phone[v].call
            /\ phone'[v].client = phone[v].client
         \/ /\ phone'[v].call \in Call
            /\ StartCall(phone'[v].call) /\ From[phone'[v].call] = v
            /\ phone[v].call = None
            /\ phone'[v].client = phone'[v].call
         \/ /\ phone'[v].call \in Call
            /\ Rings(v, phone'[v].call)
            /\ phone'[v].client = None
         \/ /\ phone'[v].call = phone[v].call
            /\ phone[v].client = None
            /\ phone'[v].client = phone[v].call
            /\ Accept(v)
<1> DEFINE Goal ==
         \/ /\ phone'[v].call = None /\ phone'[v].client = None
            /\ Ended(v) \/ ErrorFires(v) \/ HangUp(v) \/ Reload(v)
         \/ /\ phone'[v].call = phone[v].call
            /\ phone'[v].client = phone[v].client
         \/ /\ phone'[v].call \in Call
            /\ StartCall(phone'[v].call) /\ From[phone'[v].call] = v
            /\ phone[v].call = None
            /\ phone'[v].client = phone'[v].call
         \/ /\ phone'[v].call \in Call
            /\ Rings(v, phone'[v].call)
            /\ phone'[v].client = None
         \/ /\ phone'[v].call = phone[v].call
            /\ phone[v].client = None
            /\ phone'[v].client = phone[v].call
            /\ Accept(v)
<1>1. phone \in [User -> Phone]
  BY DEF TypeOK
<1>2. \A u \in User : FailCall(u) =>
         /\ phone'[v].call = phone[v].call
         /\ phone'[v].client = phone[v].client
  BY <1>1 DEF FailCall, SetPhone, Phone
<1>3. ASSUME NEW u \in User, MarkConnected(u)
      PROVE  /\ phone'[v].call = phone[v].call
             /\ phone'[v].client = phone[v].client
  <2>1. CASE SetPhone(u, [phone[u] EXCEPT !.fallback = None])
    BY <1>1, <2>1 DEF SetPhone, Phone
  <2>2. CASE SetPhone(u, [phone[u] EXCEPT !.connected = TRUE, !.ring = None,
                                          !.fallback = None])
    BY <1>1, <2>2 DEF SetPhone, Phone
  <2>3. QED
    BY <1>3, <2>1, <2>2 DEF MarkConnected
<1>4. \A u \in User, c \in Call : Caught(u, c) =>
         /\ phone'[v].call = phone[v].call
         /\ phone'[v].client = phone[v].client
  BY <1>2 DEF Caught
<1>5. ASSUME NEW c \in Call, StartCall(c) PROVE Goal
  BY <1>1, <1>5, CallAssumption DEF StartCall, SetPhone, Phone, IdlePhone
<1>6. ASSUME NEW c \in Call, PlacingFails(c) \/ TakingFails(c) PROVE Goal
  BY <1>4, <1>6, CallAssumption DEF PlacingFails, TakingFails
<1>7. ASSUME NEW c \in Call, Describe(c) \/ Answer(c) PROVE Goal
  BY <1>1, <1>7, CallAssumption DEF Describe, Answer, SetPhone, Phone
<1>8. ASSUME NEW c \in Call,
             PlacingMedia(c) \/ Invite(c) \/ LookedUp(c) \/ TakingMedia(c)
      PROVE  Goal
  BY <1>8 DEF PlacingMedia, Invite, LookedUp, TakingMedia
<1>9. ASSUME NEW u \in User, Ack(u) PROVE Goal
  <2>1. \/ phone' = phone
        \/ SetPhone(u, [phone[u] EXCEPT !.sent = TRUE,
                                        !.ring = Head(inbox[u]).call])
    BY <1>9 DEF Ack
  <2>2. CASE v = u
    BY <1>1, <2>1, <2>2 DEF SetPhone, Phone
  <2>3. CASE v # u
    BY <1>1, <2>1, <2>3 DEF SetPhone
  <2>4. QED
    BY <2>2, <2>3
<1>10. ASSUME NEW u \in User, Refused(u) \/ Rejected(u) PROVE Goal
  BY <1>4, <1>10, ReadTyped DEF Refused, Rejected
<1>11. ASSUME NEW u \in User, BeCalled(u) PROVE Goal
  <2>1. Head(inbox[u]).call \in Call
    BY <1>11, ReadTyped DEF BeCalled
  <2>2. CASE phone[u].call = None
    <3>1. phone[u].client = None
      BY <2>2 DEF ClientOfCall
    <3>2. SetPhone(u, [phone[u] EXCEPT !.call = Head(inbox[u]).call, !.offer = TRUE])
      BY <1>11, <2>2 DEF BeCalled
    <3>3. CASE v = u
      <4>1. phone'[u].call = Head(inbox[u]).call /\ phone'[u].client = None
        BY <1>1, <3>1, <3>2 DEF SetPhone, Phone
      <4>2. QED
        BY <1>11, <2>1, <2>2, <3>3, <4>1 DEF Rings
    <3>4. CASE v # u
      BY <1>1, <3>2, <3>4 DEF SetPhone
    <3>5. QED
      BY <3>3, <3>4
  <2>3. CASE phone[u].call # None
    BY <1>11, <2>3 DEF BeCalled
  <2>4. QED
    BY <2>2, <2>3
<1>12. ASSUME NEW c \in Call, ApplyAnswer(c) PROVE Goal
  <2>1. From[c] \in User
    BY CallAssumption
  <2>2. CASE SetPhone(From[c], [phone[From[c]] EXCEPT !.fallback = c])
    BY <1>1, <2>1, <2>2 DEF SetPhone, Phone
  <2>3. CASE FailCall(From[c])
    BY <1>2, <2>1, <2>3
  <2>4. QED
    BY <1>12, <2>2, <2>3 DEF ApplyAnswer
<1>21. ASSUME NEW u \in User, Answered(u) PROVE Goal
  BY <1>21 DEF Answered
<1>13. ASSUME NEW u \in User, Ended(u) \/ ErrorFires(u) \/ HangUp(u) PROVE Goal
  <2>1. CASE phone' = phone
    BY <2>1
  <2>2. CASE \E e : Reset(u, e)
    <3>1. phone'[u].call = None /\ phone'[u].client = None
      BY <2>2, ResetPhone
    <3>2. v # u => phone'[v] = phone[v]
      BY <2>2, ResetPhone
    <3>3. QED
      BY <1>13, <3>1, <3>2
  <2>3. QED
    BY <1>13, <2>1, <2>2 DEF Ended, ErrorFires, HangUp
<1>14. ASSUME NEW u \in User, RingTimeout(u) PROVE Goal
  BY <1>1, <1>14 DEF RingTimeout, SetPhone, Phone
<1>15. ASSUME NEW u \in User, Accept(u) PROVE Goal
  BY <1>1, <1>15 DEF Accept, SetPhone, Phone
<1>16. ASSUME NEW u \in User, FallbackFires(u) \/ Connect(u) PROVE Goal
  BY <1>3, <1>16 DEF FallbackFires, Connect
<1>17. ASSUME NEW u \in User, ConnectionLost(u) \/ Drop(u) PROVE Goal
  BY <1>2, <1>17 DEF ConnectionLost, Drop
<1>18. ASSUME NEW u \in User, Reload(u) PROVE Goal
  <2>1. phone' = [phone EXCEPT ![u] = IdlePhone]
    BY <1>18 DEF Reload, SetPhone
  <2>2. IdlePhone.call = None /\ IdlePhone.client = None
    BY DEF IdlePhone
  <2>3. QED
    BY <1>1, <1>18, <2>1, <2>2
<1>19. CASE UNCHANGED vars
  BY <1>19 DEF vars
<1>20. QED
  BY <1>5, <1>6, <1>7, <1>8, <1>9, <1>10, <1>11, <1>12, <1>13, <1>14, <1>15,
     <1>16, <1>17, <1>18, <1>19, <1>21 DEF Next

\* Setting one phone leaves the others alone.
LEMMA Others ==
  ASSUME TypeOK, NEW u \in User, NEW p, SetPhone(u, p)
  PROVE  phone'[u] = p /\ \A v \in User : v # u => phone'[v] = phone[v]
BY DEF TypeOK, SetPhone

\* What a step may do to callInviteSentRef, to the 8 s timer and to
\* callConnectedRef.
SentFrom(v) ==
    phone'[v].sent =>
       \/ /\ phone[v].sent
          /\ \/ phone'[v].call \in {None, phone[v].call}
             \/ Rings(v, phone'[v].call)
       \/ Ack(v) /\ phone'[v].call = Head(inbox[v]).call

FallbackFrom(v) ==
    phone'[v].fallback # None =>
       \/ phone'[v].fallback = phone[v].fallback
       \/ v = To[phone'[v].fallback] /\ phone'[v].fallback \in Call
       \/ phone'[v].fallback \in applied'

ConnectedFrom(v) ==
    phone'[v].connected /\ ~phone[v].connected =>
       \/ phone[v].client \in applied
       \/ phone[v].fallback # None

\* Where a set callInviteSentRef, 8 s timer or callConnectedRef comes from.
LEMMA FlagStep ==
  ASSUME TypeOK, [Next]_vars, NEW v \in User
  PROVE  SentFrom(v) /\ FallbackFrom(v) /\ ConnectedFrom(v)
<1> DEFINE Goal == SentFrom(v) /\ FallbackFrom(v) /\ ConnectedFrom(v)
<1> USE DEF SentFrom, FallbackFrom, ConnectedFrom
<1>1. phone \in [User -> Phone] /\ None \notin Call
  BY CallAssumption DEF TypeOK
<1>2. ASSUME phone'[v] = phone[v] PROVE Goal
  BY <1>2
<1>3. ASSUME phone'[v].sent = phone[v].sent,
             phone'[v].call \in {None, phone[v].call},
             phone'[v].fallback \in {None, phone[v].fallback},
             phone'[v].connected => phone[v].connected
      PROVE  Goal
  BY <1>3
<1>4. ASSUME NEW u \in User, FailCall(u) PROVE Goal
  <2>1. CASE v = u
    BY <1>1, <1>3, <1>4, <2>1, Others DEF FailCall, Phone
  <2>2. CASE v # u
    BY <1>2, <1>4, <2>2, Others DEF FailCall
  <2>3. QED
    BY <2>1, <2>2
<1>5. ASSUME NEW u \in User, NEW c, Caught(u, c) PROVE Goal
  BY <1>2, <1>4, <1>5 DEF Caught
<1>6. ASSUME NEW u \in User, NEW e, Reset(u, e) PROVE Goal
  <2>1. CASE v = u
    <3>1. phone'[u] = [IdlePhone EXCEPT !.sent = phone[u].sent, !.err = e]
      BY <1>6, Others DEF Reset
    <3>2. /\ phone'[u].sent = phone[u].sent /\ phone'[u].call = None
          /\ phone'[u].fallback = None /\ phone'[u].connected = FALSE
      BY <3>1 DEF IdlePhone
    <3>3. QED
      BY <2>1, <3>2
  <2>2. CASE v # u
    BY <1>2, <1>6, <2>2, Others DEF Reset
  <2>3. QED
    BY <2>1, <2>2
<1>7. ASSUME NEW u \in User, MarkConnected(u),
             phone[u].client \in applied \/ phone[u].fallback # None
      PROVE  Goal
  <2>1. CASE v # u
    BY <1>2, <1>7, <2>1, Others DEF MarkConnected
  <2>2. CASE v = u /\ SetPhone(u, [phone[u] EXCEPT !.fallback = None])
    BY <1>1, <2>2, Others DEF Phone
  <2>3. CASE v = u /\ SetPhone(u, [phone[u] EXCEPT !.connected = TRUE,
                                      !.ring = None, !.fallback = None])
    <3>1. phone'[u] = [phone[u] EXCEPT !.connected = TRUE, !.ring = None,
                                       !.fallback = None]
      BY <2>3, Others
    <3>2. /\ phone'[u].sent = phone[u].sent /\ phone'[u].call = phone[u].call
          /\ phone'[u].fallback = None
      BY <1>1, <3>1 DEF Phone
    <3>3. QED
      BY <1>7, <2>3, <3>2
  <2>4. QED
    BY <1>7, <2>1, <2>2, <2>3 DEF MarkConnected
<1>8. ASSUME NEW c \in Call, StartCall(c) PROVE Goal
  <2> DEFINE u == From[c]
  <2>1. u \in User
    BY CallAssumption
  <2>2. SetPhone(u, [phone[u] EXCEPT !.call = c, !.client = c, !.sent = FALSE])
    BY <1>8 DEF StartCall
  <2>3. CASE v = u
    <3>1. /\ phone'[u].sent = FALSE /\ phone'[u].fallback = phone[u].fallback
          /\ phone'[u].connected = phone[u].connected
      <4>1. phone'[u] = [phone[u] EXCEPT !.call = c, !.client = c, !.sent = FALSE]
        BY <2>1, <2>2, Others
      <4>2. QED
        BY <1>1, <2>1, <4>1 DEF Phone
    <3>2. QED
      BY <2>3, <3>1
  <2>4. CASE v # u
    BY <1>2, <2>1, <2>2, <2>4, Others
  <2>5. QED
    BY <2>3, <2>4
<1>9. ASSUME NEW c \in Call, PlacingFails(c) \/ TakingFails(c) PROVE Goal
  BY <1>5, <1>9, CallAssumption DEF PlacingFails, TakingFails
<1>10. ASSUME NEW c \in Call, Describe(c) PROVE Goal
  <2> DEFINE u == To[c]
  <2>1. u \in User
    BY CallAssumption
  <2>2. CASE phone' = phone
    BY <1>2, <2>2
  <2>3. CASE SetPhone(u, [phone[u] EXCEPT !.fallback = c]) /\ v = u
    BY <1>1, <2>1, <2>3, Others DEF Phone
  <2>4. CASE SetPhone(u, [phone[u] EXCEPT !.fallback = c]) /\ v # u
    BY <1>2, <2>1, <2>4, Others
  <2>5. QED
    BY <1>10, <2>2, <2>3, <2>4 DEF Describe
<1>11. ASSUME NEW c \in Call, Answer(c) PROVE Goal
  <2> DEFINE u == To[c]
  <2>1. u \in User
    BY CallAssumption
  <2>2. CASE phone' = phone
    BY <1>2, <2>2
  <2>3. CASE SetPhone(u, [phone[u] EXCEPT !.offer = FALSE]) /\ v = u
    BY <1>1, <1>3, <2>1, <2>3, Others DEF Phone
  <2>4. CASE SetPhone(u, [phone[u] EXCEPT !.offer = FALSE]) /\ v # u
    BY <1>2, <2>1, <2>4, Others
  <2>5. QED
    BY <1>11, <2>2, <2>3, <2>4 DEF Answer
<1>12. ASSUME NEW u \in User, Ack(u) PROVE Goal
  <2> DEFINE p == [phone[u] EXCEPT !.sent = TRUE,
                                   !.ring = Head(inbox[u]).call]
  <2>1. CASE phone' = phone
    BY <1>2, <2>1
  <2>2. CASE SetPhone(u, p) /\ v = u /\ phone[u].call = Head(inbox[u]).call
    <3>1. phone'[u] = p
      BY <2>2, Others
    <3>2. /\ phone'[u].call = phone[u].call
          /\ phone'[u].fallback = phone[u].fallback
          /\ phone'[u].connected = phone[u].connected
      BY <1>1, <3>1 DEF Phone
    <3>3. QED
      BY <1>12, <2>2, <3>2
  <2>3. CASE SetPhone(u, p) /\ v # u
    BY <1>2, <2>3, Others
  <2>4. QED
    BY <1>12, <2>1, <2>2, <2>3 DEF Ack
<1>13. ASSUME NEW u \in User, BeCalled(u) PROVE Goal
  <2> DEFINE c == Head(inbox[u]).call
  <2>1. CASE phone' = phone
    BY <1>2, <2>1
  <2>2. CASE /\ SetPhone(u, [phone[u] EXCEPT !.call = c, !.offer = TRUE])
             /\ v = u /\ phone[u].call = None
    <3>1. /\ phone'[u].call = c /\ phone'[u].sent = phone[u].sent
          /\ phone'[u].fallback = phone[u].fallback
          /\ phone'[u].connected = phone[u].connected
      <4>1. phone'[u] = [phone[u] EXCEPT !.call = c, !.offer = TRUE]
        BY <2>2, Others
      <4>2. QED
        BY <1>1, <4>1 DEF Phone
    <3>2. Rings(u, c)
      BY <1>13, <2>2 DEF Rings
    <3>3. QED
      BY <2>2, <3>1, <3>2
  <2>3. CASE /\ SetPhone(u, [phone[u] EXCEPT !.call = c, !.offer = TRUE])
             /\ v # u
    BY <1>2, <2>3, Others
  <2>4. QED
    BY <1>13, <2>1, <2>2, <2>3 DEF BeCalled
<1>14. ASSUME NEW c \in Call, ApplyAnswer(c) PROVE Goal
  <2> DEFINE u == From[c]
  <2>u. u \in User
    BY CallAssumption
  <2>1. CASE phone' = phone
    BY <1>2, <2>1
  <2>2. CASE /\ SetPhone(u, [phone[u] EXCEPT !.fallback = c])
             /\ v = u /\ applied' = applied \cup {c}
    BY <1>1, <2>u, <2>2, Others DEF Phone
  <2>3. CASE SetPhone(u, [phone[u] EXCEPT !.fallback = c]) /\ v # u
    BY <1>2, <2>u, <2>3, Others
  <2>4. CASE FailCall(u)
    BY <1>4, <2>u, <2>4
  <2>5. QED
    BY <1>14, <2>1, <2>2, <2>3, <2>4 DEF ApplyAnswer
<1>25. ASSUME NEW u \in User, Answered(u) PROVE Goal
  BY <1>2, <1>25 DEF Answered
<1>15. ASSUME NEW u \in User, RingTimeout(u) PROVE Goal
  <2> DEFINE p == [phone[u] EXCEPT !.ring = None, !.err = phone[u].call]
  <2>1. SetPhone(u, p)
    BY <1>15 DEF RingTimeout
  <2>2. CASE v = u
    <3>1. phone'[u] = p
      BY <2>1, Others
    <3>2. /\ phone'[u].sent = phone[u].sent /\ phone'[u].call = phone[u].call
          /\ phone'[u].fallback = phone[u].fallback
          /\ phone'[u].connected = phone[u].connected
      BY <1>1, <3>1 DEF Phone
    <3>3. QED
      BY <1>3, <2>2, <3>2
  <2>3. CASE v # u
    BY <1>2, <2>1, <2>3, Others
  <2>4. QED
    BY <2>2, <2>3
<1>16. ASSUME NEW u \in User, Accept(u) PROVE Goal
  <2> DEFINE p == [phone[u] EXCEPT !.client = phone[u].call]
  <2>1. SetPhone(u, p)
    BY <1>16 DEF Accept
  <2>2. CASE v = u
    BY <1>1, <1>3, <2>1, <2>2, Others DEF Phone
  <2>3. CASE v # u
    BY <1>2, <2>1, <2>3, Others
  <2>4. QED
    BY <2>2, <2>3
<1>17. ASSUME NEW u \in User, Reload(u) PROVE Goal
  <2>1. CASE v = u
    <3>1. /\ phone'[u].sent = FALSE /\ phone'[u].fallback = None
          /\ phone'[u].connected = FALSE
      BY <1>17, Others DEF Reload, IdlePhone
    <3>2. QED
      BY <2>1, <3>1
  <2>2. CASE v # u
    BY <1>2, <1>17, <2>2, Others DEF Reload
  <2>3. QED
    BY <2>1, <2>2
<1>18. ASSUME NEW u \in User, Ended(u) \/ ErrorFires(u) \/ HangUp(u) PROVE Goal
  BY <1>2, <1>6, <1>18 DEF Ended, ErrorFires, HangUp
<1>19. ASSUME NEW u \in User, Refused(u) \/ Rejected(u) PROVE Goal
  BY <1>5, <1>19 DEF Refused, Rejected
<1>20. ASSUME NEW u \in User, FallbackFires(u) \/ Connect(u) PROVE Goal
  BY <1>7, <1>20 DEF FallbackFires, Connect
<1>21. ASSUME NEW u \in User, ConnectionLost(u) \/ Drop(u) PROVE Goal
  BY <1>2, <1>4, <1>21 DEF ConnectionLost, Drop
<1>22. ASSUME NEW c \in Call,
              PlacingMedia(c) \/ Invite(c) \/ LookedUp(c) \/ TakingMedia(c)
       PROVE  Goal
  BY <1>2, <1>22 DEF PlacingMedia, Invite, LookedUp, TakingMedia
<1>23. CASE UNCHANGED vars
  BY <1>2, <1>23 DEF vars
<1>24. QED
  BY <1>8, <1>9, <1>10, <1>11, <1>12, <1>13, <1>14, <1>15, <1>16, <1>17,
     <1>18, <1>19, <1>20, <1>21, <1>22, <1>23, <1>25 DEF Next

\* Invitations and answers are never undone.
LEMMA HistoryStep ==
  ASSUME [Next]_vars
  PROVE  invited \subseteq invited' /\ answered \subseteq answered'
<1> USE DEF netVars
<1>1. ASSUME NEW c \in Call,
             \/ StartCall(c) \/ PlacingMedia(c) \/ PlacingFails(c)
             \/ Invite(c) \/ LookedUp(c) \/ Describe(c) \/ TakingMedia(c)
             \/ TakingFails(c) \/ Answer(c) \/ ApplyAnswer(c)
      PROVE  invited \subseteq invited' /\ answered \subseteq answered'
  BY <1>1 DEF StartCall, PlacingMedia, PlacingFails, Invite, LookedUp,
              Describe, TakingMedia, TakingFails, Answer, ApplyAnswer
<1>2. ASSUME NEW u \in User,
             \/ Ack(u) \/ Refused(u) \/ BeCalled(u) \/ Answered(u)
             \/ Rejected(u) \/ Ended(u) \/ RingTimeout(u) \/ FallbackFires(u)
             \/ ErrorFires(u) \/ Accept(u) \/ HangUp(u) \/ Connect(u)
             \/ ConnectionLost(u) \/ Drop(u) \/ Reload(u)
      PROVE  invited \subseteq invited' /\ answered \subseteq answered'
  BY <1>2 DEF Ack, Refused, BeCalled, Answered, Rejected, Ended, RingTimeout,
       FallbackFires, ErrorFires, Accept, HangUp, Connect, ConnectionLost,
       Drop, Reload
<1>3. CASE UNCHANGED vars
  BY <1>3 DEF vars
<1>4. QED
  BY <1>1, <1>2, <1>3 DEF Next

\* A call is taken by Accept on a phone that rings for it, and answered by the
\* task that has taken it.
LEMMA TakingStep ==
  ASSUME TypeOK, Ringing, [Next]_vars, NEW c \in Call
  PROVE  /\ invited \subseteq invited' /\ answered \subseteq answered'
         /\ taking[c] = "done" => taking'[c] = "done"
         /\ taking[c] = "none" /\ taking'[c] # "none" =>
               /\ Accept(To[c]) /\ phone[To[c]].call = c
               /\ phone[To[c]].client = None
         /\ c \in answered' /\ c \notin answered =>
               taking[c] = "answering" /\ taking'[c] = "done"
<1> DEFINE Goal ==
         /\ invited \subseteq invited' /\ answered \subseteq answered'
         /\ taking[c] = "done" => taking'[c] = "done"
         /\ taking[c] = "none" /\ taking'[c] # "none" =>
               /\ Accept(To[c]) /\ phone[To[c]].call = c
               /\ phone[To[c]].client = None
         /\ c \in answered' /\ c \notin answered =>
               taking[c] = "answering" /\ taking'[c] = "done"
<1>1. taking \in [Call -> {"none", "describing", "media", "answering", "done"}]
  BY DEF TypeOK
<1>2. ASSUME NEW d \in Call,
             Describe(d) \/ TakingMedia(d) \/ TakingFails(d) \/ Answer(d)
      PROVE  Goal
  BY <1>1, <1>2 DEF Describe, TakingMedia, TakingFails, Answer, netVars
<1>3. ASSUME NEW d \in Call,
             \/ StartCall(d) \/ PlacingMedia(d) \/ PlacingFails(d)
             \/ Invite(d) \/ LookedUp(d) \/ ApplyAnswer(d)
      PROVE  Goal
  BY <1>3 DEF StartCall, PlacingMedia, PlacingFails, Invite, LookedUp,
              ApplyAnswer, netVars, taskVars
<1>4. ASSUME NEW u \in User, Accept(u) PROVE Goal
  <2>1. /\ taking' = [taking EXCEPT ![phone[u].call] = "describing"]
        /\ To[phone[u].call] = u /\ phone[u].client = None
        /\ UNCHANGED netVars
    BY <1>4 DEF Accept, Incoming
  <2>2. invited' = invited /\ answered' = answered
    BY <2>1 DEF netVars
  <2>3. CASE c = phone[u].call
    <3>1. u = To[c] /\ taking[c] = "none"
      BY <2>1, <2>3 DEF Ringing
    <3>2. Accept(To[c]) /\ phone[To[c]].call = c /\ phone[To[c]].client = None
      BY <1>4, <2>1, <2>3, <3>1
    <3>3. QED
      BY <2>2, <3>1, <3>2
  <2>4. CASE c # phone[u].call
    <3>1. taking'[c] = taking[c]
      BY <1>1, <2>1, <2>4
    <3>2. QED
      BY <2>2, <3>1
  <2>5. QED
    BY <2>3, <2>4
<1>5. ASSUME NEW u \in User, Reload(u) PROVE Goal
  BY <1>1, <1>5 DEF Reload, netVars
<1>6. ASSUME NEW u \in User,
             \/ Ack(u) \/ Refused(u) \/ BeCalled(u) \/ Answered(u)
             \/ Rejected(u) \/ Ended(u) \/ RingTimeout(u) \/ FallbackFires(u)
             \/ ErrorFires(u) \/ HangUp(u) \/ Connect(u) \/ ConnectionLost(u)
             \/ Drop(u)
      PROVE  Goal
  BY <1>6 DEF Ack, Refused, BeCalled, Answered, Rejected, Ended, RingTimeout,
       FallbackFires, ErrorFires, HangUp, Connect, ConnectionLost, Drop,
       netVars, taskVars
<1>7. CASE UNCHANGED vars
  BY <1>7 DEF vars, netVars, taskVars
<1>8. QED
  BY <1>2, <1>3, <1>4, <1>5, <1>6, <1>7 DEF Next

-----------------------------------------------------------------------------
(* The parts of the invariant                                              *)

\* The client of a phone stays with its call.
LEMMA ClientStep ==
  ASSUME TypeOK, ClientOfCall, [Next]_vars
  PROVE  ClientOfCall'
BY PhoneStep DEF ClientOfCall

\* No phone gets a call of other users: only its caller places it, and an
\* invitation goes to its callee.
LEMMA OwnStep ==
  ASSUME TypeOK, ClientOfCall, OwnCall, OnItsWay, [Next]_vars
  PROVE  OwnCall'
<1>1. SUFFICES ASSUME NEW v \in User, phone'[v].call # None
               PROVE  v \in {From[phone'[v].call], To[phone'[v].call]}
  BY DEF OwnCall
<1>2. CASE Rings(v, phone'[v].call)
  <2>1. Queued(v, "incoming", phone'[v].call) /\ phone'[v].call \in Call
    BY <1>2, HeadQueued, ReadTyped DEF Rings, BeCalled
  <2>2. QED
    BY <2>1 DEF OnItsWay
<1>3. CASE ~Rings(v, phone'[v].call)
  BY <1>1, <1>3, PhoneStep DEF OwnCall
<1>4. QED
  BY <1>2, <1>3

\* Whoever holds a stream for a call has that call's client on the phone: a
\* late stream is kept only by a client that is not disposed.
LEMMA MediaStep ==
  ASSUME TypeOK, ClientOfCall, NoOrphanMedia, [Next]_vars
  PROVE  NoOrphanMedia'
<1>1. /\ mic \subseteq User \X Call /\ phone \in [User -> Phone]
      /\ None \notin Call
  BY CallAssumption DEF TypeOK
<1>2. ASSUME NEW h \in mic', h \in mic, phone'[h[1]].client = phone[h[1]].client
      PROVE  phone'[h[1]].client = h[2]
  BY <1>2 DEF NoOrphanMedia
<1>3. ASSUME NEW h \in mic, h[1] \in User, h[2] \in Call
      PROVE  phone[h[1]].client = h[2] /\ phone[h[1]].client # None
               /\ phone[h[1]].call = h[2]
  BY <1>1, <1>3 DEF NoOrphanMedia, ClientOfCall
<1>4. \A h \in mic : h[1] \in User /\ h[2] \in Call /\ h = <<h[1], h[2]>>
  BY <1>1
<1>5. ASSUME NEW c \in Call, PlacingMedia(c) PROVE NoOrphanMedia'
  BY <1>1, <1>5 DEF PlacingMedia, NoOrphanMedia
<1>6. ASSUME NEW c \in Call, TakingMedia(c) PROVE NoOrphanMedia'
  BY <1>1, <1>6 DEF TakingMedia, NoOrphanMedia
<1>7. ASSUME NEW u \in User, NEW e, Reset(u, e) PROVE NoOrphanMedia'
  <2>1. mic' = mic \ {<<u, phone[u].client>>}
    BY <1>7 DEF Reset
  <2>2. \A h \in mic' : h \in mic /\ h[1] # u
    BY <2>1, <1>3, <1>4
  <2>3. \A v \in User : v # u => phone'[v] = phone[v]
    BY <1>7, ResetPhone
  <2>4. QED
    BY <2>2, <2>3, <1>4 DEF NoOrphanMedia
<1>8. ASSUME NEW u \in User, Reload(u) PROVE NoOrphanMedia'
  BY <1>1, <1>4, <1>8 DEF Reload, SetPhone, NoOrphanMedia
<1>9. ASSUME mic' = mic,
             \A u \in User : phone[u].client # None =>
                phone'[u].client = phone[u].client
      PROVE  NoOrphanMedia'
  BY <1>3, <1>4, <1>9 DEF NoOrphanMedia
<1>10. ASSUME NEW u \in User, Ended(u) \/ ErrorFires(u) \/ HangUp(u)
       PROVE  NoOrphanMedia'
  <2>1. CASE UNCHANGED <<phone, mic>>
    BY <2>1 DEF NoOrphanMedia
  <2>2. CASE ~UNCHANGED <<phone, mic>>
    BY <1>7, <1>10, <2>2 DEF Ended, ErrorFires, HangUp
  <2>3. QED
    BY <2>1, <2>2
<1>11. ASSUME ~\E u \in User : Ended(u) \/ ErrorFires(u) \/ HangUp(u) \/ Reload(u),
              mic' = mic
       PROVE  NoOrphanMedia'
  <2>1. \A u \in User : phone[u].client # None =>
           phone'[u].client = phone[u].client
    BY <1>11, PhoneStep DEF ClientOfCall, StartCall, Rings
  <2>2. QED
    BY <1>9, <1>11, <2>1
<1>12. \/ mic' = mic
       \/ \E c \in Call : PlacingMedia(c) \/ TakingMedia(c)
       \/ \E u \in User : Ended(u) \/ ErrorFires(u) \/ HangUp(u) \/ Reload(u)
  <2>1. ASSUME NEW c \in Call,
               \/ StartCall(c) \/ PlacingFails(c) \/ Invite(c) \/ LookedUp(c)
               \/ Describe(c) \/ TakingFails(c) \/ Answer(c) \/ ApplyAnswer(c)
        PROVE  mic' = mic
    BY <2>1 DEF StartCall, PlacingFails, Invite, LookedUp, Describe,
                TakingFails, Answer, ApplyAnswer
  <2>2. ASSUME NEW u \in User,
               \/ Ack(u) \/ Refused(u) \/ BeCalled(u) \/ Answered(u)
               \/ Rejected(u) \/ RingTimeout(u) \/ FallbackFires(u)
               \/ Accept(u) \/ Connect(u) \/ ConnectionLost(u) \/ Drop(u)
        PROVE  mic' = mic
    BY <2>2 DEF Ack, Refused, BeCalled, Answered, Rejected, RingTimeout,
                FallbackFires, Accept, Connect, ConnectionLost, Drop
  <2>3. QED
    BY <2>1, <2>2 DEF Next, vars
<1>13. QED
  BY <1>5, <1>6, <1>8, <1>10, <1>11, <1>12

\* startCall sends one invitation, which the server looks up once.
LEMMA InvitedStep ==
  ASSUME TypeOK, InvitedOnce, [Next]_vars
  PROVE  InvitedOnce'
<1> USE DEF TypeOK, InvitedOnce, netVars, taskVars
<1>1. ASSUME NEW c \in Call, Invite(c) \/ LookedUp(c) PROVE InvitedOnce'
  BY <1>1 DEF Invite, LookedUp
<1>2. ASSUME NEW c \in Call, StartCall(c) \/ PlacingMedia(c) \/ PlacingFails(c)
      PROVE  InvitedOnce'
  BY <1>2 DEF StartCall, PlacingMedia, PlacingFails
<1>3. ASSUME NEW c \in Call,
             \/ Describe(c) \/ TakingMedia(c) \/ TakingFails(c) \/ Answer(c)
             \/ ApplyAnswer(c)
      PROVE  InvitedOnce'
  BY <1>3 DEF Describe, TakingMedia, TakingFails, Answer, ApplyAnswer
<1>4. ASSUME NEW u \in User, Ack(u) \/ Refused(u) \/ Reload(u)
      PROVE  InvitedOnce'
  BY <1>4 DEF Ack, Refused, Reload
<1>5. ASSUME NEW u \in User,
             \/ BeCalled(u) \/ Answered(u) \/ Rejected(u) \/ Ended(u)
             \/ RingTimeout(u) \/ FallbackFires(u) \/ ErrorFires(u)
             \/ Accept(u) \/ HangUp(u) \/ Connect(u) \/ ConnectionLost(u)
             \/ Drop(u)
      PROVE  InvitedOnce'
  BY <1>5 DEF BeCalled, Answered, Rejected, Ended, RingTimeout, FallbackFires,
              ErrorFires, Accept, HangUp, Connect, ConnectionLost, Drop
<1>6. CASE UNCHANGED vars
  BY <1>6 DEF vars
<1>7. QED
  BY <1>1, <1>2, <1>3, <1>4, <1>5, <1>6 DEF Next

\* No acknowledgement and no invitation is under way for a call that was not
\* relayed.
LEMMA RelayedStep ==
  ASSUME TypeOK, RelayedEvents, [Next]_vars
  PROVE  RelayedEvents'
<1>1. SUFFICES ASSUME NEW u \in User, NEW c \in Call,
                      Queued(u, "ack", c)' \/ Queued(u, "incoming", c)'
               PROVE  c \in invited'
  BY DEF RelayedEvents
<1>2. invited \subseteq invited'
  BY HistoryStep
<1>3. CASE Queued(u, "ack", c)'
  BY <1>2, <1>3, QueueStep DEF RelayedEvents
<1>4. CASE Queued(u, "incoming", c)'
  BY <1>2, <1>4, QueueStep DEF RelayedEvents
<1>5. QED
  BY <1>1, <1>3, <1>4

\* callInviteSentRef is set by an acknowledgement only, and the ref stays with
\* the call it was set for.
LEMMA SentStep ==
  ASSUME TypeOK, ClientOfCall, RelayedEvents, SentReached, OnItsWay, [Next]_vars
  PROVE  SentReached'
<1>1. phone \in [User -> Phone] /\ None \notin Call
  BY CallAssumption DEF TypeOK
<1>2. SUFFICES ASSUME NEW v \in User, phone'[v].sent, Outgoing(v)'
               PROVE  phone'[v].call \in invited'
  BY DEF SentReached
<1>3. invited \subseteq invited'
  BY HistoryStep
<1>4. phone'[v].call # None /\ From[phone'[v].call] = v
  BY <1>2 DEF Outgoing
<1>5. CASE Ack(v) /\ phone'[v].call = Head(inbox[v]).call
  <2>1. Queued(v, "ack", phone'[v].call) /\ Head(inbox[v]).call \in Call
    BY <1>5, HeadQueued, ReadTyped DEF Ack
  <2>2. QED
    BY <1>3, <1>5, <2>1 DEF RelayedEvents
<1>6. CASE phone[v].sent /\ phone'[v].call = phone[v].call
  BY <1>3, <1>4, <1>6 DEF SentReached, Outgoing
<1>7. CASE Rings(v, phone'[v].call)
  <2>1. Queued(v, "incoming", phone'[v].call) /\ phone'[v].call \in Call
    BY <1>7, HeadQueued, ReadTyped DEF Rings, BeCalled
  <2>2. v = To[phone'[v].call]
    BY <2>1 DEF OnItsWay
  <2>3. QED
    BY <1>4, <2>1, <2>2, CallAssumption
<1>8. QED
  BY <1>2, <1>4, <1>5, <1>6, <1>7, FlagStep DEF SentFrom

\* An outgoing call is logged with callInviteSentRef set only, hence relayed.
LEMMA LogStep ==
  ASSUME TypeOK, OwnCall, SentReached, LoggedReached, [Next]_vars
  PROVE  LoggedReached'
<1>1. invited \subseteq invited'
  BY HistoryStep
<1>2. ASSUME log' = log PROVE LoggedReached'
  BY <1>1, <1>2 DEF LoggedReached
<1>3. ASSUME NEW u \in User, log' = log \cup LogEntry(u) PROVE LoggedReached'
  <2>1. SUFFICES ASSUME NEW v \in User, NEW c \in Call,
                        <<v, c, "noAnswer">> \in LogEntry(u)
                 PROVE  c \in invited
    BY <1>1, <1>3 DEF LoggedReached
  <2>2. /\ c = phone[u].call /\ phone[u].call # None
        /\ phone[u].sent /\ ~Incoming(u)
    BY <2>1 DEF LogEntry
  <2>3. From[c] = u
    BY <2>2 DEF OwnCall, Incoming
  <2>4. QED
    BY <2>2, <2>3 DEF SentReached, Outgoing
<1>4. ASSUME NEW u \in User, Ended(u) \/ ErrorFires(u) \/ HangUp(u)
      PROVE  LoggedReached'
  BY <1>2, <1>3, <1>4 DEF Ended, ErrorFires, HangUp, Reset
<1>5. ASSUME NEW c \in Call,
             \/ StartCall(c) \/ PlacingMedia(c) \/ PlacingFails(c)
             \/ Invite(c) \/ LookedUp(c) \/ Describe(c) \/ TakingMedia(c)
             \/ TakingFails(c) \/ Answer(c) \/ ApplyAnswer(c)
      PROVE  log' = log
  BY <1>5 DEF StartCall, PlacingMedia, PlacingFails, Invite, LookedUp,
              Describe, TakingMedia, TakingFails, Answer, ApplyAnswer
<1>6. ASSUME NEW u \in User,
             \/ Ack(u) \/ Refused(u) \/ BeCalled(u) \/ Answered(u)
             \/ Rejected(u) \/ RingTimeout(u) \/ FallbackFires(u)
             \/ Accept(u) \/ Connect(u) \/ ConnectionLost(u) \/ Drop(u)
             \/ Reload(u)
      PROVE  log' = log
  BY <1>6 DEF Ack, Refused, BeCalled, Answered, Rejected, RingTimeout,
       FallbackFires, Accept, Connect, ConnectionLost, Drop, Reload
<1>7. QED
  BY <1>2, <1>4, <1>5, <1>6 DEF Next, vars

\* Answers under way, being applied, applied, or behind a caller's 8 s timer were sent.
LEMMA AnswersStep ==
  ASSUME TypeOK, AnswersSent, [Next]_vars
  PROVE  AnswersSent'
<1>1. answered \subseteq answered'
  BY HistoryStep
<1>2. \A u \in User, c \in Call : Queued(u, "answered", c)' => c \in answered'
  BY <1>1, QueueStep DEF AnswersSent
<1>3. applied' \subseteq answered' /\ applying' \subseteq answered'
  <2>1. ASSUME NEW u \in User, Answered(u)
        PROVE  applied' = applied /\ applying' \subseteq answered'
    <3>1. Queued(u, "answered", Head(inbox[u]).call) /\ Head(inbox[u]).call \in Call
      BY <2>1, HeadQueued, ReadTyped DEF Answered
    <3>2. applying' \subseteq applying \cup {Head(inbox[u]).call} /\ applied' = applied
      BY <2>1 DEF Answered
    <3>3. QED
      BY <1>1, <3>1, <3>2 DEF AnswersSent
  <2>2. ASSUME NEW c \in Call,
               \/ StartCall(c) \/ PlacingMedia(c) \/ PlacingFails(c)
               \/ Invite(c) \/ LookedUp(c) \/ Describe(c) \/ TakingMedia(c)
               \/ TakingFails(c) \/ Answer(c)
        PROVE  applied' = applied /\ applying' = applying
    BY <2>2 DEF StartCall, PlacingMedia, PlacingFails, Invite, LookedUp,
                Describe, TakingMedia, TakingFails, Answer, taskVars
  <2>3. ASSUME NEW u \in User,
               \/ Ack(u) \/ Refused(u) \/ BeCalled(u) \/ Ended(u)
               \/ Rejected(u) \/ RingTimeout(u) \/ FallbackFires(u)
               \/ ErrorFires(u) \/ Accept(u) \/ HangUp(u) \/ Connect(u)
               \/ ConnectionLost(u) \/ Drop(u) \/ Reload(u)
        PROVE  applied' = applied /\ applying' \subseteq applying
    BY <2>3 DEF Ack, Refused, BeCalled, Ended, Rejected, RingTimeout,
         FallbackFires, ErrorFires, Accept, HangUp, Connect, ConnectionLost,
         Drop, Reload, taskVars
  <2>4. ASSUME NEW c \in Call, ApplyAnswer(c)
        PROVE  applied' \subseteq applied \cup applying /\ applying' \subseteq applying
    BY <2>4 DEF ApplyAnswer
  <2>5. CASE UNCHANGED vars
    BY <1>1, <2>5 DEF vars, taskVars, AnswersSent
  <2>6. QED
    BY <1>1, <2>1, <2>2, <2>3, <2>4, <2>5 DEF Next, AnswersSent
<1>4. ASSUME NEW u \in User, phone'[u].fallback # None,
             From[phone'[u].fallback] = u
      PROVE  phone'[u].fallback \in answered'
  <2>1. \A c \in Call : From[c] # To[c]
    BY CallAssumption
  <2>2. QED
    BY <1>1, <1>3, <1>4, <2>1, FlagStep DEF FallbackFrom, AnswersSent
<1>5. QED
  BY <1>2, <1>3, <1>4 DEF AnswersSent

\* The invitation at the head of an inbox is gone once it has been handled.
LEMMA HeadGone ==
  ASSUME TypeOK, OnItsWay, OnItsWayOnce, NEW u \in User, BeCalled(u),
         NEW c, Head(inbox[u]).call = c
  PROVE  ~Queued(u, "incoming", c)'
<1>1. /\ inbox[u] \in Seq(Event) /\ inbox \in [User -> Seq(Event)]
      /\ inbox[u] # <<>> /\ Head(inbox[u]).kind = "incoming"
  BY DEF TypeOK, BeCalled, Reads
<1>2. c \in Call /\ u = To[c] /\ From[c] # u
  <2>1. c \in Call /\ Queued(u, "incoming", c)
    BY HeadQueued, ReadTyped DEF BeCalled
  <2>2. QED
    BY <2>1, CallAssumption DEF OnItsWay
<1>3. inbox'[u] = Tail(inbox[u])
  <2>1. CASE TakeEvent(u)
    BY <1>1, <2>1 DEF TakeEvent
  <2>2. CASE inbox' = [inbox EXCEPT ![u] = Tail(@),
                           ![From[c]] = Append(@, Ev("rejected", c))]
    BY <1>1, <1>2, <2>2
  <2>3. QED
    BY <2>1, <2>2 DEF BeCalled
<1>4. SUFFICES ASSUME NEW i \in 1 .. Len(inbox'[u]),
                      inbox'[u][i].kind = "incoming", inbox'[u][i].call = c
               PROVE  FALSE
  BY DEF Queued
<1>5. /\ i + 1 \in 1 .. Len(inbox[u]) /\ inbox'[u][i] = inbox[u][i + 1]
      /\ 1 \in 1 .. Len(inbox[u]) /\ inbox[u][1] = Head(inbox[u])
      /\ i + 1 # 1
  BY <1>1, <1>3
<1>6. QED
  BY <1>1, <1>4, <1>5 DEF OnItsWayOnce

\* A phone rings for a relayed call that nobody declined, and that it has not
\* taken before Accept.
LEMMA RingingStep ==
  ASSUME TypeOK, ClientOfCall, RelayedEvents, OnItsWay, Ringing, [Next]_vars
  PROVE  Ringing'
<1>1. SUFFICES ASSUME NEW c \in Call, phone'[To[c]].call = c
               PROVE  /\ c \in invited'
                      /\ \A v \in User : ~Queued(v, "rejected", c)'
                      /\ phone'[To[c]].client = None => taking'[c] = "none"
  BY DEF Ringing
<1>2. To[c] \in User /\ From[c] # To[c] /\ c # None
  BY CallAssumption
<1>3. invited \subseteq invited'
  BY HistoryStep
<1>4. CASE Rings(To[c], c)
  <2>1. Queued(To[c], "incoming", c)
    BY <1>2, <1>4, HeadQueued DEF Rings, BeCalled
  <2>2. c \in invited /\ Open(c) /\ phone[To[c]].call = None
    BY <1>2, <1>4, <2>1 DEF RelayedEvents, OnItsWay, Rings
  <2>3. taking'[c] = taking[c]
    BY <1>4 DEF Rings, BeCalled, taskVars
  <2>4. ASSUME NEW u \in User, Declines(u, c) PROVE FALSE
    <3>1. CASE BeCalled(u) /\ phone[u].call # None /\ Head(inbox[u]).call = c
      BY <1>2, <2>2, <3>1, HeadQueued DEF BeCalled, OnItsWay
    <3>2. CASE phone[u].call = c /\ Incoming(u)
      BY <1>2, <2>2, <3>2 DEF Incoming
    <3>3. QED
      BY <2>4, <3>1, <3>2 DEF Declines
  <2>5. \A v \in User : ~Queued(v, "rejected", c)'
    BY <2>2, <2>4, QueueStep DEF Open
  <2>6. QED
    BY <1>3, <2>2, <2>3, <2>5 DEF Open
<1>5. CASE phone[To[c]].call = c
  <2>1. ASSUME NEW u \in User, Declines(u, c) PROVE FALSE
    <3>1. CASE BeCalled(u) /\ phone[u].call # None /\ Head(inbox[u]).call = c
      BY <1>2, <1>5, <3>1, HeadQueued DEF BeCalled, OnItsWay
    <3>2. CASE HangUp(u) /\ phone[u].call = c /\ Incoming(u)
      <4>1. u = To[c] /\ Reset(u, phone[u].err)
        BY <3>2 DEF Incoming, HangUp
      <4>2. phone'[u].call = None
        BY <4>1, ResetPhone
      <4>3. QED
        BY <1>1, <1>2, <4>1, <4>2
    <3>3. QED
      BY <2>1, <3>1, <3>2 DEF Declines
  <2>2. \A v \in User : ~Queued(v, "rejected", c)'
    BY <1>5, <2>1, QueueStep DEF Ringing
  <2>3. c \in invited'
    BY <1>3, <1>5 DEF Ringing
  <2>4. ASSUME phone'[To[c]].client = None PROVE taking'[c] = "none"
    <3>1. phone[To[c]].client = None
      BY <1>1, <1>2, <1>5, <2>4, PhoneStep DEF Rings
    <3>2. ~Accept(To[c])
      <4>1. SUFFICES ASSUME Accept(To[c]) PROVE FALSE
        OBVIOUS
      <4>2. phone'[To[c]].client = c
        BY <1>2, <1>5, <4>1, Others DEF Accept, TypeOK, Phone
      <4>3. QED
        BY <1>2, <2>4, <4>2
    <3>3. taking[c] = "none"
      BY <1>5, <3>1 DEF Ringing
    <3>4. QED
      BY <3>2, <3>3, TakingStep
  <2>5. QED
    BY <2>2, <2>3, <2>4
<1>6. QED
  BY <1>1, <1>2, <1>4, <1>5, PhoneStep

\* What a step may do to the inbox of one user.
Took(v) == inbox[v] # <<>> /\ inbox'[v] = Tail(inbox[v])

InboxFrom(v) ==
    \/ inbox'[v] = inbox[v] \/ inbox'[v] = <<>> \/ Took(v)
    \/ \E e \in Event :
          /\ e.kind # "incoming"
          /\ \/ inbox'[v] = Append(inbox[v], e)
             \/ inbox[v] # <<>> /\ inbox'[v] = Append(Tail(inbox[v]), e)
    \/ \E c \in Call :
          LookedUp(c) /\ inbox'[v] = Append(inbox[v], Ev("incoming", c))

\* What the step, whatever it is, does to one user's inbox.
LEMMA InboxStep ==
  ASSUME TypeOK, [Next]_vars, NEW v \in User
  PROVE  InboxFrom(v)
<1>1. inbox \in [User -> Seq(Event)] /\ phone \in [User -> Phone]
  BY DEF TypeOK
<1>2. \A u \in User : phone[u].call \in CallOrNone /\ phone[u].ring \in CallOrNone
  BY <1>1 DEF Phone
<1>3. ASSUME inbox' = inbox PROVE InboxFrom(v)
  BY <1>3 DEF InboxFrom
<1>4. ASSUME NEW w \in User, NEW k \in EventKind \ {"incoming"}, NEW c \in Call,
             Send(w, Ev(k, c))
      PROVE  InboxFrom(v)
  <2>1. Ev(k, c) \in Event /\ Ev(k, c).kind # "incoming"
    BY DEF Ev, Event
  <2>2. CASE v = w
    BY <1>1, <1>4, <2>1, <2>2 DEF Send, InboxFrom
  <2>3. CASE v # w
    BY <1>1, <1>4, <2>3 DEF Send, InboxFrom
  <2>4. QED
    BY <2>2, <2>3
<1>5. ASSUME NEW u \in User, inbox[u] # <<>>, TakeEvent(u) PROVE InboxFrom(v)
  BY <1>1, <1>5 DEF TakeEvent, InboxFrom, Took
<1>6. ASSUME NEW c \in Call, LookedUp(c) PROVE InboxFrom(v)
  <2>1. From[c] \in User /\ To[c] \in User /\ From[c] # To[c]
    BY CallAssumption
  <2>2. CASE Send(From[c], Ev("refused", c))
    BY <1>4, <2>1, <2>2 DEF EventKind
  <2>3. CASE inbox' = [inbox EXCEPT ![To[c]] = Append(@, Ev("incoming", c)),
                                   ![From[c]] = Append(@, Ev("ack", c))]
    <3>1. Ev("ack", c) \in Event /\ Ev("ack", c).kind # "incoming"
      BY DEF Ev, Event, EventKind
    <3>2. CASE v = To[c]
      BY <1>1, <1>6, <2>1, <2>3, <3>2 DEF InboxFrom
    <3>3. CASE v = From[c]
      <4>1. inbox'[v] = Append(inbox[v], Ev("ack", c))
        BY <1>1, <2>1, <2>3, <3>3
      <4>2. QED
        BY <3>1, <4>1 DEF InboxFrom
    <3>4. CASE v # To[c] /\ v # From[c]
      BY <1>1, <2>3, <3>4 DEF InboxFrom
    <3>5. QED
      BY <3>2, <3>3, <3>4
  <2>4. CASE UNCHANGED inbox
    BY <1>3, <2>4
  <2>5. QED
    BY <1>6, <2>2, <2>3, <2>4 DEF LookedUp
<1>7. ASSUME NEW c \in Call, Answer(c) PROVE InboxFrom(v)
  BY <1>3, <1>4, <1>7, CallAssumption DEF Answer, EventKind
<1>8. ASSUME NEW u \in User,
             Ack(u) \/ Refused(u) \/ Answered(u) \/ Rejected(u) \/ Ended(u)
      PROVE  InboxFrom(v)
  BY <1>5, <1>8 DEF Ack, Refused, Answered, Rejected, Ended, Reads
<1>9. ASSUME NEW u \in User, BeCalled(u) PROVE InboxFrom(v)
  <2> DEFINE c == Head(inbox[u]).call
  <2>1. c \in Call /\ inbox[u] # <<>>
    BY <1>9, ReadTyped DEF BeCalled, Reads
  <2>2. CASE TakeEvent(u)
    BY <1>5, <2>1, <2>2
  <2>3. CASE inbox' = [inbox EXCEPT ![u] = Tail(@),
                           ![From[c]] = Append(@, Ev("rejected", c))]
    <3>1. Ev("rejected", c) \in Event /\ Ev("rejected", c).kind # "incoming"
      BY <2>1 DEF Ev, Event, EventKind
    <3>2. From[c] \in User
      BY <2>1, CallAssumption
    <3>3. CASE v = u /\ v # From[c]
      BY <1>1, <2>1, <2>3, <3>3 DEF InboxFrom, Took
    <3>4. CASE v = From[c] /\ v # u
      <4>1. inbox'[v] = Append(inbox[v], Ev("rejected", c))
        BY <1>1, <2>3, <3>2, <3>4
      <4>2. QED
        BY <3>1, <4>1 DEF InboxFrom
    <3>5. CASE v = From[c] /\ v = u
      <4>1. inbox'[v] = Append(Tail(inbox[v]), Ev("rejected", c))
        BY <1>1, <2>3, <3>2, <3>5
      <4>2. QED
        BY <2>1, <3>1, <3>5, <4>1 DEF InboxFrom
    <3>6. CASE v # From[c] /\ v # u
      BY <1>1, <2>3, <3>6 DEF InboxFrom
    <3>7. QED
      BY <3>3, <3>4, <3>5, <3>6
  <2>4. QED
    BY <1>9, <2>2, <2>3 DEF BeCalled
<1>10. ASSUME NEW u \in User, RingTimeout(u) \/ HangUp(u) PROVE InboxFrom(v)
  <2>1. ASSUME NEW c \in Call PROVE Peer(c, u) \in User
    BY CallAssumption DEF Peer
  <2>2. CASE RingTimeout(u)
    <3>1. phone[u].ring \in Call
      BY <1>2, <2>2 DEF RingTimeout, CallOrNone
    <3>2. QED
      BY <1>4, <2>1, <2>2, <3>1 DEF RingTimeout, EventKind
  <2>3. CASE HangUp(u)
    <3>1. phone[u].call \in Call
      BY <1>2, <2>3 DEF HangUp, CallOrNone
    <3>2. \/ Send(Peer(phone[u].call, u), Ev("rejected", phone[u].call))
          \/ Send(Peer(phone[u].call, u), Ev("ended", phone[u].call))
      BY <2>3 DEF HangUp
    <3>3. QED
      BY <1>4, <2>1, <3>1, <3>2 DEF EventKind
  <2>4. QED
    BY <1>10, <2>2, <2>3
<1>11. ASSUME NEW u \in User, Drop(u) \/ Reload(u) PROVE InboxFrom(v)
  <2>1. inbox' = [inbox EXCEPT ![u] = <<>>]
    BY <1>11 DEF Drop, Reload
  <2>2. inbox'[v] = inbox[v] \/ inbox'[v] = <<>>
    BY <1>1, <2>1
  <2>3. QED
    BY <2>2 DEF InboxFrom
<1>12. ASSUME NEW u \in User,
              \/ FallbackFires(u) \/ ErrorFires(u) \/ Accept(u) \/ Connect(u)
              \/ ConnectionLost(u)
       PROVE  InboxFrom(v)
  BY <1>3, <1>12 DEF FallbackFires, ErrorFires, Accept, Connect, ConnectionLost
<1>13. ASSUME NEW c \in Call,
              \/ StartCall(c) \/ PlacingMedia(c) \/ PlacingFails(c) \/ Invite(c)
              \/ Describe(c) \/ TakingMedia(c) \/ TakingFails(c)
              \/ ApplyAnswer(c)
       PROVE  InboxFrom(v)
  BY <1>3, <1>13 DEF StartCall, PlacingMedia, PlacingFails, Invite, Describe,
                     TakingMedia, TakingFails, ApplyAnswer
<1>14. CASE UNCHANGED vars
  BY <1>3, <1>14 DEF vars
<1>15. QED
  BY <1>6, <1>7, <1>8, <1>9, <1>10, <1>11, <1>12, <1>13, <1>14 DEF Next

\* No invitation about call c among the events of s but one.
Single(s) ==
    \A i, j \in 1 .. Len(s) :
        (s[i].kind = "incoming" /\ s[j].kind = "incoming" /\ s[i].call = s[j].call)
           => i = j

\* Taking the first event, or adding one that is no second invitation to a
\* call, keeps the invitations of an inbox distinct.
LEMMA SingleKept ==
  ASSUME NEW s \in Seq(Event), Single(s)
  PROVE  /\ s # <<>> => Single(Tail(s))
         /\ \A e \in Event : e.kind # "incoming" => Single(Append(s, e))
         /\ \A e \in Event :
              (\A i \in 1 .. Len(s) : ~(s[i].kind = "incoming" /\ s[i].call = e.call))
                 => Single(Append(s, e))
<1>1. ASSUME s # <<>> PROVE Single(Tail(s))
  <2>1. \A i \in 1 .. Len(Tail(s)) :
           i + 1 \in 1 .. Len(s) /\ Tail(s)[i] = s[i + 1]
    BY <1>1
  <2>2. \A i, j \in 1 .. Len(Tail(s)) : i + 1 = j + 1 => i = j
    OBVIOUS
  <2>3. QED
    BY <2>1, <2>2 DEF Single
<1>2. ASSUME NEW e \in Event,
             \/ e.kind # "incoming"
             \/ \A i \in 1 .. Len(s) :
                   ~(s[i].kind = "incoming" /\ s[i].call = e.call)
      PROVE  Single(Append(s, e))
  <2>1. \A i \in 1 .. Len(Append(s, e)) :
           \/ i \in 1 .. Len(s) /\ Append(s, e)[i] = s[i]
           \/ i = Len(s) + 1 /\ Append(s, e)[i] = e
    OBVIOUS
  <2>2. QED
    BY <1>2, <2>1 DEF Single
<1>3. QED
  BY <1>1, <1>2

\* The server relays an invitation once, so none is under way twice.
LEMMA OnItsWayOnceStep ==
  ASSUME TypeOK, InvitedOnce, RelayedEvents, OnItsWayOnce, [Next]_vars
  PROVE  OnItsWayOnce'
<1>1. SUFFICES ASSUME NEW v \in User PROVE Single(inbox'[v])
  BY DEF OnItsWayOnce, Single
<1>2. inbox[v] \in Seq(Event) /\ Single(inbox[v])
  BY DEF TypeOK, OnItsWayOnce, Single
<1>3. CASE inbox'[v] = inbox[v] \/ Took(v)
  BY <1>2, <1>3, SingleKept DEF Took
<1>4. CASE inbox'[v] = <<>>
  BY <1>4 DEF Single
<1>5. ASSUME NEW e \in Event, e.kind # "incoming",
             inbox'[v] = Append(inbox[v], e)
      PROVE  Single(inbox'[v])
  BY <1>2, <1>5, SingleKept
<1>6. ASSUME NEW e \in Event, e.kind # "incoming", inbox[v] # <<>>,
             inbox'[v] = Append(Tail(inbox[v]), e)
      PROVE  Single(inbox'[v])
  <2>1. Tail(inbox[v]) \in Seq(Event) /\ Single(Tail(inbox[v]))
    BY <1>2, <1>6, SingleKept
  <2>2. QED
    BY <1>6, <2>1, SingleKept
<1>7. ASSUME NEW c \in Call, LookedUp(c),
             inbox'[v] = Append(inbox[v], Ev("incoming", c))
      PROVE  Single(inbox'[v])
  <2>1. c \notin invited
    BY <1>7 DEF LookedUp, InvitedOnce
  <2>2. \A i \in 1 .. Len(inbox[v]) :
           ~(inbox[v][i].kind = "incoming" /\ inbox[v][i].call = c)
    BY <2>1 DEF RelayedEvents, Queued
  <2>3. Ev("incoming", c) \in Event /\ Ev("incoming", c).call = c
    BY DEF Ev, Event, EventKind
  <2>4. QED
    BY <1>2, <1>7, <2>2, <2>3, SingleKept
<1>8. QED
  BY <1>3, <1>4, <1>5, <1>6, <1>7, InboxStep DEF InboxFrom

\* An invitation under way stays open: the callee has yet to ring for it, and
\* only a phone that rings takes a call or, if it is busy, declines it.
LEMMA OnItsWayStep ==
  ASSUME TypeOK, ClientOfCall, InvitedOnce, RelayedEvents, OnItsWay,
         OnItsWayOnce, Ringing, TakenOnce, [Next]_vars
  PROVE  OnItsWay'
<1>1. SUFFICES ASSUME NEW u \in User, NEW c \in Call, Queued(u, "incoming", c)'
               PROVE  /\ u = To[c] /\ phone'[u].call # c /\ taking'[c] = "none"
                      /\ \A v \in User : ~Queued(v, "rejected", c)'
  BY DEF OnItsWay, Open
<1>2. To[c] \in User /\ From[c] # To[c] /\ c # None
  BY CallAssumption
<1>3. CASE Queued(u, "incoming", c)
  <2>1. u = To[c] /\ phone[u].call # c /\ Open(c)
    BY <1>3 DEF OnItsWay
  <2>2. ~(BeCalled(u) /\ Head(inbox[u]).call = c)
    BY <1>1, HeadGone
  <2>3. phone'[u].call # c
    BY <1>2, <2>1, <2>2, PhoneStep DEF Rings
  <2>4. taking'[c] = "none"
    BY <2>1, TakingStep DEF Open
  <2>5. ASSUME NEW w \in User, Declines(w, c) PROVE FALSE
    <3>1. CASE BeCalled(w) /\ phone[w].call # None /\ Head(inbox[w]).call = c
      BY <2>1, <2>2, <3>1, HeadQueued DEF BeCalled, OnItsWay
    <3>2. CASE phone[w].call = c /\ Incoming(w)
      BY <2>1, <3>2 DEF Incoming
    <3>3. QED
      BY <2>5, <3>1, <3>2 DEF Declines
  <2>6. \A v \in User : ~Queued(v, "rejected", c)'
    BY <2>1, <2>5, QueueStep DEF Open
  <2>7. QED
    BY <2>1, <2>3, <2>4, <2>6
<1>4. CASE LookedUp(c) /\ u = To[c]
  <2>1. c \notin invited /\ phone' = phone /\ taking' = taking
    BY <1>4 DEF LookedUp, InvitedOnce, taskVars
  <2>2. phone[To[c]].call # c /\ taking[c] = "none"
    BY <2>1 DEF Ringing, TakenOnce
  <2>3. ASSUME NEW w \in User, Declines(w, c) PROVE FALSE
    <3>1. CASE BeCalled(w) /\ phone[w].call # None /\ Head(inbox[w]).call = c
      BY <2>1, <3>1, HeadQueued DEF BeCalled, RelayedEvents
    <3>2. CASE phone[w].call = c /\ Incoming(w)
      BY <2>2, <3>2 DEF Incoming
    <3>3. QED
      BY <2>3, <3>1, <3>2 DEF Declines
  <2>4. \A v \in User : ~Queued(v, "rejected", c)'
    BY <2>1, <2>3, QueueStep DEF TakenOnce
  <2>5. QED
    BY <1>4, <2>1, <2>2, <2>4
<1>5. QED
  BY <1>1, <1>3, <1>4, QueueStep

\* A declined call was ringing, or arrived at a busy phone, and was not taken;
\* and from then on it is on no phone that could take it.
LEMMA TakenStep ==
  ASSUME TypeOK, RelayedEvents, OnItsWay, Ringing, TakenOnce, [Next]_vars
  PROVE  TakenOnce'
<1>1. SUFFICES ASSUME NEW c \in Call
               PROVE  /\ c \notin invited' => taking'[c] = "none"
                      /\ c \in answered' => taking'[c] = "done"
                      /\ \A v \in User : Queued(v, "rejected", c)' =>
                            taking'[c] = "none" /\ c \in invited'
  BY DEF TakenOnce
<1>2. invited \subseteq invited'
  BY HistoryStep
<1>3. c \notin invited' => taking'[c] = "none"
  BY <1>2, TakingStep DEF TakenOnce, Ringing
<1>4. c \in answered' => taking'[c] = "done"
  BY TakingStep DEF TakenOnce
<1>5. ASSUME NEW v \in User, Queued(v, "rejected", c)'
      PROVE  taking'[c] = "none" /\ c \in invited'
  <2>1. CASE Queued(v, "rejected", c)
    BY <1>2, <2>1, TakingStep DEF TakenOnce, Ringing
  <2>2. ASSUME NEW u \in User, Declines(u, c)
        PROVE  taking'[c] = "none" /\ c \in invited'
    <3>1. CASE BeCalled(u) /\ Head(inbox[u]).call = c
      <4>1. Queued(u, "incoming", c)
        BY <3>1, HeadQueued DEF BeCalled
      <4>2. taking' = taking
        BY <3>1 DEF BeCalled, taskVars
      <4>3. QED
        BY <1>2, <4>1, <4>2 DEF OnItsWay, Open, RelayedEvents
    <3>2. CASE HangUp(u) /\ phone[u].call = c /\ Incoming(u)
                 /\ phone[u].client = None
      <4>1. taking' = taking /\ u = To[c]
        BY <3>2 DEF HangUp, taskVars, Incoming
      <4>2. QED
        BY <1>2, <3>2, <4>1 DEF Ringing
    <3>3. QED
      BY <2>2, <3>1, <3>2 DEF Declines
  <2>3. QED
    BY <1>5, <2>1, <2>2, QueueStep
<1>6. QED
  BY <1>3, <1>4, <1>5

-----------------------------------------------------------------------------
(* The theorems                                                            *)

\* The invariant holds before anybody calls.
LEMMA InitIInv == Init => IInv
<1> SUFFICES ASSUME Init PROVE IInv
  OBVIOUS
<1>1. /\ phone = [u \in User |-> IdlePhone] /\ inbox = [u \in User |-> <<>>]
      /\ taking = [c \in Call |-> "none"] /\ placing = [c \in Call |-> "none"]
      /\ mic = {} /\ lookups = {} /\ invited = {} /\ answered = {}
      /\ applied = {} /\ applying = {} /\ log = {}
  BY DEF Init
<1>2. \A u \in User : \A k, c : ~Queued(u, k, c)
  BY <1>1 DEF Queued
<1>3. \A u \in User :
         /\ phone[u].call = None /\ phone[u].client = None
         /\ phone[u].fallback = None /\ phone[u].sent = FALSE
  BY <1>1 DEF IdlePhone
<1>4. TypeOK
  <2>1. IdlePhone \in Phone /\ <<>> \in Seq(Event)
    BY DEF IdlePhone, Phone, CallOrNone
  <2>2. phone \in [User -> Phone] /\ inbox \in [User -> Seq(Event)]
    BY <1>1, <2>1
  <2>3. QED
    BY <1>1, <2>2 DEF TypeOK
<1>5. ClientOfCall /\ OwnCall /\ NoOrphanMedia /\ InvitedOnce /\ SentReached
  BY <1>1, <1>3 DEF ClientOfCall, OwnCall, NoOrphanMedia, InvitedOnce, SentReached
<1>6. RelayedEvents /\ AnswersSent /\ OnItsWay /\ LoggedReached
  BY <1>1, <1>2, <1>3 DEF RelayedEvents, AnswersSent, OnItsWay, LoggedReached
<1>7. OnItsWayOnce
  BY <1>1 DEF OnItsWayOnce
<1>8. Ringing /\ TakenOnce
  BY <1>1, <1>2, <1>3, CallAssumption DEF Ringing, TakenOnce
<1>9. QED
  BY <1>4, <1>5, <1>6, <1>7, <1>8 DEF IInv

\* Every step preserves the invariant.
LEMMA NextIInv == IInv /\ [Next]_vars => IInv'
<1> SUFFICES ASSUME IInv, [Next]_vars PROVE IInv'
  OBVIOUS
<1>1. TypeOK' /\ ClientOfCall' /\ OwnCall' /\ NoOrphanMedia'
  BY TypeStep, ClientStep, OwnStep, MediaStep DEF IInv
<1>2. InvitedOnce' /\ RelayedEvents' /\ SentReached' /\ LoggedReached'
  BY InvitedStep, RelayedStep, SentStep, LogStep DEF IInv
<1>3. AnswersSent' /\ OnItsWay' /\ OnItsWayOnce'
  BY AnswersStep, OnItsWayStep, OnItsWayOnceStep DEF IInv
<1>4. Ringing' /\ TakenOnce'
  BY RingingStep, TakenStep DEF IInv
<1>5. QED
  BY <1>1, <1>2, <1>3, <1>4 DEF IInv

\* The inductive invariant holds in every behaviour: every theorem below
\* rests on it.
THEOREM CallsIInv == Spec => []IInv
<1>1. Init => IInv
  BY InitIInv
<1>2. IInv /\ [Next]_vars => IInv'
  BY NextIInv
<1>3. QED
  BY <1>1, <1>2, PTL DEF Spec

\* The refs of every page, the tasks and the events under way keep their types.
THEOREM CallsTypeCorrect == Spec => []TypeOK
<1>1. IInv => TypeOK
  BY DEF IInv
<1>2. QED
  BY <1>1, CallsIInv, PTL

\* A microphone stream belongs to the call on its user's phone, though
\* getMedia (callClient.ts:504-520) may resolve long after the teardown.
THEOREM MediaOfTheCall == Spec => []NoOrphanMedia
<1>1. IInv => NoOrphanMedia
  BY DEF IInv
<1>2. QED
  BY <1>1, CallsIInv, PTL

\* "No answer" in a history means that the server has called the callee
\* (logCallOutcome, page.tsx:1897-1930).
THEOREM NoAnswerReached == Spec => []LoggedReached
<1>1. IInv => LoggedReached
  BY DEF IInv
<1>2. QED
  BY <1>1, CallsIInv, PTL

\* No caller is told that a call was declined which its callee has answered
\* (handleDeclineCall and the busy line of call:incoming).
THEOREM NeverAnsweredAndDeclined == Spec => []DeclinedNeverAnswered
<1>1. ASSUME IInv PROVE DeclinedNeverAnswered
  <2>1. SUFFICES ASSUME NEW u \in User, NEW i \in 1 .. Len(inbox[u]),
                        inbox[u][i].kind = "rejected"
                 PROVE  inbox[u][i].call \notin answered
    BY DEF DeclinedNeverAnswered
  <2>2. inbox[u][i] \in Event
    BY <1>1 DEF IInv, TypeOK
  <2>3. inbox[u][i].call \in Call /\ Queued(u, "rejected", inbox[u][i].call)
    BY <2>1, <2>2 DEF Event, Queued
  <2>4. QED
    BY <1>1, <2>3 DEF IInv, TakenOnce
<1>2. QED
  BY <1>1, CallsIInv, PTL

\* A caller's phone says "connected" only of a call whose callee answered,
\* but for the 8 s timer of an older call (handleCallConnected,
\* page.tsx:1957-1974, and attachRemoteStream, 1935-1954).
THEOREM CallersConnect == Spec => CallerConnectsAnswered
<1> DEFINE A == \A u \in User :
                  (Outgoing(u) /\ ~phone[u].connected /\ phone'[u].connected) =>
                     \/ phone[u].call \in answered
                     \/ phone[u].fallback \notin {None, phone[u].call}
<1>1. ASSUME IInv, [Next]_vars PROVE A
  <2>1. SUFFICES ASSUME NEW u \in User, Outgoing(u), ~phone[u].connected,
                        phone'[u].connected,
                        phone[u].fallback \in {None, phone[u].call}
                 PROVE  phone[u].call \in answered
    OBVIOUS
  <2>2. /\ TypeOK /\ ClientOfCall /\ AnswersSent
        /\ phone[u].call # None /\ From[phone[u].call] = u
    BY <1>1, <2>1 DEF IInv, Outgoing
  <2>3. CASE phone[u].client \in applied
    <3>1. phone[u].client # None
      BY <2>2, <2>3, CallAssumption DEF TypeOK
    <3>2. QED
      BY <2>2, <2>3, <3>1 DEF ClientOfCall, AnswersSent
  <2>4. CASE phone[u].fallback # None
    BY <2>1, <2>2, <2>4 DEF AnswersSent
  <2>5. QED
    BY <1>1, <2>1, <2>2, <2>3, <2>4, FlagStep DEF ConnectedFrom
<1>2. IInv /\ [Next]_vars => [A]_phone
  BY <1>1
<1>3. QED
  BY <1>2, CallsIInv, PTL DEF Spec, CallerConnectsAnswered
=============================================================================
