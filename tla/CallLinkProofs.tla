--------------------------- MODULE CallLinkProofs ---------------------------
(*****************************************************************************)
(* Theorems about CallLink, CallMedia and CallQuality: for any number of     *)
(* restarts and messages, of taps on the buttons of a call, and of changes   *)
(* of the tier under way.                                                    *)
(*****************************************************************************)
EXTENDS CallLink, CallMedia, CallQuality, TLAPS

-----------------------------------------------------------------------------
(* The link: restarts and their answers (CallLink).                          *)

Answers(queue) == {i \in 1 .. Len(queue) : queue[i].kind = "answer"}
Restart(round) == [kind |-> "restart", round |-> round]
AnswerTo(round) == [kind |-> "answer", round |-> round]

\* As long as no offer collided with another and nothing was lost, an offer that is
\* open is on its way to the callee, or the answer to it on its way back; and nothing
\* else is, that a round could be taken from.
Orderly ==
    \/ /\ ~offer.open /\ Agreed
       /\ signals["callee"] = <<>>
       /\ Answers(signals["caller"]) = {}
    \/ /\ offer.open
       /\ signals["callee"] = <<Restart(offer.round)>>
       /\ Answers(signals["caller"]) = {}
    \/ /\ offer.open
       /\ signals["callee"] = <<>>
       /\ applied.callee = offer.round
       /\ \E i \in 1 .. Len(signals["caller"]) :
            /\ signals["caller"][i] = AnswerTo(offer.round)
            /\ Answers(signals["caller"]) = {i}

LIInv == LinkTypeOK /\ KeepsTrying /\ (~collided => Orderly)

\* What becomes of a queue when a message is sent, and of the answers in it.
LEMMA QueueSent ==
  ASSUME NEW queue \in Seq(Signal), NEW signal \in Signal
  PROVE  /\ Append(queue, signal) \in Seq(Signal)
         /\ Len(Append(queue, signal)) = Len(queue) + 1
         /\ \A i \in 1 .. Len(queue) : Append(queue, signal)[i] = queue[i]
         /\ Append(queue, signal)[Len(queue) + 1] = signal
         /\ Len(queue) \in Nat
  OBVIOUS

\* The first message is taken from a queue: the others move up.
LEMMA Heard ==
  ASSUME NEW queue \in Seq(Signal), queue # <<>>
  PROVE  /\ Tail(queue) \in Seq(Signal)
         /\ Len(Tail(queue)) = Len(queue) - 1
         /\ Len(queue) \in Nat \ {0}
         /\ \A i \in 1 .. Len(queue) - 1 : Tail(queue)[i] = queue[i + 1]
         /\ Head(queue) = queue[1] /\ queue[1] \in Signal
  OBVIOUS

\* A request adds no answer; an answer is the last one of the queue.
LEMMA AnswersSent ==
  ASSUME NEW queue \in Seq(Signal), NEW signal \in Signal
  PROVE  Answers(Append(queue, signal))
            = IF signal.kind = "answer" THEN Answers(queue) \cup {Len(queue) + 1} ELSE Answers(queue)
<1> DEFINE longer == Append(queue, signal)
<1>1. /\ Len(longer) = Len(queue) + 1
      /\ \A i \in 1 .. Len(queue) : longer[i] = queue[i]
      /\ longer[Len(queue) + 1] = signal
      /\ Len(queue) \in Nat
  BY QueueSent
<1> HIDE DEF longer
<1>2. QED
  BY <1>1 DEF Answers, longer

\* Hearing the first message moves the answers up by one.
LEMMA AnswersHeard ==
  ASSUME NEW queue \in Seq(Signal), queue # <<>>
  PROVE  /\ \A i \in 1 .. Len(Tail(queue)) : i \in Answers(Tail(queue)) <=> i + 1 \in Answers(queue)
         /\ 1 \in Answers(queue) <=> Head(queue).kind = "answer"
<1> DEFINE rest == Tail(queue)
<1>1. /\ Len(rest) = Len(queue) - 1
      /\ Len(queue) \in Nat \ {0}
      /\ \A i \in 1 .. Len(queue) - 1 : rest[i] = queue[i + 1]
      /\ Head(queue) = queue[1]
  BY Heard
<1> HIDE DEF rest
<1>2. QED
  BY <1>1 DEF Answers, rest

-----------------------------------------------------------------------------
(* The state of the ends. *)

EndTypeOK ==
    /\ network \in BOOLEAN
    /\ pc \in [End -> {"connecting", "connected", "disconnected", "failed"}]
    /\ reconnecting \in [End -> BOOLEAN]
    /\ timer \in [End -> SUBSET Timer]
    /\ over \subseteq End

\* What a step does to the ends: nothing but a recheck, or one of the events of a peer
\* connection and of its timers.
LEMMA EndStep ==
  ASSUME EndTypeOK, KeepsTrying, [LinkNext]_linkVars
  PROVE  EndTypeOK' /\ KeepsTrying'
<1> USE DEF EndTypeOK, KeepsTrying, endVars, Timer
<1>1. ASSUME NEW e \in End, MarkConnected(e) PROVE EndTypeOK' /\ KeepsTrying'
  BY <1>1 DEF MarkConnected
<1>2. ASSUME NEW e \in End, Disconnected(e) PROVE EndTypeOK' /\ KeepsTrying'
  BY <1>2 DEF Disconnected
<1>3. ASSUME NEW e \in End, Failed(e) PROVE EndTypeOK' /\ KeepsTrying'
  BY <1>3 DEF Failed
<1>4. ASSUME NEW e \in End, GraceOver(e) PROVE EndTypeOK' /\ KeepsTrying'
  BY <1>4 DEF GraceOver, BeginReconnect
<1>5. ASSUME NEW e \in End, GiveUpLink(e) PROVE EndTypeOK' /\ KeepsTrying'
  BY <1>5 DEF GiveUpLink
<1>6. ASSUME NEW e \in End, RetryRestart(e) \/ NotifyNetworkChange(e) \/ LoseSignal(e)
      PROVE  EndTypeOK' /\ KeepsTrying'
  BY <1>6 DEF RetryRestart, NotifyNetworkChange, LoseSignal
<1>7. CASE HandleRestartOffer
  BY <1>7 DEF HandleRestartOffer, Recheck
<1>8. CASE ApplyRestartAnswer
  BY <1>8 DEF ApplyRestartAnswer, Recheck
<1>9. CASE HearRequest \/ NetworkChanges \/ UNCHANGED linkVars
  BY <1>9 DEF HearRequest, NetworkChanges, linkVars
<1>10. QED
  BY <1>1, <1>2, <1>3, <1>4, <1>5, <1>6, <1>7, <1>8, <1>9 DEF LinkNext

-----------------------------------------------------------------------------
(* The rounds and what is on its way. *)

RoundTypeOK ==
    /\ offer \in [round : Round, open : BOOLEAN]
    /\ applied \in [caller : [mine : Round, theirs : Round], callee : Round]
    /\ signals \in [End -> Seq(Signal)]
    /\ \A e \in End : Len(signals[e]) <= MaxSignals
    /\ collided \in BOOLEAN

\* What a step does to them.
RoundStep ==
    \/ UNCHANGED <<roundVars, signals>>
    \/ \E e \in End : SendRestart(e) \/ LoseSignal(e)
    \/ HandleRestartOffer \/ ApplyRestartAnswer \/ HearRequest

\* Every step is one of those RoundStep tells apart.
LEMMA RoundSteps ==
  ASSUME [LinkNext]_linkVars
  PROVE  RoundStep
BY DEF LinkNext, linkVars, RoundStep, MarkConnected, Disconnected, Failed, GraceOver,
       BeginReconnect, RetryRestart, GiveUpLink, NotifyNetworkChange, NetworkChanges

\* The two queues one by one, and what a queue of the right kind holds.
LEMMA Ends == End = {"caller", "callee"} /\ "caller" # "callee"
BY DEF End

\* Offers and answers of a round are messages.
LEMMA RestartIsSignal == \A round \in Round : Restart(round) \in Signal /\ AnswerTo(round) \in Signal
BY DEF Restart, AnswerTo, Signal

\* So is a request for a restart.
LEMMA RequestIsSignal == [kind |-> "request"] \in Signal
BY DEF Signal

\* The round after one that is not the last is a round.
LEMMA NextRound ==
  ASSUME offer.round \in Round, offer.round < Rounds
  PROVE  offer.round + 1 \in Round
BY LinkAssumption DEF Round

\* The round of a restart or of an answer on its way is one there is.
LEMMA RoundOf ==
  ASSUME NEW signal \in Signal, signal.kind \in {"restart", "answer"}
  PROVE  /\ signal.round \in Round
         /\ signal.kind = "restart" => signal = Restart(signal.round)
         /\ signal.kind = "answer" => signal = AnswerTo(signal.round)
BY DEF Signal, Restart, AnswerTo

\* Sending keeps the types, and the order: an offer is made when none is open, and a
\* request is no answer.
LEMMA SendStep ==
  ASSUME RoundTypeOK, ~collided => Orderly, NEW e \in End, SendRestart(e)
  PROVE  RoundTypeOK' /\ (~collided' => Orderly')
<1> DEFINE toCaller == signals["caller"]
           toCallee == signals["callee"]
<1>1. toCaller \in Seq(Signal) /\ toCallee \in Seq(Signal)
  BY Ends DEF RoundTypeOK
<1>2. CASE UNCHANGED <<roundVars, signals>>
  BY <1>2 DEF RoundTypeOK, Orderly, Agreed, roundVars
<1>3. CASE e = "caller" /\ offer.round < Rounds /\ RestartIce
  <2> DEFINE restart == Restart(offer.round + 1)
  <2>1. restart \in Signal
    BY NextRound, RestartIsSignal, <1>3 DEF RoundTypeOK
  <2>2. /\ offer' = [round |-> offer.round + 1, open |-> TRUE]
        /\ collided' = (collided \/ offer.open)
        /\ Len(toCallee) < MaxSignals
        /\ signals' = [signals EXCEPT !["callee"] = Append(toCallee, restart)]
        /\ applied' = applied
    BY <1>3 DEF RestartIce, Tell, Restart, RoundTypeOK
  <2>3. signals'["callee"] = Append(toCallee, restart) /\ signals'["caller"] = toCaller
    BY <2>2, Ends DEF RoundTypeOK
  <2> HIDE DEF restart
  <2>4. signals' \in [End -> Seq(Signal)] /\ \A f \in End : Len(signals'[f]) <= MaxSignals
    BY <2>1, <2>2, <2>3, <1>1, QueueSent, Ends, LinkAssumption DEF RoundTypeOK
  <2>5. RoundTypeOK'
    BY <2>2, <2>4, NextRound, <1>3 DEF RoundTypeOK
  <2>6. ASSUME ~collided' PROVE Orderly'
    <3>1. toCallee = <<>> /\ Answers(toCaller) = {}
      BY <2>2, <2>6 DEF Orderly
    <3>2. Append(toCallee, restart) = <<restart>>
      BY <3>1
    <3>3. signals'["callee"] = <<Restart(offer'.round)>> /\ offer'.open
      BY <2>2, <2>3, <3>2 DEF restart
    <3>4. QED
      BY <3>1, <3>3, <2>3 DEF Orderly
  <2>7. QED BY <2>5, <2>6
<1>4. CASE e = "callee" /\ Tell("caller", [kind |-> "request"]) /\ UNCHANGED roundVars
  <2> DEFINE request == [kind |-> "request"]
  <2>1. request \in Signal /\ request.kind # "answer"
    BY RequestIsSignal
  <2> HIDE DEF request
  <2>2. /\ Len(toCaller) < MaxSignals
        /\ signals' = [signals EXCEPT !["caller"] = Append(toCaller, request)]
        /\ UNCHANGED <<offer, applied, collided>>
    BY <1>4 DEF Tell, roundVars, RoundTypeOK, request
  <2>3. signals'["caller"] = Append(toCaller, request) /\ signals'["callee"] = toCallee
    BY <2>2, Ends DEF RoundTypeOK
  <2>4. signals' \in [End -> Seq(Signal)] /\ \A f \in End : Len(signals'[f]) <= MaxSignals
    BY <2>1, <2>2, <2>3, <1>1, QueueSent, Ends, LinkAssumption DEF RoundTypeOK
  <2>5. RoundTypeOK'
    BY <2>2, <2>4 DEF RoundTypeOK
  <2>6. Answers(Append(toCaller, request)) = Answers(toCaller)
    BY <2>1, <1>1, AnswersSent
  <2>7. /\ \A i \in 1 .. Len(toCaller) : Append(toCaller, request)[i] = toCaller[i]
        /\ Len(Append(toCaller, request)) = Len(toCaller) + 1 /\ Len(toCaller) \in Nat
    BY <2>1, <1>1, QueueSent
  <2>8. ASSUME ~collided' PROVE Orderly'
    <3>1. Orderly
      BY <2>2, <2>8
    <3>2. CASE Answers(toCaller) = {}
      BY <3>1, <3>2, <2>2, <2>3, <2>6 DEF Orderly, Agreed
    <3>3. ASSUME NEW i \in 1 .. Len(toCaller), toCaller[i] = AnswerTo(offer.round), Answers(toCaller) = {i},
                 offer.open, toCallee = <<>>, applied.callee = offer.round
          PROVE  Orderly'
      <4>1. /\ i \in 1 .. Len(signals'["caller"])
            /\ signals'["caller"][i] = AnswerTo(offer'.round)
            /\ Answers(signals'["caller"]) = {i}
        BY <3>3, <2>2, <2>3, <2>6, <2>7
      <4>2. QED
        BY <4>1, <3>3, <2>2, <2>3 DEF Orderly
    <3>4. QED
      BY <3>1, <3>2, <3>3 DEF Orderly
  <2>9. QED BY <2>5, <2>8
<1>5. QED
  BY <1>2, <1>3, <1>4 DEF SendRestart, RestartIce

\* The callee's answer takes the place of the offer it heard.
LEMMA OfferStep ==
  ASSUME RoundTypeOK, ~collided => Orderly, HandleRestartOffer
  PROVE  RoundTypeOK' /\ (~collided' => Orderly')
<1> DEFINE toCaller == signals["caller"]
           toCallee == signals["callee"]
           round == Head(toCallee).round
           answer == AnswerTo(round)
<1>1. toCaller \in Seq(Signal) /\ toCallee \in Seq(Signal) /\ Len(toCallee) <= MaxSignals
  BY Ends DEF RoundTypeOK
<1>2. toCallee # <<>> /\ Head(toCallee).kind = "restart" /\ Len(toCaller) < MaxSignals
  BY DEF HandleRestartOffer, Hear
<1>3. /\ Tail(toCallee) \in Seq(Signal) /\ Len(Tail(toCallee)) = Len(toCallee) - 1
      /\ Len(toCallee) \in Nat /\ Head(toCallee) \in Signal
  BY <1>1, <1>2, Heard
<1>4. round \in Round /\ Head(toCallee) = Restart(round) /\ answer \in Signal /\ answer.kind = "answer"
  <2>1. round \in Round /\ Head(toCallee) = Restart(round)
    BY <1>2, <1>3, RoundOf
  <2>2. answer \in Signal
    BY <2>1, RestartIsSignal
  <2>3. QED BY <2>1, <2>2 DEF AnswerTo
<1>5. /\ applied' = [caller |-> applied.caller, callee |-> round]
      /\ signals' = [signals EXCEPT !["callee"] = Tail(toCallee), !["caller"] = Append(toCaller, answer)]
      /\ UNCHANGED <<offer, collided>>
  BY Ends DEF HandleRestartOffer, AnswerTo, RoundTypeOK
<1> HIDE DEF answer
<1>6. signals'["caller"] = Append(toCaller, answer) /\ signals'["callee"] = Tail(toCallee)
  BY <1>5, Ends DEF RoundTypeOK
<1>7. /\ Append(toCaller, answer) \in Seq(Signal)
      /\ Len(Append(toCaller, answer)) = Len(toCaller) + 1 /\ Len(toCaller) \in Nat
      /\ Append(toCaller, answer)[Len(toCaller) + 1] = answer
      /\ Answers(Append(toCaller, answer)) = Answers(toCaller) \cup {Len(toCaller) + 1}
  BY <1>1, <1>4, QueueSent, AnswersSent
<1>8. RoundTypeOK'
  <2>1. signals' \in [End -> Seq(Signal)]
    BY <1>5, <1>3, <1>7, Ends DEF RoundTypeOK
  <2>2. \A e \in End : Len(signals'[e]) <= MaxSignals
    <3>1. Len(Append(toCaller, answer)) <= MaxSignals
      BY <1>2, <1>7, LinkAssumption
    <3>2. Len(Tail(toCallee)) <= MaxSignals
      BY <1>1, <1>3, LinkAssumption
    <3>3. QED BY <3>1, <3>2, <1>6, Ends
  <2>3. applied' \in [caller : [mine : Round, theirs : Round], callee : Round]
    BY <1>4, <1>5 DEF RoundTypeOK
  <2>4. QED
    BY <2>1, <2>2, <2>3, <1>5 DEF RoundTypeOK
<1>9. ASSUME ~collided' PROVE Orderly'
  <2>1. offer.open /\ toCallee = <<Restart(offer.round)>> /\ Answers(toCaller) = {}
    BY <1>2, <1>5, <1>9 DEF Orderly
  <2>2. Head(toCallee) = Restart(offer.round) /\ Tail(toCallee) = <<>>
    BY <2>1
  <2>3. round = offer.round
    BY <2>2 DEF Restart
  <2>4. /\ Len(toCaller) + 1 \in 1 .. Len(Append(toCaller, answer))
        /\ Append(toCaller, answer)[Len(toCaller) + 1] = AnswerTo(offer.round)
        /\ Answers(Append(toCaller, answer)) = {Len(toCaller) + 1}
    BY <1>7, <2>1, <2>3 DEF answer
  <2>5. applied'.callee = offer'.round /\ offer'.open
    BY <1>5, <2>1, <2>3
  <2>6. QED
    BY <1>5, <1>6, <2>2, <2>4, <2>5 DEF Orderly
<1>10. QED BY <1>8, <1>9

\* The answer the caller applies is the one to its open offer: both ends are in its round.
LEMMA AnswerStep ==
  ASSUME RoundTypeOK, ~collided => Orderly, ApplyRestartAnswer
  PROVE  RoundTypeOK' /\ (~collided' => Orderly')
<1> DEFINE toCaller == signals["caller"]
           toCallee == signals["callee"]
           round == Head(toCaller).round
<1>1. toCaller \in Seq(Signal) /\ toCallee \in Seq(Signal) /\ Len(toCaller) <= MaxSignals
  BY Ends DEF RoundTypeOK
<1>2. toCaller # <<>> /\ Head(toCaller).kind = "answer"
  BY DEF ApplyRestartAnswer, Hear
<1>3. /\ Tail(toCaller) \in Seq(Signal) /\ Len(Tail(toCaller)) = Len(toCaller) - 1
      /\ Len(toCaller) \in Nat \ {0} /\ Head(toCaller) = toCaller[1] /\ Head(toCaller) \in Signal
  BY <1>1, <1>2, Heard
<1>4. round \in Round
  BY <1>2, <1>3, RoundOf
<1>5. /\ signals' = [signals EXCEPT !["caller"] = Tail(toCaller)]
      /\ collided' = collided
  BY DEF ApplyRestartAnswer
<1>6. signals'["caller"] = Tail(toCaller) /\ signals'["callee"] = toCallee
  BY <1>5, Ends DEF RoundTypeOK
<1>7. \/ /\ offer.open
         /\ applied' = [caller |-> [mine |-> offer.round, theirs |-> round], callee |-> applied.callee]
         /\ offer' = [round |-> offer.round, open |-> FALSE]
      \/ ~offer.open /\ UNCHANGED <<applied, offer>>
  BY DEF ApplyRestartAnswer
<1>8. RoundTypeOK'
  <2>1. signals' \in [End -> Seq(Signal)]
    BY <1>3, <1>5, Ends DEF RoundTypeOK
  <2>2. \A e \in End : Len(signals'[e]) <= MaxSignals
    BY <1>3, <1>6, Ends, LinkAssumption DEF RoundTypeOK
  <2>3. applied' \in [caller : [mine : Round, theirs : Round], callee : Round]
    BY <1>4, <1>7 DEF RoundTypeOK
  <2>4. offer' \in [round : Round, open : BOOLEAN]
    <3>1. offer \in [round : Round, open : BOOLEAN] /\ offer.round \in Round
      BY DEF RoundTypeOK
    <3>2. CASE offer' = offer
      BY <3>1, <3>2
    <3>3. CASE offer' = [round |-> offer.round, open |-> FALSE]
      BY <3>1, <3>3
    <3>4. QED BY <1>7, <3>2, <3>3
  <2>5. QED
    BY <2>1, <2>2, <2>3, <2>4, <1>5 DEF RoundTypeOK
<1>9. ASSUME ~collided' PROVE Orderly'
  <2>1. 1 \in Answers(toCaller)
    BY <1>1, <1>2, AnswersHeard
  <2>2. /\ offer.open /\ toCallee = <<>> /\ applied.callee = offer.round
        /\ toCaller[1] = AnswerTo(offer.round) /\ Answers(toCaller) = {1}
    BY <2>1, <1>5, <1>9 DEF Orderly
  <2>3. round = offer.round
    BY <2>2, <1>3 DEF AnswerTo
  <2>4. Answers(Tail(toCaller)) = {}
    <3>1. \A i \in 1 .. Len(Tail(toCaller)) : i \in Answers(Tail(toCaller)) => i + 1 \in Answers(toCaller)
      BY <1>1, <1>2, AnswersHeard
    <3>2. \A i \in Answers(Tail(toCaller)) : i \in 1 .. Len(Tail(toCaller)) /\ i + 1 = 1
      BY <3>1, <2>2 DEF Answers
    <3>3. QED BY <3>2, <1>3
  <2>5. ~offer'.open /\ Agreed'
    BY <1>7, <2>2, <2>3 DEF Agreed
  <2>6. QED
    BY <2>2, <2>4, <2>5, <1>6 DEF Orderly
<1>10. QED BY <1>8, <1>9

\* A request is taken from the queue, and an offer made if the bound allows it.
LEMMA RequestStep ==
  ASSUME RoundTypeOK, ~collided => Orderly, HearRequest
  PROVE  RoundTypeOK' /\ (~collided' => Orderly')
<1> DEFINE toCaller == signals["caller"]
           toCallee == signals["callee"]
           restart == Restart(offer.round + 1)
<1>1. toCaller \in Seq(Signal) /\ toCallee \in Seq(Signal) /\ Len(toCaller) <= MaxSignals
  BY Ends DEF RoundTypeOK
<1>2. toCaller # <<>> /\ Head(toCaller).kind = "request"
  BY DEF HearRequest, Hear
<1>3. /\ Tail(toCaller) \in Seq(Signal) /\ Len(Tail(toCaller)) = Len(toCaller) - 1
      /\ Len(toCaller) \in Nat \ {0}
      /\ \A i \in 1 .. Len(toCaller) - 1 : Tail(toCaller)[i] = toCaller[i + 1]
  BY <1>1, <1>2, Heard
<1>4. /\ \A i \in 1 .. Len(Tail(toCaller)) : i \in Answers(Tail(toCaller)) <=> i + 1 \in Answers(toCaller)
      /\ 1 \notin Answers(toCaller)
  BY <1>1, <1>2, AnswersHeard
<1>5. Answers(toCaller) = {} => Answers(Tail(toCaller)) = {}
  BY <1>4 DEF Answers
<1>6. Len(Tail(toCaller)) <= MaxSignals
  BY <1>1, <1>3, LinkAssumption
<1>7. applied' = applied
  BY DEF HearRequest
<1>8. CASE offer.round < Rounds
  <2>1. restart \in Signal
    BY NextRound, RestartIsSignal, <1>8 DEF RoundTypeOK
  <2>2. /\ offer' = [round |-> offer.round + 1, open |-> TRUE]
        /\ collided' = (collided \/ offer.open)
        /\ Len(toCallee) < MaxSignals
        /\ signals' = [signals EXCEPT !["caller"] = Tail(toCaller), !["callee"] = Append(toCallee, restart)]
    BY <1>8, Ends DEF HearRequest, Restart, RoundTypeOK
  <2> HIDE DEF restart
  <2>3. signals'["callee"] = Append(toCallee, restart) /\ signals'["caller"] = Tail(toCaller)
    BY <2>2, Ends DEF RoundTypeOK
  <2>4. /\ Append(toCallee, restart) \in Seq(Signal)
        /\ Len(Append(toCallee, restart)) <= MaxSignals
    <3>1. Len(Append(toCallee, restart)) = Len(toCallee) + 1 /\ Len(toCallee) \in Nat
      BY <1>1, <2>1, QueueSent
    <3>2. QED
      BY <3>1, <2>1, <2>2, <1>1, QueueSent, LinkAssumption
  <2>5. signals' \in [End -> Seq(Signal)]
    BY <2>2, <2>4, <1>3, Ends DEF RoundTypeOK
  <2>6. \A e \in End : Len(signals'[e]) <= MaxSignals
    BY <2>3, <2>4, <1>6, Ends
  <2>7. RoundTypeOK'
    <3>1. offer' \in [round : Round, open : BOOLEAN]
      BY <2>2, NextRound, <1>8 DEF RoundTypeOK
    <3>2. collided' \in BOOLEAN
      BY <2>2 DEF RoundTypeOK
    <3>3. QED
      BY <2>5, <2>6, <3>1, <3>2, <1>7 DEF RoundTypeOK
  <2>8. ASSUME ~collided' PROVE Orderly'
    <3>1. toCallee = <<>> /\ Answers(toCaller) = {}
      BY <2>2, <2>8 DEF Orderly
    <3>2. Append(toCallee, restart) = <<restart>>
      BY <3>1
    <3>3. signals'["callee"] = <<Restart(offer'.round)>> /\ offer'.open
      BY <2>2, <2>3, <3>2 DEF restart
    <3>4. QED
      BY <3>1, <3>3, <2>3, <1>5 DEF Orderly
  <2>9. QED BY <2>7, <2>8
<1>9. CASE ~(offer.round < Rounds)
  <2>1. /\ signals' = [signals EXCEPT !["caller"] = Tail(toCaller)]
        /\ UNCHANGED <<offer, collided>>
    BY <1>9 DEF HearRequest
  <2>2. signals'["callee"] = toCallee /\ signals'["caller"] = Tail(toCaller)
    BY <2>1, Ends DEF RoundTypeOK
  <2>3. signals' \in [End -> Seq(Signal)]
    BY <2>1, <1>3, Ends DEF RoundTypeOK
  <2>4. \A e \in End : Len(signals'[e]) <= MaxSignals
    BY <2>2, <1>6, Ends DEF RoundTypeOK
  <2>5. RoundTypeOK'
    BY <2>1, <2>3, <2>4, <1>7 DEF RoundTypeOK
  <2>6. ASSUME ~collided' PROVE Orderly'
    <3>1. Orderly
      BY <2>1, <2>6
    <3>2. CASE Answers(toCaller) = {}
      BY <3>1, <3>2, <2>1, <2>2, <1>5, <1>7 DEF Orderly, Agreed
    <3>3. ASSUME NEW i \in 1 .. Len(toCaller), toCaller[i] = AnswerTo(offer.round), Answers(toCaller) = {i},
                 offer.open, toCallee = <<>>, applied.callee = offer.round
          PROVE  Orderly'
      <4> DEFINE j == i - 1
      <4>1. i # 1 /\ j \in 1 .. Len(Tail(toCaller)) /\ i = j + 1
        BY <3>3, <1>3, <1>4
      <4> HIDE DEF j
      <4>2. Tail(toCaller)[j] = AnswerTo(offer.round)
        BY <4>1, <3>3, <1>3
      <4>3. Answers(Tail(toCaller)) \subseteq 1 .. Len(Tail(toCaller))
        BY DEF Answers
      <4>4. j \in Answers(Tail(toCaller))
        BY <4>1, <3>3, <1>4
      <4>5. \A k \in Answers(Tail(toCaller)) : k \in Nat /\ k + 1 = i
        BY <4>3, <3>3, <1>3, <1>4
      <4>6. Answers(Tail(toCaller)) = {j}
        <5>1. ASSUME NEW k \in Answers(Tail(toCaller)) PROVE k = j
          BY <4>1, <4>5
        <5>2. QED BY <5>1, <4>4
      <4>7. QED
        BY <4>1, <4>2, <4>6, <3>3, <2>1, <2>2, <1>7 DEF Orderly
    <3>4. QED
      BY <3>1, <3>2, <3>3 DEF Orderly
  <2>7. QED BY <2>5, <2>6
<1>10. QED BY <1>8, <1>9

\* What is lost leaves the types as they are, and ends the order for good.
LEMMA LossStep ==
  ASSUME RoundTypeOK, NEW e \in End, LoseSignal(e)
  PROVE  RoundTypeOK' /\ collided'
<1>1. signals[e] \in Seq(Signal) /\ signals[e] # <<>> /\ Len(signals[e]) <= MaxSignals
  BY DEF RoundTypeOK, LoseSignal
<1>2. /\ Tail(signals[e]) \in Seq(Signal) /\ Len(Tail(signals[e])) = Len(signals[e]) - 1
      /\ Len(signals[e]) \in Nat
  BY <1>1, Heard
<1>3. Len(Tail(signals[e])) <= MaxSignals
  BY <1>1, <1>2, LinkAssumption
<1>4. /\ signals' = [signals EXCEPT ![e] = Tail(signals[e])]
      /\ collided' = TRUE
      /\ UNCHANGED <<offer, applied>>
  BY DEF LoseSignal, RoundTypeOK
<1>5. signals' \in [End -> Seq(Signal)] /\ \A f \in End : Len(signals'[f]) <= MaxSignals
  BY <1>2, <1>3, <1>4 DEF RoundTypeOK
<1>6. QED
  BY <1>4, <1>5 DEF RoundTypeOK

-----------------------------------------------------------------------------
(* The theorems. *)

\* The types, of the ends and of the rounds.
LEMMA LinkTypes == LinkTypeOK <=> EndTypeOK /\ RoundTypeOK
BY DEF LinkTypeOK, EndTypeOK, RoundTypeOK

\* The strengthening holds at first.
LEMMA LinkStart == LinkInit => LIInv
<1> SUFFICES ASSUME LinkInit PROVE LIInv
  OBVIOUS
<1>1. EndTypeOK /\ KeepsTrying
  BY DEF LinkInit, EndTypeOK, KeepsTrying
<1>2. 1 \in Round
  BY LinkAssumption DEF Round
<1>3. signals = [e \in End |-> <<>>] /\ <<>> \in Seq(Signal) /\ Len(<<>>) = 0
  BY DEF LinkInit
<1>4. RoundTypeOK
  <2>1. signals \in [End -> Seq(Signal)] /\ \A e \in End : Len(signals[e]) <= MaxSignals
    BY <1>3, LinkAssumption
  <2>2. QED
    BY <1>2, <2>1 DEF LinkInit, RoundTypeOK
<1>5. Orderly
  <2>1. signals["callee"] = <<>> /\ signals["caller"] = <<>>
    BY <1>3, Ends
  <2>2. Answers(signals["caller"]) = {}
    BY <2>1 DEF Answers
  <2>3. QED
    BY <2>1, <2>2 DEF LinkInit, Orderly, Agreed
<1>6. QED
  BY <1>1, <1>4, <1>5, LinkTypes DEF LIInv

\* Every step keeps the strengthening.
LEMMA LinkStep == LIInv /\ [LinkNext]_linkVars => LIInv'
<1> SUFFICES ASSUME LIInv, [LinkNext]_linkVars PROVE LIInv'
  OBVIOUS
<1>1. EndTypeOK /\ KeepsTrying /\ RoundTypeOK /\ (~collided => Orderly)
  BY LinkTypes DEF LIInv
<1>2. EndTypeOK' /\ KeepsTrying'
  BY <1>1, EndStep
<1>3. RoundTypeOK' /\ (~collided' => Orderly')
  <2>1. CASE UNCHANGED <<roundVars, signals>>
    BY <1>1, <2>1 DEF RoundTypeOK, Orderly, Agreed, roundVars
  <2>2. ASSUME NEW e \in End, SendRestart(e) PROVE RoundTypeOK' /\ (~collided' => Orderly')
    BY <1>1, <2>2, SendStep
  <2>3. ASSUME NEW e \in End, LoseSignal(e) PROVE RoundTypeOK' /\ (~collided' => Orderly')
    BY <1>1, <2>3, LossStep
  <2>4. CASE HandleRestartOffer
    BY <1>1, <2>4, OfferStep
  <2>5. CASE ApplyRestartAnswer
    BY <1>1, <2>5, AnswerStep
  <2>6. CASE HearRequest
    BY <1>1, <2>6, RequestStep
  <2>7. QED
    BY <2>1, <2>2, <2>3, <2>4, <2>5, <2>6, RoundSteps DEF RoundStep
<1>4. LinkTypeOK'
  BY <1>2, <1>3 DEF LinkTypeOK, EndTypeOK, RoundTypeOK
<1>5. QED
  BY <1>2, <1>3, <1>4 DEF LIInv

\* The inductive invariant: types, timers and the order of the rounds.
THEOREM LinkIInv == LinkSpec => []LIInv
BY LinkStart, LinkStep, PTL DEF LinkSpec

\* With everything arrived and no collision, both ends are in the same round: what the
\* callee answered is what the caller took the answer for, for any number of restarts
\* toCaller for by either end (callClient.ts:330-371).
THEOREM RoundsAgree == LinkSpec => []SameRound
<1>1. LIInv => SameRound
  BY Ends DEF LIInv, Orderly, SameRound, Answers
<1>2. QED
  BY <1>1, LinkIInv, PTL

\* An end that reconnects goes on asking, and gives up at its deadline
\* (callClient.ts:292-328).
THEOREM ReconnectKeepsTrying == LinkSpec => []KeepsTrying
BY LinkIInv, PTL DEF LIInv

-----------------------------------------------------------------------------
(* Camera and screen (CallMedia).                                            *)

\* Which steps a tap of each kind goes through.
PhaseOK ==
    \A n \in Tap :
        /\ tap[n].kind = "none" <=> tap[n].at = "idle"
        /\ tap[n].at = "clearing" => tap[n].kind \in {"off", "unshare"}
        /\ tap[n].at \in {"asking", "asking again", "replacing"} => tap[n].kind # "off"
        /\ tap[n].at = "asking again" => tap[n].kind = "switch"
        /\ ~shared => tap[n].kind \notin {"share", "unshare"}

\* During the call only what is in the stream captures; after it only what was
\* picked too late.
StreamOK ==
    /\ ~disposed => live \subseteq stream /\ late = {}
    /\ disposed => live \subseteq late
    /\ sharing => shared

\* As long as taps did not overlap: one is at work; one that stopped the picture
\* leaves nothing capturing until it has a new one; and a camera shown as off is.
CalmOK ==
    ~disposed /\ calm =>
        /\ \A m, n \in AtWork : m = n
        /\ \A n \in Tap : \/ tap[n].at = "clearing"
                          \/ tap[n].kind \in {"switch", "unshare"} /\ tap[n].at \in {"asking", "asking again"}
                          => live = {}
        /\ \A n \in AtWork : /\ tap[n].kind \in {"switch", "off"} => cameraOn
                             /\ tap[n].kind = "on" => ~cameraOn
        /\ ~cameraOn /\ (\A n \in Tap : tap[n].at # "replacing") => live = {} /\ sent = Nothing

\* As long as no screen was shared: the other side knows; and a camera shown as on
\* captures for the sender, or will as soon as it has replaced the track.
ToldOK ==
    ~disposed /\ ~shared =>
        /\ told = (cameraOn /\ (~videoPaused \/ relit))
        /\ calm /\ ~dark =>
            /\ \A n \in Tap : tap[n].at = "replacing" => n \in live
            /\ AtWork = {} /\ cameraOn => sent \in live

MIInv == MediaTypeOK /\ PhaseOK /\ StreamOK /\ CalmOK /\ ToldOK

TapKind == {"none", "on", "off", "switch", "share", "unshare"}
TapPhase == {"idle", "asking", "asking again", "replacing", "clearing", "done"}

\* Taps name the tracks they open; the camera of the call's start is track 0.
LEMMA TapFacts ==
  /\ Tap \subseteq Track /\ Nothing \notin Track /\ 0 \in Track
  /\ \A n \in Tap : n # 0
BY MediaAssumption DEF Tap, Track, Nothing

\* A tap begins.
LEMMA BeginStep ==
  ASSUME MIInv, NEW n \in Tap, NEW kind \in TapKind, NEW at \in {"asking", "clearing"},
         NEW stops \in BOOLEAN, Begin(n, kind, at, stops),
         kind # "none", at = "clearing" <=> kind = "off",
         stops <=> kind \in {"off", "switch", "unshare"},
         kind \in {"switch", "off"} => cameraOn, kind = "on" => ~cameraOn,
         kind \in {"share", "unshare"} => shared',
         shared' \in BOOLEAN, shared => shared', sharing' \in BOOLEAN, sharing' => shared',
         capture' \in {"off", "held", "loose"}
  PROVE  MIInv'
<1> USE TapFacts DEF MIInv
<1>1. /\ ~disposed /\ tap[n].at = "idle"
      /\ tap' = [tap EXCEPT ![n] = [kind |-> kind, at |-> at]]
      /\ live' = (IF stops THEN live \ stream ELSE live)
      /\ stream' = (IF stops THEN {} ELSE stream)
      /\ calm' = (calm /\ AtWork = {})
      /\ UNCHANGED <<native, sent, cameraOn, disposed, told, videoPaused, late, dark, relit>>
  BY DEF Begin, NextTap
<1>2. MediaTypeOK'
  BY <1>1 DEF MediaTypeOK, TapKind
<1>3. \A m \in Tap : tap'[m] = IF m = n THEN [kind |-> kind, at |-> at] ELSE tap[m]
  BY <1>1 DEF MediaTypeOK
<1>4. tap'[n].kind = kind /\ tap'[n].at = at /\ \A m \in Tap \ {n} : tap'[m] = tap[m]
  BY <1>3
<1>5. PhaseOK'
  BY <1>4 DEF PhaseOK, TapKind
<1>6. StreamOK' /\ (stops => live' = {})
  BY <1>1 DEF StreamOK
<1>7. calm' => calm /\ AtWork = {} /\ AtWork' = {n}
  <2>1. n \in AtWork'
    BY <1>4 DEF AtWork
  <2>2. AtWork = {} => AtWork' \subseteq {n}
    BY <1>4 DEF AtWork
  <2>3. QED BY <1>1, <2>1, <2>2
<1>8. CalmOK'
  <2> SUFFICES ASSUME calm' PROVE CalmOK'
    BY DEF CalmOK
  <2>1. \A m \in Tap \ {n} : tap[m].at \in {"idle", "done"}
    BY <1>7 DEF AtWork
  <2>2. ~cameraOn => live = {} /\ sent = Nothing
    BY <1>1, <1>7, <2>1 DEF CalmOK
  <2>3. live = {} => live' = {}
    BY <1>1
  <2>4. QED
    BY <1>1, <1>4, <1>6, <1>7, <2>1, <2>2, <2>3 DEF CalmOK
<1>9. ToldOK'
  <2> SUFFICES ASSUME ~shared' PROVE ToldOK'
    BY DEF ToldOK
  <2>1. ~shared
    OBVIOUS
  <2>2. calm' => \A m \in Tap : tap'[m].at # "replacing"
    BY <1>4, <1>7 DEF AtWork
  <2>3. QED BY <1>1, <1>7, <2>1, <2>2 DEF ToldOK
<1>10. QED BY <1>2, <1>5, <1>6, <1>8, <1>9

\* A tap moves on.
LEMMA GoFacts ==
  ASSUME MediaTypeOK, NEW n \in Tap, NEW at \in TapPhase, Go(n, at)
  PROVE  /\ tap' \in [Tap -> [kind : TapKind, at : TapPhase]]
         /\ tap'[n].kind = tap[n].kind /\ tap'[n].at = at
         /\ \A m \in Tap \ {n} : tap'[m] = tap[m]
BY DEF MediaTypeOK, Go, TapKind, TapPhase

\* While a tap moves on, the only one at work is it.
LEMMA AloneAtWork ==
  ASSUME MIInv, NEW n \in AtWork, calm, ~disposed
  PROVE  \A m \in Tap \ {n} : tap[m].at \in {"idle", "done"}
BY DEF MIInv, CalmOK, AtWork

\* A camera is granted.
LEMMA CameraOpensStep ==
  ASSUME MIInv, NEW n \in Tap, CameraOpens(n)
  PROVE  MIInv'
<1> USE TapFacts DEF MIInv
<1>1. /\ tap[n].kind \in {"on", "switch", "unshare"} /\ tap[n].at \in {"asking", "asking again"}
      /\ UNCHANGED <<native, sent, cameraOn, sharing, capture, disposed, told, videoPaused, calm, shared, late, dark, relit>>
  BY DEF CameraOpens
<1>2. CASE disposed
  <2>1. /\ UNCHANGED <<stream, live>>
        /\ \E at \in {"asking again", "done"} :
              Go(n, at) /\ (at = "asking again" => tap[n].kind = "switch")
    BY <1>2 DEF CameraOpens
  <2>2. PICK at \in {"asking again", "done"} : Go(n, at) /\ (at = "asking again" => tap[n].kind = "switch")
    BY <2>1
  <2>3. /\ tap' \in [Tap -> [kind : TapKind, at : TapPhase]]
        /\ tap'[n].kind = tap[n].kind /\ tap'[n].at = at
        /\ \A m \in Tap \ {n} : tap'[m] = tap[m]
    BY <2>2, GoFacts DEF TapPhase
  <2>4. MediaTypeOK'
    BY <1>1, <2>1, <2>3 DEF MediaTypeOK, TapKind, TapPhase
  <2>5. PhaseOK'
    BY <1>1, <2>2, <2>3 DEF PhaseOK
  <2>6. StreamOK' /\ CalmOK' /\ ToldOK'
    BY <1>1, <1>2, <2>1 DEF StreamOK, CalmOK, ToldOK
  <2>7. QED BY <2>4, <2>5, <2>6
<1>3. CASE ~disposed
  <2>1. Go(n, "replacing") /\ stream' = stream \cup {n} /\ live' = live \cup {n}
    BY <1>3 DEF CameraOpens
  <2>2. /\ tap' \in [Tap -> [kind : TapKind, at : TapPhase]]
        /\ tap'[n].kind = tap[n].kind /\ tap'[n].at = "replacing"
        /\ \A m \in Tap \ {n} : tap'[m] = tap[m]
    BY <2>1, GoFacts DEF TapPhase
  <2>3. MediaTypeOK'
    BY <1>1, <2>1, <2>2 DEF MediaTypeOK, TapKind, TapPhase
  <2>4. PhaseOK'
    BY <1>1, <2>2 DEF PhaseOK
  <2>5. StreamOK'
    BY <1>1, <1>3, <2>1 DEF StreamOK
  <2>6. AtWork' = AtWork /\ n \in AtWork
    BY <1>1, <2>2 DEF AtWork
  <2>7. CalmOK'
    <3> SUFFICES ASSUME calm PROVE CalmOK'
      BY <1>1 DEF CalmOK
    <3>1. \A m \in Tap \ {n} : tap[m].at \in {"idle", "done"}
      BY <1>3, <2>6, AloneAtWork
    <3>2. QED BY <1>1, <1>3, <2>2, <2>6, <3>1 DEF CalmOK
  <2>8. ToldOK'
    BY <1>1, <1>3, <2>1, <2>2, <2>6 DEF ToldOK
  <2>9. QED BY <2>3, <2>4, <2>5, <2>7, <2>8
<1>4. QED BY <1>2, <1>3

\* It is not; or the picker is cancelled.
LEMMA DeniedStep ==
  ASSUME MIInv, NEW n \in Tap, CameraFails(n) \/ PickerCancelled(n)
  PROVE  MIInv'
<1> USE TapFacts DEF MIInv
<1>1. /\ tap[n].kind \in {"on", "switch", "unshare", "share"} /\ tap[n].at \in {"asking", "asking again"}
      /\ UNCHANGED <<native, stream, live, sent, cameraOn, sharing, capture, disposed, told, videoPaused, calm, shared, late, relit>>
      /\ dark' \in BOOLEAN /\ (dark => dark')
  <2>1. CASE CameraFails(n)
    <3>1. dark' = (dark \/ (tap[n].kind = "switch" /\ tap[n].at = "asking again"))
      BY <2>1 DEF CameraFails
    <3>2. dark' \in BOOLEAN /\ (dark => dark')
      BY <3>1
    <3>3. QED BY <2>1, <3>2 DEF CameraFails
  <2>2. CASE PickerCancelled(n)
    <3>1. dark' = dark /\ dark \in BOOLEAN
      BY <2>2 DEF PickerCancelled, MediaTypeOK
    <3>2. QED BY <2>2, <3>1 DEF PickerCancelled
  <2>3. QED BY <2>1, <2>2
<1>2. PICK at \in {"asking again", "clearing", "done"} :
        /\ Go(n, at)
        /\ at = "asking again" => tap[n].kind = "switch"
        /\ at = "clearing" => tap[n].kind = "unshare" /\ ~disposed
        /\ at = "done" => disposed \/ tap[n].kind \in {"on", "share"} \/ (tap[n].kind = "switch" /\ dark')
  <2>1. CASE PickerCancelled(n)
    BY <2>1 DEF PickerCancelled
  <2>2. CASE CameraFails(n) /\ tap[n].kind = "switch" /\ tap[n].at = "asking"
    BY <2>2 DEF CameraFails
  <2>3. CASE CameraFails(n) /\ tap[n].kind = "unshare" /\ ~disposed
    BY <2>3 DEF CameraFails
  <2>4. CASE /\ CameraFails(n) /\ ~(tap[n].kind = "switch" /\ tap[n].at = "asking")
             /\ ~(tap[n].kind = "unshare" /\ ~disposed)
    BY <2>4 DEF CameraFails
  <2>5. QED BY <2>1, <2>2, <2>3, <2>4
<1>3. /\ tap' \in [Tap -> [kind : TapKind, at : TapPhase]]
      /\ tap'[n].kind = tap[n].kind /\ tap'[n].at = at
      /\ \A m \in Tap \ {n} : tap'[m] = tap[m]
  BY <1>2, GoFacts DEF TapPhase
<1>4. MediaTypeOK'
  BY <1>1, <1>3 DEF MediaTypeOK, TapKind, TapPhase
<1>5. PhaseOK'
  BY <1>1, <1>2, <1>3 DEF PhaseOK
<1>6. StreamOK'
  BY <1>1 DEF StreamOK
<1>7. n \in AtWork /\ AtWork' \subseteq AtWork
  BY <1>1, <1>3 DEF AtWork
<1>8. CalmOK'
  <2> SUFFICES ASSUME calm, ~disposed PROVE CalmOK'
    BY <1>1 DEF CalmOK
  <2>1. \A m \in Tap \ {n} : tap[m].at \in {"idle", "done"}
    BY <1>7, AloneAtWork
  <2>2. tap[n].kind \in {"switch", "unshare"} => live = {}
    BY <1>1 DEF CalmOK
  <2>3. ~cameraOn => live = {} /\ sent = Nothing
    BY <1>1, <2>1 DEF CalmOK
  <2>4. QED BY <1>1, <1>2, <1>3, <1>7, <2>1, <2>2, <2>3 DEF CalmOK
<1>9. ToldOK'
  <2> SUFFICES ASSUME ~disposed, ~shared PROVE ToldOK'
    BY <1>1 DEF ToldOK
  <2>1. tap[n].kind \in {"on", "switch"}
    BY <1>1 DEF PhaseOK
  <2>2. calm /\ tap[n].kind = "on" => ~cameraOn
    BY <1>7 DEF CalmOK
  <2>3. AtWork' = {} => at = "done"
    BY <1>3 DEF AtWork
  <2>4. QED BY <1>1, <1>2, <1>3, <2>1, <2>2, <2>3 DEF ToldOK
<1>10. QED BY <1>4, <1>5, <1>6, <1>8, <1>9

\* A screen is picked.
LEMMA ScreenPickedStep ==
  ASSUME MIInv, NEW n \in Tap, ScreenPicked(n)
  PROVE  MIInv'
<1> USE TapFacts DEF MIInv
<1>1. /\ tap[n].kind = "share" /\ tap[n].at = "asking"
      /\ live' = (live \ stream) \cup {n} /\ stream' = {n}
      /\ Go(n, "replacing")
      /\ capture' = (IF native THEN "loose" ELSE capture)
      /\ late' = (IF disposed THEN late \cup {n} ELSE late)
      /\ UNCHANGED <<native, sent, cameraOn, sharing, disposed, told, videoPaused, calm, shared, dark, relit>>
  BY DEF ScreenPicked
<1>2. /\ tap' \in [Tap -> [kind : TapKind, at : TapPhase]]
      /\ tap'[n].kind = "share" /\ tap'[n].at = "replacing"
      /\ \A m \in Tap \ {n} : tap'[m] = tap[m]
  BY <1>1, GoFacts DEF TapPhase
<1>3. MediaTypeOK'
  BY <1>1, <1>2 DEF MediaTypeOK, TapKind, TapPhase
<1>4. PhaseOK'
  BY <1>1, <1>2 DEF PhaseOK
<1>5. StreamOK'
  BY <1>1 DEF StreamOK
<1>6. AtWork' = AtWork /\ n \in AtWork
  BY <1>1, <1>2 DEF AtWork
<1>7. CalmOK'
  <2> SUFFICES ASSUME calm, ~disposed PROVE CalmOK'
    BY <1>1 DEF CalmOK
  <2>1. \A m \in Tap \ {n} : tap[m].at \in {"idle", "done"}
    BY <1>6, AloneAtWork
  <2>2. QED BY <1>1, <1>2, <1>6, <2>1 DEF CalmOK
<1>8. ToldOK'
  BY <1>1 DEF ToldOK, PhaseOK
<1>9. QED BY <1>3, <1>4, <1>5, <1>7, <1>8

\* The sender has its new track.
LEMMA ReplacedStep ==
  ASSUME MIInv, NEW n \in Tap, Replaced(n)
  PROVE  MIInv'
<1> USE TapFacts DEF MIInv
<1>1. /\ tap[n].at \in {"replacing", "clearing"} /\ Go(n, "done")
      /\ UNCHANGED <<native, stream, live, disposed, videoPaused, calm, shared, late, dark>>
  BY DEF Replaced
<1>2. /\ tap' \in [Tap -> [kind : TapKind, at : TapPhase]]
      /\ tap'[n].kind = tap[n].kind /\ tap'[n].at = "done"
      /\ \A m \in Tap \ {n} : tap'[m] = tap[m]
  BY <1>1, GoFacts DEF TapPhase
<1>3. PhaseOK'
  BY <1>1, <1>2 DEF PhaseOK
<1>4. n \in AtWork /\ AtWork' = AtWork \ {n}
  BY <1>1, <1>2 DEF AtWork
<1>5. tap[n].kind = "share" => shared
  BY DEF PhaseOK
<1>6. CASE disposed
  <2>1. UNCHANGED <<sent, cameraOn, sharing, capture, told, relit>>
    BY <1>6 DEF Replaced
  <2>2. MediaTypeOK'
    BY <1>1, <1>2, <2>1 DEF MediaTypeOK, TapKind, TapPhase
  <2>3. QED BY <1>1, <1>3, <1>6, <2>1, <2>2 DEF StreamOK, CalmOK, ToldOK
<1>7. CASE ~disposed
  <2>1. /\ sent' = (IF tap[n].at = "replacing" THEN n ELSE Nothing)
        /\ cameraOn' = (IF tap[n].kind = "switch" THEN cameraOn ELSE tap[n].at = "replacing")
        /\ sharing' = (sharing \/ tap[n].kind = "share")
        /\ capture' = (IF tap[n].kind = "share" /\ capture = "loose" THEN "held" ELSE capture)
        /\ told' = (IF tap[n].kind \in {"on", "off"} THEN cameraOn' ELSE told)
        /\ relit' = (relit \/ (tap[n].kind = "on" /\ videoPaused))
    BY <1>7 DEF Replaced
  <2>2. /\ cameraOn' \in BOOLEAN /\ sharing' \in BOOLEAN /\ told' \in BOOLEAN /\ relit' \in BOOLEAN
        /\ sent' \in Track \cup {Nothing} /\ capture' \in {"off", "held", "loose"}
    BY <2>1 DEF MediaTypeOK
  <2>3. MediaTypeOK'
    BY <1>1, <1>2, <2>2 DEF MediaTypeOK, TapKind, TapPhase
  <2>4. StreamOK'
    BY <1>1, <1>5, <1>7, <2>1 DEF StreamOK
  <2>5. calm => cameraOn' = (tap[n].at = "replacing")
    <3>1. calm /\ tap[n].kind = "switch" => cameraOn /\ tap[n].at = "replacing"
      BY <1>1, <1>4, <1>7 DEF CalmOK, PhaseOK
    <3>2. QED BY <2>1, <3>1 DEF MediaTypeOK
  <2>6. CalmOK'
    <3> SUFFICES ASSUME calm PROVE CalmOK'
      BY <1>1 DEF CalmOK
    <3>1. \A m \in Tap \ {n} : tap[m].at \in {"idle", "done"}
      BY <1>4, <1>7, AloneAtWork
    <3>2. ~cameraOn' => live' = {} /\ sent' = Nothing
      BY <1>1, <1>7, <2>1, <2>5 DEF CalmOK
    <3>3. AtWork' = {} /\ \A m \in Tap : tap'[m].at \in {"idle", "done"}
      BY <1>2, <1>4, <3>1 DEF AtWork
    <3>4. \A m \in Tap : tap'[m].at \notin {"clearing", "asking", "asking again"}
      BY <3>3
    <3>5. QED BY <3>2, <3>3, <3>4 DEF CalmOK
  <2>7. ToldOK'
    <3> SUFFICES ASSUME ~shared PROVE ToldOK'
      BY <1>1 DEF ToldOK
    <3>1. tap[n].kind \in {"on", "off", "switch"}
      BY <1>1 DEF PhaseOK, MediaTypeOK
    <3>2. told' = (cameraOn' /\ (~videoPaused' \/ relit'))
      <4>1. told = (cameraOn /\ (~videoPaused \/ relit)) /\ videoPaused' = videoPaused
        BY <1>1, <1>7 DEF ToldOK
      <4>2. cameraOn \in BOOLEAN /\ videoPaused \in BOOLEAN /\ relit \in BOOLEAN
        BY DEF MediaTypeOK
      <4>3. CASE tap[n].kind = "on"
        <5>1. tap[n].at = "replacing"
          BY <1>1, <4>3 DEF PhaseOK
        <5>2. QED BY <2>1, <4>1, <4>2, <4>3, <5>1
      <4>4. CASE tap[n].kind = "off"
        <5>1. tap[n].at = "clearing"
          BY <1>1, <4>4 DEF PhaseOK
        <5>2. QED BY <2>1, <4>1, <4>2, <4>4, <5>1
      <4>5. CASE tap[n].kind = "switch"
        BY <2>1, <4>1, <4>2, <4>5
      <4>6. QED BY <3>1, <4>3, <4>4, <4>5
    <3>3. calm /\ ~dark => (tap[n].at = "replacing" => n \in live)
      BY <1>7 DEF ToldOK
    <3>4. calm /\ ~dark /\ cameraOn' => sent' \in live'
      BY <1>1, <2>1, <2>5, <3>3
    <3>5. calm /\ ~dark => \A m \in Tap : tap'[m].at = "replacing" => m \in live'
      BY <1>1, <1>2, <1>7 DEF ToldOK
    <3>6. QED BY <1>1, <3>2, <3>4, <3>5 DEF ToldOK
  <2>8. QED BY <1>3, <2>3, <2>4, <2>6, <2>7
<1>8. QED BY <1>6, <1>7

\* The system stops a capture; video is paused or taken up; the call ends.
LEMMA StopStep ==
  ASSUME MIInv, SystemStops \/ VideoPaused \/ Dispose
  PROVE  MIInv'
<1> USE TapFacts DEF MIInv
<1>1. CASE SystemStops
  <2>1. /\ live' = live \ {n \in Tap : tap[n].kind = "share"} /\ capture' = "off"
        /\ UNCHANGED <<native, tap, stream, sent, cameraOn, sharing, disposed, told, videoPaused, calm, shared, late, dark, relit>>
    BY <1>1 DEF SystemStops
  <2>2. MediaTypeOK' /\ PhaseOK' /\ StreamOK' /\ CalmOK'
    BY <2>1 DEF MediaTypeOK, PhaseOK, StreamOK, CalmOK, AtWork
  <2>3. ~shared => live' = live
    BY <2>1 DEF PhaseOK
  <2>4. ToldOK'
    BY <2>1, <2>3 DEF ToldOK, AtWork
  <2>5. QED BY <2>2, <2>4
<1>2. CASE Dispose
  <2>1. /\ disposed' = TRUE /\ live' = live \ stream /\ ~disposed
        /\ sent' = Nothing /\ cameraOn' = FALSE
        /\ capture' = (IF capture = "held" THEN "off" ELSE capture)
        /\ UNCHANGED <<native, tap, stream, sharing, told, videoPaused, calm, shared, late, dark, relit>>
    BY <1>2 DEF Dispose
  <2>2. MediaTypeOK' /\ PhaseOK'
    BY <2>1 DEF MediaTypeOK, PhaseOK
  <2>3. StreamOK' /\ CalmOK' /\ ToldOK'
    BY <2>1 DEF StreamOK, CalmOK, ToldOK
  <2>4. QED BY <2>2, <2>3
<1>3. CASE VideoPaused
  <2>1. /\ videoPaused' = ~videoPaused /\ relit' = FALSE
        /\ told' = (IF cameraOn THEN ~videoPaused' ELSE told)
        /\ UNCHANGED <<native, tap, stream, live, sent, cameraOn, sharing, capture, disposed, calm, shared, late, dark>>
    BY <1>3 DEF VideoPaused
  <2>2. MediaTypeOK' /\ PhaseOK' /\ StreamOK' /\ CalmOK'
    BY <2>1 DEF MediaTypeOK, PhaseOK, StreamOK, CalmOK, AtWork
  <2>3. ~disposed /\ ~shared => told' = (cameraOn' /\ (~videoPaused' \/ relit'))
    BY <2>1 DEF ToldOK, MediaTypeOK
  <2>4. ToldOK'
    BY <2>1, <2>3 DEF ToldOK, AtWork
  <2>5. QED BY <2>2, <2>4
<1>4. QED BY <1>1, <1>2, <1>3

\* Every step keeps the strengthening.
LEMMA MediaStep ==
  ASSUME MIInv, [MediaNext]_mediaVars
  PROVE  MIInv'
<1> USE DEF MIInv
<1>1. ASSUME NEW n \in Tap, ToggleCamera(n) PROVE MIInv'
  <2>1. UNCHANGED <<sharing, capture, shared>>
    BY <1>1 DEF ToggleCamera
  <2>2. shared' \in BOOLEAN /\ (shared => shared') /\ sharing' \in BOOLEAN /\ (sharing' => shared')
        /\ capture' \in {"off", "held", "loose"}
    BY <2>1 DEF MediaTypeOK, StreamOK
  <2>3. CASE cameraOn /\ Begin(n, "off", "clearing", TRUE)
    BY <2>2, <2>3, BeginStep DEF TapKind
  <2>4. CASE ~cameraOn /\ Begin(n, "on", "asking", FALSE)
    BY <2>2, <2>4, BeginStep DEF TapKind
  <2>5. QED BY <1>1, <2>3, <2>4 DEF ToggleCamera
<1>2. ASSUME NEW n \in Tap, SwitchCamera(n) PROVE MIInv'
  <2>1. cameraOn /\ Begin(n, "switch", "asking", TRUE) /\ UNCHANGED <<sharing, capture, shared>>
    BY <1>2 DEF SwitchCamera
  <2>2. QED BY <2>1, BeginStep DEF TapKind, MediaTypeOK, StreamOK
<1>3. ASSUME NEW n \in Tap, StartShare(n) PROVE MIInv'
  <2>1. Begin(n, "share", "asking", FALSE) /\ shared' = TRUE /\ UNCHANGED <<sharing, capture>>
    BY <1>3 DEF StartShare
  <2>2. QED BY <2>1, BeginStep DEF TapKind, MediaTypeOK, StreamOK
<1>4. ASSUME NEW n \in Tap, StopShare(n) PROVE MIInv'
  <2>1. /\ sharing /\ Begin(n, "unshare", "asking", TRUE) /\ sharing' = FALSE
        /\ capture' = (IF capture = "held" THEN "off" ELSE capture) /\ UNCHANGED shared
    BY <1>4 DEF StopShare
  <2>2. QED BY <2>1, BeginStep DEF TapKind, MediaTypeOK, StreamOK
<1>5. ASSUME NEW n \in Tap, BrowserStops(n) PROVE MIInv'
  BY <1>4, <1>5 DEF BrowserStops
<1>6. ASSUME NEW n \in Tap,
             CameraOpens(n) \/ CameraFails(n) \/ ScreenPicked(n) \/ PickerCancelled(n) \/ Replaced(n)
      PROVE  MIInv'
  BY <1>6, CameraOpensStep, DeniedStep, ScreenPickedStep, ReplacedStep
<1>7. CASE SystemStops \/ VideoPaused \/ Dispose
  BY <1>7, StopStep
<1>8. CASE UNCHANGED mediaVars
  <2>1. UNCHANGED <<native, tap, stream, live, sent, cameraOn, sharing, capture, disposed,
                    told, videoPaused, calm, shared, late, dark, relit>>
    BY <1>8 DEF mediaVars
  <2>2. MediaTypeOK' /\ PhaseOK' /\ StreamOK'
    BY <2>1 DEF MediaTypeOK, PhaseOK, StreamOK
  <2>3. AtWork' = AtWork
    BY <2>1 DEF AtWork
  <2>4. CalmOK' /\ ToldOK'
    BY <2>1, <2>3 DEF CalmOK, ToldOK
  <2>5. QED BY <2>2, <2>4
<1>9. QED BY <1>1, <1>2, <1>3, <1>4, <1>5, <1>6, <1>7, <1>8 DEF MediaNext

\* The strengthening holds in every state.
THEOREM MediaIInv == MediaSpec => []MIInv
<1>1. ASSUME MediaInit PROVE MIInv
  <2>1. MediaTypeOK
    BY <1>1, TapFacts DEF MediaInit, MediaTypeOK, Idle
  <2>2. PhaseOK /\ AtWork = {}
    BY <1>1 DEF MediaInit, PhaseOK, AtWork, Idle
  <2>3. \A n \in Tap : tap[n] = Idle
    BY <1>1 DEF MediaInit
  <2>4. StreamOK
    BY <1>1 DEF MediaInit, StreamOK
  <2>5. CalmOK
    BY <1>1, <2>2, <2>3 DEF MediaInit, CalmOK, Idle
  <2>6. ToldOK
    BY <1>1, <2>3 DEF MediaInit, ToldOK, Idle
  <2>7. QED BY <2>1, <2>2, <2>4, <2>5, <2>6 DEF MIInv
<1>2. QED BY <1>1, MediaStep, PTL DEF MediaSpec

\* When the call is over no camera is left on, and during it one shown as off is
\* off, unless taps overlapped (dispose and getMedia, callClient.ts).
THEOREM CamerasAreReleased == MediaSpec => []CamerasReleased
<1>1. ASSUME MIInv PROVE CamerasReleased
  <2>1. AtWork = {} => \A n \in Tap : tap[n].at # "replacing"
    BY DEF AtWork
  <2>2. QED BY <1>1, <2>1 DEF MIInv, StreamOK, CalmOK, CamerasReleased
<1>2. QED BY <1>1, MediaIInv, PTL

\* The other side's notice of the camera (call:camera, page.tsx) follows the button and
\* the pauses of the quality monitor, but for a camera turned on during a pause, and the
\* picture when taps did not overlap and a camera was found.
THEOREM PeerIsToldCamera == MediaSpec => []PeerToldCamera
<1>1. ASSUME MIInv PROVE PeerToldCamera
  <2>1. AtWork = {} => \A n \in Tap : tap[n].at # "replacing"
    BY DEF AtWork
  <2>2. ~disposed /\ calm /\ AtWork = {} /\ ~cameraOn => sent \notin live
    BY <1>1, <2>1 DEF MIInv, CalmOK
  <2>3. told \in BOOLEAN /\ cameraOn \in BOOLEAN /\ videoPaused \in BOOLEAN /\ relit \in BOOLEAN
    BY <1>1 DEF MIInv, MediaTypeOK
  <2>4. QED BY <1>1, <2>2, <2>3 DEF MIInv, ToldOK, PeerToldCamera
<1>2. QED BY <1>1, MediaIInv, PTL

-----------------------------------------------------------------------------
(* Quality tiers (CallQuality).                                              *)

\* The good streak never counts a sample from before the last bad one or the last
\* change of the tier.
StreakCalm == streak.good <= calmFor

QIInv == QualityTypeOK /\ StreakCalm

\* The streaks with a sample counted.
LEMMA CountedType ==
  ASSUME QualityTypeOK
  PROVE  /\ Counted \in [severe : 0 .. 2, bad : 0 .. 2, good : 0 .. 5]
         /\ Weak => Counted.good = 0
         /\ ~Weak => Counted.good = UpTo(streak.good, 5)
         /\ NextTier \in Tier
<1>1. /\ Counted \in [severe : 0 .. 2, bad : 0 .. 2, good : 0 .. 5]
      /\ Weak => Counted.good = 0
      /\ ~Weak => Counted.good = UpTo(streak.good, 5)
  BY DEF QualityTypeOK, Counted, UpTo
<1>2. NextTier \in Tier
  BY <1>1 DEF QualityTypeOK, NextTier, Tier
<1>3. QED BY <1>1, <1>2

\* The streaks after a change of the tier.
LEMMA KeptType ==
  ASSUME NEW next \in Tier, Counted \in [severe : 0 .. 2, bad : 0 .. 2, good : 0 .. 5]
  PROVE  /\ Kept(next) \in [severe : 0 .. 2, bad : 0 .. 2, good : 0 .. 5]
         /\ Kept(next).good = 0
  BY DEF Kept, Tier

\* A sample keeps the strengthening.
LEMMA SampleStep ==
  ASSUME QIInv, SampleQuality
  PROVE  QIInv'
<1> USE DEF QIInv, QualityTypeOK, StreakCalm
<1>1. /\ Counted \in [severe : 0 .. 2, bad : 0 .. 2, good : 0 .. 5]
      /\ Weak => Counted.good = 0
      /\ ~Weak => Counted.good = UpTo(streak.good, 5)
      /\ NextTier \in Tier
  BY CountedType
<1>2. calmFor' = IF Weak \/ NextTier # tier THEN 0 ELSE UpTo(calmFor, 5)
  BY DEF SampleQuality
<1>3. calmFor' \in 0 .. 5
  BY <1>2 DEF UpTo
<1>4. CASE NextTier # tier
  <2>1. /\ streak' = Kept(NextTier) /\ tier' = NextTier /\ weak' = weak
        /\ applying' = Append(applying, NextTier) /\ Len(applying) < MaxApplying
        /\ UNCHANGED <<stats, up, camera, paused>>
    BY <1>4 DEF SampleQuality
  <2>2. streak' \in [severe : 0 .. 2, bad : 0 .. 2, good : 0 .. 5] /\ streak'.good = 0
    BY <1>1, <2>1, KeptType
  <2>3. applying' \in Seq(Tier) /\ Len(applying') <= MaxApplying
    BY <1>1, <2>1, QualityAssumption
  <2>4. QED BY <1>1, <1>2, <1>3, <1>4, <2>1, <2>2, <2>3
<1>5. CASE NextTier = tier
  <2>1. /\ streak' = Counted /\ weak' = (Weak \/ tier > 0)
        /\ UNCHANGED <<tier, applying, stats, up, camera, paused>>
    BY <1>5 DEF SampleQuality
  <2>2. streak'.good <= calmFor'
    BY <1>1, <1>2, <1>5, <2>1 DEF UpTo
  <2>3. weak' \in BOOLEAN
    BY <2>1
  <2>4. QED BY <1>1, <1>3, <2>1, <2>2, <2>3
<1>6. QED BY <1>4, <1>5

\* Every step does.
LEMMA QualityStep ==
  ASSUME QIInv, [QualityNext]_qualityVars
  PROVE  QIInv'
<1> USE DEF QIInv, QualityTypeOK, StreakCalm
<1>1. CASE SampleQuality
  BY <1>1, SampleStep
<1>2. CASE TierApplied
  <2>1. applying' \in Seq(Tier) /\ Len(applying') <= MaxApplying
    BY <1>2, QualityAssumption DEF TierApplied
  <2>2. weak' \in BOOLEAN /\ paused' \in BOOLEAN
    BY <1>2 DEF TierApplied
  <2>3. QED BY <1>2, <2>1, <2>2 DEF TierApplied
<1>3. CASE StatsChange \/ PathChanges \/ CameraChanges
  BY <1>3 DEF StatsChange, PathChanges, CameraChanges
<1>4. CASE UNCHANGED qualityVars
  BY <1>4 DEF qualityVars
<1>5. QED BY <1>1, <1>2, <1>3, <1>4 DEF QualityNext

\* The strengthening holds in every state.
THEOREM QualityIInv == QualitySpec => []QIInv
<1>1. ASSUME QualityInit PROVE QIInv
  <2>1. applying \in Seq(Tier) /\ Len(applying) = 0
    BY <1>1 DEF QualityInit
  <2>2. streak \in [severe : 0 .. 2, bad : 0 .. 2, good : 0 .. 5] /\ streak.good <= calmFor
    BY <1>1 DEF QualityInit
  <2>3. stats \in Kinds /\ tier \in Tier /\ calmFor \in 0 .. 5
    BY <1>1 DEF QualityInit, Kinds, Tier
  <2>4. up \in BOOLEAN /\ camera \in BOOLEAN /\ paused \in BOOLEAN /\ weak \in BOOLEAN
    <3>1. up = FALSE /\ camera = TRUE /\ paused = FALSE /\ weak = FALSE
      BY <1>1 DEF QualityInit
    <3>2. QED BY <3>1
  <2>5. QED
    BY <2>1, <2>2, <2>3, <2>4, QualityAssumption DEF QIInv, QualityTypeOK, StreakCalm
<1>2. QED BY <1>1, QualityStep, PTL DEF QualitySpec

\* Video does not flap: it comes back one tier at a time, each after five good
\* samples in a row since the last change (sampleQuality, callClient.ts:373-378,
\* 439-451).
THEOREM NoFlapping == QualitySpec => StepUpSlowly
<1>1. ASSUME QIInv, [QualityNext]_qualityVars
      PROVE  [tier' < tier => tier' = tier - 1 /\ calmFor >= 4]_qualityVars
  <2> SUFFICES ASSUME tier' < tier PROVE tier' = tier - 1 /\ calmFor >= 4
    OBVIOUS
  <2> USE <1>1 DEF QIInv, QualityTypeOK, Tier
  <2>1. SampleQuality /\ NextTier # tier /\ tier' = NextTier
    BY DEF QualityNext, qualityVars, SampleQuality, TierApplied, StatsChange, PathChanges,
           CameraChanges
  <2>2. /\ Counted \in [severe : 0 .. 2, bad : 0 .. 2, good : 0 .. 5]
        /\ Weak => Counted.good = 0
        /\ ~Weak => Counted.good = UpTo(streak.good, 5)
    BY CountedType
  <2>3. tier' = tier - 1 /\ Counted.good >= 5
    BY <2>1, <2>2 DEF NextTier
  <2>4. streak.good >= 4
    BY <2>2, <2>3 DEF UpTo
  <2>5. QED BY <2>3, <2>4 DEF StreakCalm
<1>2. QED BY <1>1, QualityIInv, PTL DEF QualitySpec, StepUpSlowly
=============================================================================
