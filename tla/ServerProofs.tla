---------------------------- MODULE ServerProofs ----------------------------
(*****************************************************************************)
(* Theorems about what the server keeps or announces: Accounts, Groups,      *)
(* Presence and Typing, for any number of requests, users, changes, pages,   *)
(* messages and events.                                                      *)
(*****************************************************************************)
EXTENDS Accounts, Groups, Presence, Typing, SequenceTheorems, TLAPS

-----------------------------------------------------------------------------
(* Codes of one account (Accounts).                                          *)

Mailed(k) == {r \in Req : request[r].at = "mailed" /\ KindOf(request[r].op) = k}
SpentReset(r) == request[r].op = "reset" /\ request[r].at = "in"

\* A code that is in the row, or that a reset was found good for, was stored by a
\* request that has answered; and only mailing requests have mailed.
CodesStored ==
    /\ \A k \in Kind : account.code[k] # 0 => request[account.code[k]].at = "form"
    /\ \A r \in Req : request[r].op \in Entering => request[r].code \in Req
    /\ \A r \in Req : request[r].op = "reset" /\ request[r].at \in {"looked", "in"} =>
          request[request[r].code].at = "form"
    /\ \A r \in Req : request[r].at = "mailed" => request[r].op \in Mailing

\* While requests about codes of a kind do not overlap, at most one has mailed and
\* not written, and its mail is the newest.
OneMailed(k) ==
    ~crossed[k] => /\ \A r \in Mailed(k) : Newest(k) = r
                   /\ \A r, q \in Mailed(k) : r = q

\* Then the code in the row is the newest once it is written; and a reset code in
\* the row has let nobody in, while two that were let in had different codes.
NewestStored ==
    /\ ~crossed["verify"] /\ Mailed("verify") = {} /\ Exists /\ ~account.verified =>
          account.code["verify"] = Newest("verify")
    /\ ~crossed["reset"] =>
          /\ Mailed("reset") = {} /\ account.code["reset"] # 0 =>
                account.code["reset"] = Newest("reset")
          /\ \A r \in Req : SpentReset(r) => request[r].code # account.code["reset"]
          /\ \A r, q \in Req : SpentReset(r) /\ SpentReset(q) /\ request[r].code = request[q].code => r = q

AccountIInv == AccountTypeOK /\ CodesStored /\ (\A k \in Kind : OneMailed(k)) /\ NewestStored

RequestSet == [op : AccountOp \cup {"none"},
               at : {"new", "sent", "looked", "mailed", "form", "in", "done", "failed"},
               id : Code, code : Code]

\* The kinds are two, and the operations say which.
LEMMA KindFacts ==
  /\ Kind = {"verify", "reset"} /\ Req \subseteq Code /\ 0 \in Code /\ 0 \notin Req
  /\ \A op : KindOf(op) \in Kind /\ (KindOf(op) = "reset" <=> op \in {"forgot", "reset"})
  /\ Mailing = {"register", "resend", "login", "forgot"} /\ Entering = {"verify", "reset"}
BY AccountAssumption DEF Kind, KindOf, Mailing, Entering, Req, Code

\* One request moves on, and was not yet answered with the code form: those that
\* were stay where they are.
LEMMA RequestMoves ==
  ASSUME AccountTypeOK, NEW r \in Req, NEW e \in RequestSet,
         request' = [request EXCEPT ![r] = e], request[r].at # "form"
  PROVE  /\ request' \in [Req -> RequestSet]
         /\ request'[r] = e
         /\ \A q \in Req : q # r => request'[q] = request[q]
         /\ \A q \in Req : request[q].at = "form" => request'[q] = request[q]
BY DEF AccountTypeOK, RequestSet

\* A request that goes on to its next point changes nothing else of the requests.
LEMMA RequestGoes ==
  ASSUME AccountTypeOK, NEW r \in Req, request[r].at # "form",
         NEW to \in {"form", "looked", "mailed", "in", "done", "failed"}, Goes(r, to)
  PROVE  /\ request' \in [Req -> RequestSet]
         /\ request'[r].at = to /\ request'[r].op = request[r].op
         /\ request'[r].code = request[r].code /\ request'[r].id = request[r].id
         /\ \A q \in Req : q # r => request'[q] = request[q]
         /\ \A q \in Req : request[q].at = "form" => request'[q] = request[q]
<1> DEFINE e == [request[r] EXCEPT !.at = to]
<1>1. request[r] \in RequestSet
  BY DEF AccountTypeOK, RequestSet
<1>2. /\ e \in RequestSet /\ e.at = to /\ e.op = request[r].op
      /\ e.code = request[r].code /\ e.id = request[r].id
  BY <1>1 DEF RequestSet
<1>3. request' = [request EXCEPT ![r] = e]
  BY DEF Goes
<1> HIDE DEF e
<1>4. QED
  BY <1>2, <1>3, RequestMoves

\* A step of a request that neither mails nor writes: what it may not do is to
\* find a reset code good that nobody stored.
LEMMA QuietStep ==
  ASSUME AccountIInv, NEW r \in Req, UNCHANGED <<account, mails, crossed>>,
         request' \in [Req -> RequestSet],
         \A q \in Req : q # r => request'[q] = request[q],
         request[r].at \notin {"form", "mailed", "in"}, request'[r].at # "mailed",
         ~(request'[r].op = "reset" /\ request'[r].at = "in"),
         request'[r].op \in Entering => request'[r].code \in Req,
         request'[r].op = "reset" /\ request'[r].at = "looked" => request[request'[r].code].at = "form"
  PROVE  AccountIInv'
<1>1. AccountTypeOK'
  BY DEF AccountIInv, AccountTypeOK, RequestSet
<1>2. \A q \in Req : request[q].at = "form" => request'[q] = request[q]
  OBVIOUS
<1>3. CodesStored'
  <2>1. \A k \in Kind : account.code[k] \in Code
    BY DEF AccountIInv, AccountTypeOK
  <2>2. \A k \in Kind : account'.code[k] # 0 => request'[account'.code[k]].at = "form"
    BY <1>2, <2>1 DEF AccountIInv, CodesStored, Code, Req
  <2>3. \A q \in Req : request'[q].op \in Entering => request'[q].code \in Req
    BY DEF AccountIInv, CodesStored
  <2>4. \A q \in Req : request'[q].op = "reset" /\ request'[q].at \in {"looked", "in"} =>
          request'[request'[q].code].at = "form"
    BY <1>2, <2>3, KindFacts DEF AccountIInv, CodesStored
  <2>5. \A q \in Req : request'[q].at = "mailed" => request'[q].op \in Mailing
    BY DEF AccountIInv, CodesStored
  <2>6. QED
    BY <2>2, <2>3, <2>4, <2>5 DEF CodesStored
<1>4. \A k \in Kind : Mailed(k)' = Mailed(k) /\ Newest(k)' = Newest(k)
  BY DEF Mailed, Newest
<1>5. \A q \in Req : SpentReset(q)' => SpentReset(q) /\ request'[q] = request[q]
  BY DEF SpentReset
<1>6. \A k \in Kind : OneMailed(k)'
  BY <1>4 DEF AccountIInv, OneMailed
<1>7. NewestStored'
  BY <1>4, <1>5, KindFacts DEF AccountIInv, NewestStored, Exists
<1>8. QED
  BY <1>1, <1>3, <1>6, <1>7 DEF AccountIInv

\* A form is submitted: a request begins, with the code the user has of the mails.
LEMMA SubmitStep ==
  ASSUME AccountIInv, NEW r \in Req, NEW op \in AccountOp, NEW code \in Code, Submit(r, op, code)
  PROVE  AccountIInv'
<1> DEFINE e == [op |-> op, at |-> "sent", id |-> 0, code |-> code]
<1>1. e \in RequestSet /\ e.op = op /\ e.at = "sent" /\ e.code = code
  BY KindFacts DEF RequestSet
<1>2. request' = [request EXCEPT ![r] = e] /\ request[r].at = "new" /\ UNCHANGED <<account, mails, crossed>>
  BY DEF Submit
<1>3. op \in Entering => code \in Req
  <2>1. \A k \in Kind : mails[k] \in Seq(Req)
    BY DEF AccountIInv, AccountTypeOK
  <2>2. \A k \in Kind : MailedCodes(k) \subseteq Req
    BY <2>1 DEF MailedCodes
  <2>3. QED
    BY <2>2, KindFacts DEF Submit
<1> HIDE DEF e
<1>4. /\ request' \in [Req -> RequestSet] /\ request'[r] = e
      /\ \A q \in Req : q # r => request'[q] = request[q]
  BY <1>1, <1>2, RequestMoves DEF AccountIInv
<1>5. QED
  BY <1>1, <1>2, <1>3, <1>4, QuietStep

\* The handler reads the row, and refuses or goes on.
LEMMA LookAtStep ==
  ASSUME AccountIInv, NEW r \in Req, LookAt(r)
  PROVE  AccountIInv'
<1>0. /\ request[r].at = "sent" /\ UNCHANGED <<account, mails, crossed>>
      /\ request[r] \in RequestSet
      /\ request[r].op \in Entering => request[r].code \in Req
  BY DEF LookAt, AccountIInv, AccountTypeOK, CodesStored, RequestSet
<1>1. CASE SignsInAtOnce(request[r].op) /\ Goes(r, "in")
  <2>1. /\ request' \in [Req -> RequestSet] /\ request'[r].at = "in" /\ request'[r].op = request[r].op
        /\ request'[r].code = request[r].code
        /\ \A q \in Req : q # r => request'[q] = request[q]
    BY <1>0, <1>1, RequestGoes DEF AccountIInv
  <2>2. request[r].op # "reset"
    BY <1>1 DEF SignsInAtOnce
  <2>3. QED
    BY <1>0, <2>1, <2>2, QuietStep
<1>2. CASE Goes(r, "failed")
  <2>1. /\ request' \in [Req -> RequestSet] /\ request'[r].at = "failed" /\ request'[r].op = request[r].op
        /\ request'[r].code = request[r].code
        /\ \A q \in Req : q # r => request'[q] = request[q]
    BY <1>0, <1>2, RequestGoes DEF AccountIInv
  <2>2. QED
    BY <1>0, <2>1, QuietStep
<1>3. CASE /\ CodeGood(request[r].op, request[r].code)
           /\ request' = [request EXCEPT ![r].at = "looked", ![r].id = account.id]
  <2> DEFINE e == [request[r] EXCEPT !.at = "looked", !.id = account.id]
  <2>1. account.id \in Code
    BY DEF AccountIInv, AccountTypeOK
  <2>2. e \in RequestSet /\ e.at = "looked" /\ e.op = request[r].op /\ e.code = request[r].code
    BY <1>0, <2>1 DEF RequestSet
  <2>3. request' = [request EXCEPT ![r] = e]
    BY <1>3 DEF AccountIInv, AccountTypeOK
  <2> HIDE DEF e
  <2>4. /\ request' \in [Req -> RequestSet] /\ request'[r] = e
        /\ \A q \in Req : q # r => request'[q] = request[q]
    BY <1>0, <2>2, <2>3, RequestMoves DEF AccountIInv
  <2>5. request[r].op = "reset" => request[request[r].code].at = "form"
    <3>1. request[r].op = "reset" => account.code["reset"] = request[r].code /\ request[r].code \in Req
      BY <1>0, <1>3, KindFacts DEF CodeGood, KindOf
    <3>2. account.code["reset"] # 0 => request[account.code["reset"]].at = "form"
      BY KindFacts DEF AccountIInv, CodesStored
    <3>3. QED
      BY <3>1, <3>2, KindFacts
  <2>6. QED
    BY <1>0, <2>2, <2>4, <2>5, QuietStep
<1>4. QED
  BY <1>1, <1>2, <1>3 DEF LookAt

\* The type and the stored codes, when a request moves on without a code being found
\* good: its own code may have been stored by this step.
LEMMA StoredStep ==
  ASSUME AccountIInv, NEW r \in Req,
         request' \in [Req -> RequestSet],
         request'[r].op = request[r].op, request'[r].code = request[r].code,
         \A q \in Req : q # r => request'[q] = request[q],
         \A q \in Req : request[q].at = "form" => request'[q] = request[q],
         request'[r].at \in {"looked", "in"} => request[r].at \in {"looked", "in"},
         request'[r].at = "mailed" => request[r].op \in Mailing,
         \A k \in Kind : \/ account'.code[k] \in {account.code[k], 0}
                         \/ account'.code[k] = r /\ request'[r].at = "form"
  PROVE  CodesStored'
<1>1. \A k \in Kind : account'.code[k] # 0 => request'[account'.code[k]].at = "form"
  <2> SUFFICES ASSUME NEW k \in Kind, account'.code[k] # 0 PROVE request'[account'.code[k]].at = "form"
    OBVIOUS
  <2>1. CASE account'.code[k] = r /\ request'[r].at = "form"
    BY <2>1
  <2>2. CASE account'.code[k] = account.code[k]
    <3>1. account.code[k] \in Req /\ request[account.code[k]].at = "form"
      BY <2>2 DEF AccountIInv, AccountTypeOK, CodesStored, Code, Req
    <3>2. QED
      BY <2>2, <3>1
  <2>3. QED
    BY <2>1, <2>2
<1>2. \A q \in Req : request'[q].op = request[q].op /\ request'[q].code = request[q].code
  OBVIOUS
<1>3. \A q \in Req : request'[q].op \in Entering => request'[q].code \in Req
  BY <1>2 DEF AccountIInv, CodesStored
<1>4. \A q \in Req : request'[q].op = "reset" /\ request'[q].at \in {"looked", "in"} =>
        request'[request'[q].code].at = "form"
  <2> SUFFICES ASSUME NEW q \in Req, request'[q].op = "reset", request'[q].at \in {"looked", "in"}
               PROVE request'[request'[q].code].at = "form"
    OBVIOUS
  <2>1. request[q].op = "reset" /\ request[q].at \in {"looked", "in"} /\ request'[q].code = request[q].code
    BY <1>2
  <2>2. request[q].code \in Req /\ request[request[q].code].at = "form"
    BY <2>1, KindFacts DEF AccountIInv, CodesStored
  <2>3. QED
    BY <2>1, <2>2
<1>5. \A q \in Req : request'[q].at = "mailed" => request'[q].op \in Mailing
  BY <1>2 DEF AccountIInv, CodesStored
<1>6. QED
  BY <1>1, <1>3, <1>4, <1>5 DEF CodesStored

\* A mail goes out: it is the newest, and its request has still to store the code.
LEMMA MailCodeStep ==
  ASSUME AccountIInv, NEW r \in Req, MailCode(r)
  PROVE  AccountIInv'
<1>k. PICK k \in Kind : k = KindOf(request[r].op)
  BY KindFacts
<1>0. /\ request[r].at = "looked" /\ request[r].op \in Mailing /\ k \in Kind
      /\ account' = account /\ request[r].op \notin Entering
  BY KindFacts DEF MailCode
<1>1. CASE Fails(r) /\ UNCHANGED <<mails, crossed>>
  <2>1. PICK to \in {"form", "failed"} : Goes(r, to)
    BY <1>1 DEF Fails
  <2>2. /\ request' \in [Req -> RequestSet] /\ request'[r].at = to /\ request'[r].op = request[r].op
        /\ \A q \in Req : q # r => request'[q] = request[q]
    BY <1>0, <2>1, RequestGoes DEF AccountIInv
  <2>3. QED
    BY <1>0, <1>1, <2>1, <2>2, QuietStep, KindFacts
<1>2. CASE /\ mails' = [mails EXCEPT ![k] = Append(@, r)]
           /\ crossed' = [crossed EXCEPT ![k] = @ \/ \E q \in Req :
                 request[q].at = "mailed" /\ KindOf(request[q].op) = k]
           /\ Goes(r, "mailed")
  <2>1. /\ request' \in [Req -> RequestSet] /\ request'[r].at = "mailed" /\ request'[r].op = request[r].op
        /\ request'[r].code = request[r].code
        /\ \A q \in Req : q # r => request'[q] = request[q]
        /\ \A q \in Req : request[q].at = "form" => request'[q] = request[q]
    BY <1>0, <1>2, RequestGoes DEF AccountIInv
  <2>2. /\ mails \in [Kind -> Seq(Req)] /\ crossed \in [Kind -> BOOLEAN]
    BY DEF AccountIInv, AccountTypeOK
  <2>3. mails'[k] = Append(mails[k], r) /\ \A j \in Kind : j # k => mails'[j] = mails[j]
    BY <1>0, <1>2, <2>2
  <2>4. Append(mails[k], r) \in Seq(Req) /\ Append(mails[k], r)[Len(Append(mails[k], r))] = r
    <3>1. mails[k] \in Seq(Req)
      BY <1>0, <2>2
    <3>2. QED
      BY <3>1
  <2>5. mails' \in [Kind -> Seq(Req)]
    BY <1>0, <1>2, <2>2, <2>4
  <2>6. crossed' \in [Kind -> BOOLEAN] /\ \A j \in Kind : j # k => crossed'[j] = crossed[j]
    BY <1>0, <1>2, <2>2
  <2>7. crossed'[k] <=> crossed[k] \/ \E q \in Req : request[q].at = "mailed" /\ KindOf(request[q].op) = k
    BY <1>0, <1>2, <2>2
  <2>8. AccountTypeOK'
    BY <1>0, <2>1, <2>5, <2>6 DEF AccountIInv, AccountTypeOK, RequestSet
  <2>9. CodesStored'
    <3>1. \A j \in Kind : account'.code[j] \in {account.code[j], 0}
      BY <1>0
    <3>2. QED
      BY <1>0, <2>1, <3>1, StoredStep
  <2>10. \A j \in Kind : j # k => Mailed(j)' = Mailed(j) /\ Newest(j)' = Newest(j)
    <3> SUFFICES ASSUME NEW j \in Kind, j # k PROVE Mailed(j)' = Mailed(j) /\ Newest(j)' = Newest(j)
      OBVIOUS
    <3>1. Newest(j)' = Newest(j)
      BY <2>3 DEF Newest
    <3>2. KindOf(request[r].op) # j
      BY <1>k
    <3>3. \A q \in Req : (request'[q].at = "mailed" /\ KindOf(request'[q].op) = j)
                         <=> (request[q].at = "mailed" /\ KindOf(request[q].op) = j)
      BY <2>1, <3>2
    <3>4. QED
      BY <3>1, <3>3 DEF Mailed
  <2>11. r \in Mailed(k)' /\ Newest(k)' = r
    <3>1. r \in Mailed(k)'
      BY <1>k, <2>1 DEF Mailed
    <3>2. Newest(k)' = mails'[k][Len(mails'[k])]
      BY DEF Newest
    <3>3. QED
      BY <2>3, <2>4, <3>1, <3>2
  <2>12. ~crossed'[k] => Mailed(k)' = {r}
    <3>1. ~crossed'[k] => \A q \in Req : request[q].at = "mailed" => KindOf(request[q].op) # k
      BY <2>7
    <3>2. ~crossed'[k] => \A q \in Req : q # r => ~(request'[q].at = "mailed" /\ KindOf(request'[q].op) = k)
      BY <2>1, <3>1
    <3>3. QED
      BY <2>11, <3>2 DEF Mailed
  <2>13. \A j \in Kind : OneMailed(j)'
    <3>1. ASSUME NEW j \in Kind, j # k PROVE OneMailed(j)'
      <4>1. Mailed(j)' = Mailed(j) /\ Newest(j)' = Newest(j) /\ crossed'[j] = crossed[j]
        BY <2>6, <2>10, <3>1
      <4>2. QED
        BY <4>1 DEF AccountIInv, OneMailed
    <3>2. OneMailed(k)'
      <4>1. ASSUME ~crossed'[k] PROVE \A x \in Mailed(k)' : x = r
        BY <2>12, <4>1
      <4>2. QED
        BY <2>11, <4>1 DEF OneMailed
    <3>3. QED
      BY <1>0, <3>1, <3>2
  <2>14. \A q \in Req : SpentReset(q)' => SpentReset(q) /\ request'[q] = request[q]
    BY <2>1, KindFacts DEF SpentReset
  <2>15. NewestStored'
    <3>1. ASSUME NEW j \in Kind, Mailed(j)' = {} PROVE Mailed(j) = {} /\ Newest(j)' = Newest(j)
      <4>1. CASE j = k
        BY <2>11, <3>1, <4>1
      <4>2. CASE j # k
        BY <2>10, <3>1, <4>2
      <4>3. QED
        BY <4>1, <4>2
    <3>2. \A j \in Kind : ~crossed'[j] => ~crossed[j]
      BY <2>6, <2>7
    <3>3. "verify" \in Kind /\ "reset" \in Kind
      BY KindFacts
    <3>4. QED
      BY <1>0, <2>14, <3>1, <3>2, <3>3 DEF AccountIInv, NewestStored, Exists
  <2>16. QED
    BY <2>8, <2>9, <2>13, <2>15 DEF AccountIInv
<1>3. QED
  BY <1>k, <1>0, <1>1, <1>2 DEF MailCode

\* Other kinds than k: their requests, their mails and their row are as they were.
LEMMA OtherKinds ==
  ASSUME AccountIInv, NEW k \in Kind, NEW r \in Req, k = KindOf(request[r].op),
         request'[r].op = request[r].op,
         \A q \in Req : q # r => request'[q] = request[q],
         UNCHANGED mails
  PROVE  \A j \in Kind : j # k => Mailed(j)' = Mailed(j) /\ Newest(j)' = Newest(j)
<1> SUFFICES ASSUME NEW j \in Kind, j # k PROVE Mailed(j)' = Mailed(j) /\ Newest(j)' = Newest(j)
  OBVIOUS
<1>1. \A q \in Req : (request'[q].at = "mailed" /\ KindOf(request'[q].op) = j)
                     <=> (request[q].at = "mailed" /\ KindOf(request[q].op) = j)
  OBVIOUS
<1>2. QED
  BY <1>1 DEF Mailed, Newest

\* The row a mailing request leaves behind.
LEMMA WrittenFacts ==
  ASSUME AccountTypeOK, NEW r \in Req, NEW k \in Kind, k = KindOf(request[r].op)
  PROVE  /\ Written(r) \in [id : Code, verified : BOOLEAN,
                            code : [Kind -> Code], fresh : [Kind -> BOOLEAN]]
         /\ Written(r).code[k] = r
         /\ \A j \in Kind : j # k => Written(r).code[j] \in {account.code[j], 0}
         /\ request[r].op # "register" =>
               /\ Written(r).id = account.id /\ Written(r).verified = account.verified
               /\ \A j \in Kind : j # k => Written(r).code[j] = account.code[j]
         /\ request[r].op = "register" => \A j \in Kind : j # k => Written(r).code[j] = 0
<1> DEFINE R == [id : Code, verified : BOOLEAN, code : [Kind -> Code], fresh : [Kind -> BOOLEAN]]
<1>1. r \in Code /\ 0 \in Code
  BY KindFacts
<1>2. account \in R
  BY DEF AccountTypeOK
<1>3. NoAccount \in R /\ \A j \in Kind : NoAccount.code[j] = 0
  BY <1>1 DEF NoAccount
<1>4. CASE request[r].op = "register"
  <2>1. Written(r) = [NoAccount EXCEPT !.id = r, !.code[k] = r, !.fresh[k] = TRUE]
    BY <1>4 DEF Written
  <2> DEFINE c == [NoAccount.code EXCEPT ![k] = r]
             f == [NoAccount.fresh EXCEPT ![k] = TRUE]
  <2>2. c \in [Kind -> Code] /\ c[k] = r /\ \A j \in Kind : j # k => c[j] = 0
    BY <1>1, <1>3
  <2>3. f \in [Kind -> BOOLEAN]
    BY <1>3
  <2>4. Written(r) = [NoAccount EXCEPT !.id = r, !.code = c, !.fresh = f]
    BY <2>1, <1>3
  <2> HIDE DEF c, f
  <2>5. Written(r) \in R /\ Written(r).code = c
    BY <1>1, <1>3, <2>2, <2>3, <2>4
  <2>6. QED
    BY <1>4, <2>2, <2>5
<1>5. CASE request[r].op # "register"
  <2>1. Written(r) = [account EXCEPT !.code[k] = r, !.fresh[k] = TRUE]
    BY <1>5 DEF Written
  <2> DEFINE c == [account.code EXCEPT ![k] = r]
             f == [account.fresh EXCEPT ![k] = TRUE]
  <2>2. c \in [Kind -> Code] /\ c[k] = r /\ \A j \in Kind : j # k => c[j] = account.code[j]
    BY <1>1, <1>2
  <2>3. f \in [Kind -> BOOLEAN]
    BY <1>2
  <2>4. Written(r) = [account EXCEPT !.code = c, !.fresh = f]
    BY <2>1, <1>2
  <2> HIDE DEF c, f
  <2>5. Written(r) \in R /\ Written(r).code = c /\ Written(r).id = account.id
        /\ Written(r).verified = account.verified
    BY <1>2, <2>2, <2>3, <2>4
  <2>6. QED
    BY <1>5, <2>2, <2>5
<1>6. QED
  BY <1>4, <1>5

\* A code that was mailed is stored.
LEMMA StoreCodeStep ==
  ASSUME AccountIInv, NEW r \in Req, StoreCode(r)
  PROVE  AccountIInv'
<1>k. PICK k \in Kind : k = KindOf(request[r].op)
  BY KindFacts
<1>0. /\ request[r].at = "mailed" /\ request[r].op \in Mailing /\ mails' = mails
      /\ request[r].op # "reset" /\ r \in Mailed(k) /\ r # 0
  BY <1>k, KindFacts DEF StoreCode, AccountIInv, CodesStored, Mailed
<1>1. ASSUME account' = Written(r), Goes(r, "form"), UNCHANGED crossed
      PROVE  AccountIInv'
  <2>1. /\ request' \in [Req -> RequestSet] /\ request'[r].at = "form" /\ request'[r].op = request[r].op
        /\ request'[r].code = request[r].code
        /\ \A q \in Req : q # r => request'[q] = request[q]
        /\ \A q \in Req : request[q].at = "form" => request'[q] = request[q]
    BY <1>0, <1>1, RequestGoes DEF AccountIInv
  <2>2. /\ account' \in [id : Code, verified : BOOLEAN, code : [Kind -> Code], fresh : [Kind -> BOOLEAN]]
        /\ account'.code[k] = r
        /\ \A j \in Kind : j # k => account'.code[j] \in {account.code[j], 0}
        /\ request[r].op # "register" =>
              /\ account'.id = account.id /\ account'.verified = account.verified
              /\ \A j \in Kind : j # k => account'.code[j] = account.code[j]
        /\ request[r].op = "register" => \A j \in Kind : j # k => account'.code[j] = 0
    BY <1>k, <1>1, WrittenFacts DEF AccountIInv
  <2>3. AccountTypeOK'
    BY <1>0, <1>1, <2>1, <2>2 DEF AccountIInv, AccountTypeOK, RequestSet
  <2>4. CodesStored'
    <3>1. \A j \in Kind : \/ account'.code[j] \in {account.code[j], 0}
                          \/ account'.code[j] = r /\ request'[r].at = "form"
      BY <2>1, <2>2
    <3>2. QED
      BY <1>0, <2>1, <3>1, StoredStep
  <2>5. \A j \in Kind : j # k => Mailed(j)' = Mailed(j) /\ Newest(j)' = Newest(j)
    BY <1>k, <1>0, <2>1, OtherKinds
  <2>6. Mailed(k)' \subseteq Mailed(k) /\ Newest(k)' = Newest(k)
    BY <1>0, <2>1 DEF Mailed, Newest
  <2>7. \A j \in Kind : OneMailed(j)'
    <3> SUFFICES ASSUME NEW j \in Kind PROVE OneMailed(j)'
      OBVIOUS
    <3>1. Mailed(j)' \subseteq Mailed(j) /\ Newest(j)' = Newest(j)
      BY <2>5, <2>6
    <3>2. QED
      BY <1>1, <3>1 DEF AccountIInv, OneMailed
  <2>8. ~crossed[k] => Newest(k) = r
    BY <1>0 DEF AccountIInv, OneMailed
  <2>9. \A q \in Req : SpentReset(q)' => SpentReset(q) /\ request'[q] = request[q]
    BY <1>0, <2>1 DEF SpentReset
  <2>10. \A q \in Req : SpentReset(q) => request[q].code \in Req /\ request[q].code # r
    BY <1>0, KindFacts DEF AccountIInv, CodesStored, SpentReset
  <2>11. CASE k = "verify"
    <3>1. Mailed("reset")' = Mailed("reset") /\ Newest("reset")' = Newest("reset")
      BY <2>5, <2>11, KindFacts
    <3>2. account'.code["reset"] \in {account.code["reset"], 0}
      BY <2>2, <2>11, KindFacts
    <3>3. ~crossed'["verify"] => account'.code["verify"] = Newest("verify")'
      BY <1>1, <2>2, <2>6, <2>8, <2>11
    <3>4. \A q \in Req : ~crossed'["reset"] /\ SpentReset(q)' => request'[q].code # account'.code["reset"]
      BY <1>1, <2>9, <2>10, <3>2, KindFacts DEF AccountIInv, NewestStored
    <3>5. ~crossed'["reset"] /\ Mailed("reset")' = {} /\ account'.code["reset"] # 0 =>
              account'.code["reset"] = Newest("reset")'
      BY <1>1, <3>1, <3>2 DEF AccountIInv, NewestStored
    <3>6. ~crossed'["reset"] => \A p, q \in Req :
             SpentReset(p)' /\ SpentReset(q)' /\ request'[p].code = request'[q].code => p = q
      BY <1>1, <2>9 DEF AccountIInv, NewestStored
    <3>7. QED
      BY <2>3, <2>4, <2>7, <3>3, <3>4, <3>5, <3>6 DEF AccountIInv, NewestStored
  <2>12. CASE k = "reset"
    <3>0. request[r].op # "register"
      BY <1>k, <2>12, KindFacts
    <3>1. Mailed("verify")' = Mailed("verify") /\ Newest("verify")' = Newest("verify")
      BY <2>5, <2>12, KindFacts
    <3>2. /\ account'.code["verify"] = account.code["verify"]
          /\ account'.id = account.id /\ account'.verified = account.verified
      BY <2>2, <2>12, <3>0, KindFacts
    <3>3. ~crossed'["verify"] /\ Mailed("verify")' = {} /\ Exists' /\ ~account'.verified =>
             account'.code["verify"] = Newest("verify")'
      BY <1>1, <3>1, <3>2 DEF AccountIInv, NewestStored, Exists
    <3>4. \A q \in Req : SpentReset(q)' => request'[q].code # account'.code["reset"]
      BY <2>2, <2>9, <2>10, <2>12
    <3>5. ~crossed'["reset"] => account'.code["reset"] = Newest("reset")'
      BY <1>1, <2>2, <2>6, <2>8, <2>12
    <3>6. ~crossed'["reset"] => \A p, q \in Req :
             SpentReset(p)' /\ SpentReset(q)' /\ request'[p].code = request'[q].code => p = q
      BY <1>1, <2>9 DEF AccountIInv, NewestStored
    <3>7. QED
      BY <2>3, <2>4, <2>7, <3>3, <3>4, <3>5, <3>6 DEF AccountIInv, NewestStored
  <2>13. QED
    BY <2>11, <2>12, KindFacts
<1>2. ASSUME crossed' = [crossed EXCEPT ![k] = TRUE], Fails(r), UNCHANGED account
      PROVE  AccountIInv'
  <2>0. PICK to \in {"form", "failed"} : Goes(r, to)
    BY <1>2 DEF Fails
  <2>1. /\ request' \in [Req -> RequestSet] /\ request'[r].at = to /\ request'[r].op = request[r].op
        /\ request'[r].code = request[r].code
        /\ \A q \in Req : q # r => request'[q] = request[q]
        /\ \A q \in Req : request[q].at = "form" => request'[q] = request[q]
    BY <1>0, <2>0, RequestGoes DEF AccountIInv
  <2>2. crossed' \in [Kind -> BOOLEAN] /\ crossed'[k] /\ \A j \in Kind : j # k => crossed'[j] = crossed[j]
    BY <1>2 DEF AccountIInv, AccountTypeOK
  <2>3. AccountTypeOK'
    BY <1>0, <1>2, <2>1, <2>2 DEF AccountIInv, AccountTypeOK, RequestSet
  <2>4. CodesStored'
    <3>1. \A j \in Kind : account'.code[j] \in {account.code[j], 0}
      BY <1>2
    <3>2. QED
      BY <1>0, <2>1, <3>1, StoredStep
  <2>5. \A j \in Kind : j # k => Mailed(j)' = Mailed(j) /\ Newest(j)' = Newest(j)
    BY <1>k, <1>0, <2>1, OtherKinds
  <2>6. \A j \in Kind : OneMailed(j)'
    <3> SUFFICES ASSUME NEW j \in Kind PROVE OneMailed(j)'
      OBVIOUS
    <3>1. CASE j = k
      BY <2>2, <3>1 DEF OneMailed
    <3>2. CASE j # k
      <4>1. Mailed(j)' = Mailed(j) /\ Newest(j)' = Newest(j) /\ crossed'[j] = crossed[j]
        BY <2>2, <2>5, <3>2
      <4>2. QED
        BY <4>1 DEF AccountIInv, OneMailed
    <3>3. QED
      BY <3>1, <3>2
  <2>7. \A q \in Req : SpentReset(q)' => SpentReset(q) /\ request'[q] = request[q]
    BY <1>0, <2>1 DEF SpentReset
  <2>8. \A j \in Kind : ~crossed'[j] => ~crossed[j] /\ Mailed(j)' = Mailed(j) /\ Newest(j)' = Newest(j)
    BY <2>2, <2>5
  <2>9. NewestStored'
    BY <1>2, <2>7, <2>8, KindFacts DEF AccountIInv, NewestStored, Exists
  <2>10. QED
    BY <2>3, <2>4, <2>6, <2>9 DEF AccountIInv
<1>3. QED
  BY <1>k, <1>0, <1>1, <1>2 DEF StoreCode

\* A code lets its user in, and the row loses the code it has.
LEMMA UseCodeStep ==
  ASSUME AccountIInv, NEW r \in Req, UseCode(r)
  PROVE  AccountIInv'
<1>k. PICK k \in Kind : k = KindOf(request[r].op)
  BY KindFacts
<1>0. /\ request[r].at = "looked" /\ request[r].op \in Entering /\ request[r].op = k
      /\ mails' = mails /\ request[r].code \in Req /\ r \notin Mailed(k)
  BY <1>k, KindFacts DEF UseCode, AccountIInv, CodesStored, Mailed, KindOf
<1>1. ASSUME account.id = request[r].id,
             account' = [account EXCEPT !.verified = @ \/ k = "verify",
                                        !.code[k] = 0, !.fresh[k] = FALSE],
             crossed' = [crossed EXCEPT ![k] = @ \/ account.code[k] # request[r].code],
             Goes(r, "in")
      PROVE  AccountIInv'
  <2>1. /\ request' \in [Req -> RequestSet] /\ request'[r].at = "in" /\ request'[r].op = request[r].op
        /\ request'[r].code = request[r].code
        /\ \A q \in Req : q # r => request'[q] = request[q]
        /\ \A q \in Req : request[q].at = "form" => request'[q] = request[q]
    BY <1>0, <1>1, RequestGoes DEF AccountIInv
  <2>2. /\ account' \in [id : Code, verified : BOOLEAN, code : [Kind -> Code], fresh : [Kind -> BOOLEAN]]
        /\ account'.id = account.id
        /\ account'.code[k] = 0
        /\ \A j \in Kind : j # k => account'.code[j] = account.code[j]
        /\ k = "verify" => account'.verified
        /\ k # "verify" => account'.verified = account.verified
    <3> DEFINE v == (account.verified \/ k = "verify")
               c == [account.code EXCEPT ![k] = 0]
               f == [account.fresh EXCEPT ![k] = FALSE]
    <3>1. account \in [id : Code, verified : BOOLEAN, code : [Kind -> Code], fresh : [Kind -> BOOLEAN]]
      BY DEF AccountIInv, AccountTypeOK
    <3>2. v \in BOOLEAN /\ (k = "verify" => v) /\ (k # "verify" => v = account.verified)
      BY <3>1
    <3>3. c \in [Kind -> Code] /\ c[k] = 0 /\ \A j \in Kind : j # k => c[j] = account.code[j]
      BY <3>1, KindFacts
    <3>4. f \in [Kind -> BOOLEAN]
      BY <3>1
    <3>5. account' = [account EXCEPT !.verified = v, !.code = c, !.fresh = f]
      BY <1>1, <3>1
    <3> HIDE DEF v, c, f
    <3>6. QED
      BY <3>1, <3>2, <3>3, <3>4, <3>5
  <2>3. /\ crossed' \in [Kind -> BOOLEAN]
        /\ crossed'[k] <=> crossed[k] \/ account.code[k] # request[r].code
        /\ \A j \in Kind : j # k => crossed'[j] = crossed[j]
    BY <1>1 DEF AccountIInv, AccountTypeOK
  <2>4. AccountTypeOK'
    BY <1>0, <2>1, <2>2, <2>3 DEF AccountIInv, AccountTypeOK, RequestSet
  <2>5. CodesStored'
    <3>1. \A j \in Kind : account'.code[j] \in {account.code[j], 0}
      BY <2>2
    <3>2. QED
      BY <1>0, <2>1, <3>1, StoredStep
  <2>6. \A j \in Kind : Mailed(j)' = Mailed(j) /\ Newest(j)' = Newest(j)
    BY <1>0, <2>1 DEF Mailed, Newest
  <2>7. \A j \in Kind : ~crossed'[j] => ~crossed[j]
    BY <2>3
  <2>8. \A j \in Kind : OneMailed(j)'
    BY <2>6, <2>7 DEF AccountIInv, OneMailed
  <2>9. \A q \in Req : request'[q].code = request[q].code
                       /\ (SpentReset(q)' <=> SpentReset(q) \/ (q = r /\ k = "reset"))
    BY <1>0, <2>1 DEF SpentReset
  <2>10. CASE k = "verify"
    <3>1. ~crossed'["reset"] =>
             /\ Mailed("reset")' = {} /\ account'.code["reset"] # 0 =>
                   account'.code["reset"] = Newest("reset")'
             /\ \A q \in Req : SpentReset(q)' => request'[q].code # account'.code["reset"]
             /\ \A p, q \in Req : SpentReset(p)' /\ SpentReset(q)'
                                  /\ request'[p].code = request'[q].code => p = q
      <4>1. account'.code["reset"] = account.code["reset"] /\ "reset" \in Kind
        BY <2>2, <2>10, KindFacts
      <4>2. \A q \in Req : SpentReset(q)' <=> SpentReset(q)
        BY <2>9, <2>10
      <4>3. QED
        BY <2>6, <2>7, <2>9, <4>1, <4>2 DEF AccountIInv, NewestStored
    <3>2. account'.verified
      BY <2>2, <2>10
    <3>3. QED
      BY <2>4, <2>5, <2>8, <3>1, <3>2 DEF AccountIInv, NewestStored
  <2>11. CASE k = "reset"
    <3>1. ~crossed'["verify"] /\ Mailed("verify")' = {} /\ Exists' /\ ~account'.verified =>
             account'.code["verify"] = Newest("verify")'
      <4>1. /\ account'.code["verify"] = account.code["verify"] /\ "verify" \in Kind
            /\ account'.verified = account.verified
        BY <2>2, <2>11, KindFacts
      <4>2. QED
        BY <2>2, <2>6, <2>7, <4>1 DEF AccountIInv, NewestStored, Exists
    <3>2. \A q \in Req : SpentReset(q)' => request'[q].code # account'.code["reset"]
      <4>1. \A q \in Req : SpentReset(q)' => request[q].code \in Req
        BY <1>0, <2>9, KindFacts DEF AccountIInv, CodesStored, SpentReset
      <4>2. QED
        BY <2>2, <2>9, <2>11, <4>1, KindFacts
    <3>3. ~crossed'["reset"] => \A p, q \in Req : SpentReset(p)' /\ SpentReset(q)'
                                  /\ request'[p].code = request'[q].code => p = q
      <4> SUFFICES ASSUME ~crossed'["reset"], NEW p \in Req, NEW q \in Req, SpentReset(p)', SpentReset(q)',
                          request'[p].code = request'[q].code
                   PROVE  p = q
        OBVIOUS
      <4>1. ~crossed["reset"] /\ account.code["reset"] = request[r].code
        BY <2>3, <2>11
      <4>2. \A s \in Req : SpentReset(s) => request[s].code # request[r].code
        BY <4>1 DEF AccountIInv, NewestStored
      <4>3. \A s, t \in Req : SpentReset(s) /\ SpentReset(t) /\ request[s].code = request[t].code => s = t
        BY <4>1 DEF AccountIInv, NewestStored
      <4>4. QED
        BY <2>9, <4>2, <4>3
    <3>4. account'.code["reset"] = 0
      BY <2>2, <2>11
    <3>5. QED
      BY <2>4, <2>5, <2>8, <3>1, <3>2, <3>3, <3>4 DEF AccountIInv, NewestStored
  <2>12. QED
    BY <2>10, <2>11, KindFacts
<1>2. ASSUME Goes(r, "failed"), UNCHANGED <<account, crossed>>
      PROVE  AccountIInv'
  <2>1. /\ request' \in [Req -> RequestSet] /\ request'[r].at = "failed" /\ request'[r].op = request[r].op
        /\ request'[r].code = request[r].code
        /\ \A q \in Req : q # r => request'[q] = request[q]
    BY <1>0, <1>2, RequestGoes DEF AccountIInv
  <2>2. QED
    BY <1>0, <1>2, <2>1, QuietStep
<1>3. QED
  BY <1>k, <1>1, <1>2 DEF UseCode

\* The account is deleted, and with it both codes.
LEMMA RemoveAccountStep ==
  ASSUME AccountIInv, NEW r \in Req, RemoveAccount(r)
  PROVE  AccountIInv'
<1>0. /\ request[r].at = "looked" /\ request[r].op = "delete" /\ "delete" \notin Entering
      /\ UNCHANGED <<mails, crossed>>
  BY DEF RemoveAccount, Entering
<1>1. ASSUME account' = NoAccount, Goes(r, "done") PROVE AccountIInv'
  <2>1. /\ request' \in [Req -> RequestSet] /\ request'[r].at = "done" /\ request'[r].op = request[r].op
        /\ request'[r].code = request[r].code
        /\ \A q \in Req : q # r => request'[q] = request[q]
        /\ \A q \in Req : request[q].at = "form" => request'[q] = request[q]
    BY <1>0, <1>1, RequestGoes DEF AccountIInv
  <2>2. /\ account' \in [id : Code, verified : BOOLEAN, code : [Kind -> Code], fresh : [Kind -> BOOLEAN]]
        /\ account'.id = 0 /\ \A j \in Kind : account'.code[j] = 0
    BY <1>1, KindFacts DEF NoAccount
  <2>3. AccountTypeOK'
    BY <1>0, <2>1, <2>2 DEF AccountIInv, AccountTypeOK, RequestSet
  <2>4. CodesStored'
    <3>1. \A j \in Kind : account'.code[j] \in {account.code[j], 0}
      BY <2>2
    <3>2. QED
      BY <1>0, <2>1, <3>1, StoredStep
  <2>5. \A j \in Kind : Mailed(j)' = Mailed(j) /\ Newest(j)' = Newest(j)
    BY <1>0, <2>1 DEF Mailed, Newest
  <2>6. \A j \in Kind : OneMailed(j)'
    BY <1>0, <2>5 DEF AccountIInv, OneMailed
  <2>7. \A q \in Req : SpentReset(q)' => SpentReset(q) /\ request'[q] = request[q]
    BY <1>0, <2>1 DEF SpentReset
  <2>8. \A q \in Req : SpentReset(q)' => request'[q].code # 0
    BY <2>7, KindFacts DEF AccountIInv, CodesStored, SpentReset
  <2>9. NewestStored'
    BY <1>0, <2>2, <2>7, <2>8, KindFacts DEF AccountIInv, NewestStored, Exists
  <2>10. QED
    BY <2>3, <2>4, <2>6, <2>9 DEF AccountIInv
<1>2. ASSUME UNCHANGED account, Goes(r, "failed") PROVE AccountIInv'
  <2>1. /\ request' \in [Req -> RequestSet] /\ request'[r].at = "failed" /\ request'[r].op = request[r].op
        /\ \A q \in Req : q # r => request'[q] = request[q]
    BY <1>0, <1>2, RequestGoes DEF AccountIInv
  <2>2. QED
    BY <1>0, <1>2, <2>1, QuietStep
<1>3. QED
  BY <1>1, <1>2 DEF RemoveAccount

\* A code runs out of time: it stays in the row.
LEMMA ExpireCodeStep ==
  ASSUME AccountIInv, NEW k \in Kind, ExpireCode(k)
  PROVE  AccountIInv'
<1>1. /\ account' \in [id : Code, verified : BOOLEAN, code : [Kind -> Code], fresh : [Kind -> BOOLEAN]]
      /\ account'.id = account.id /\ account'.verified = account.verified /\ account'.code = account.code
  <2> DEFINE f == [account.fresh EXCEPT ![k] = FALSE]
  <2>1. account \in [id : Code, verified : BOOLEAN, code : [Kind -> Code], fresh : [Kind -> BOOLEAN]]
    BY DEF AccountIInv, AccountTypeOK
  <2>2. f \in [Kind -> BOOLEAN]
    BY <2>1
  <2>3. account' = [account EXCEPT !.fresh = f]
    BY <2>1 DEF ExpireCode
  <2> HIDE DEF f
  <2>4. QED
    BY <2>1, <2>2, <2>3
<1>2. UNCHANGED <<request, mails, crossed>>
  BY DEF ExpireCode
<1>3. QED
  BY <1>1, <1>2 DEF AccountIInv, AccountTypeOK, CodesStored, OneMailed, NewestStored, Mailed, Newest,
                    SpentReset, Exists

\* Every step keeps the strengthening.
LEMMA AccountStep ==
  AccountIInv /\ [AccountNext]_accountVars => AccountIInv'
<1> SUFFICES ASSUME AccountIInv, [AccountNext]_accountVars PROVE AccountIInv'
  OBVIOUS
<1>1. CASE UNCHANGED accountVars
  BY <1>1 DEF accountVars, AccountIInv, AccountTypeOK, CodesStored, OneMailed, NewestStored, Mailed,
              Newest, SpentReset, Exists
<1>2. QED
  BY <1>1, SubmitStep, LookAtStep, MailCodeStep, StoreCodeStep, UseCodeStep, RemoveAccountStep,
     ExpireCodeStep DEF AccountNext

\* The types, the codes that are stored and the newest mail are as AccountIInv says
\* in every reachable state, however the handlers of auth.controller.ts interleave.
THEOREM AccountInv == AccountSpec => []AccountIInv
<1>1. AccountInit => AccountIInv
  <2> SUFFICES ASSUME AccountInit PROVE AccountIInv
    OBVIOUS
  <2>1. AccountTypeOK
    BY KindFacts DEF AccountInit, AccountTypeOK, NoAccount, NewRequest
  <2>2. \A k \in Kind : account.code[k] = 0
    BY DEF AccountInit, NoAccount
  <2>3. \A r \in Req : request[r].op = "none" /\ request[r].at = "new"
    BY DEF AccountInit, NewRequest
  <2>4. CodesStored
    BY <2>2, <2>3, KindFacts DEF CodesStored
  <2>5. \A k \in Kind : OneMailed(k)
    BY <2>3 DEF OneMailed, Mailed
  <2>6. NewestStored
    BY <2>2, <2>3, KindFacts DEF NewestStored, SpentReset, Exists, AccountInit, NoAccount
  <2>7. QED
    BY <2>1, <2>4, <2>5, <2>6 DEF AccountIInv
<1>2. QED
  BY <1>1, AccountStep, PTL DEF AccountSpec

\* Codes keep both promises: once nothing is under way the newest mail's code is the
\* one that works, and no reset code lets two requests in, except after an overlap or
\* a write that failed behind its mail.
THEOREM NewestCodeIsStored == AccountSpec => []CodesSound
<1>1. AccountIInv => CodesSound
  <2> SUFFICES ASSUME AccountIInv PROVE CodesSound
    OBVIOUS
  <2>1. NewestCodeWorks
    <3> SUFFICES ASSUME Settled, Exists
                 PROVE  /\ ~account.verified /\ ~crossed["verify"] =>
                              account.code["verify"] = Newest("verify")
                        /\ account.code["reset"] # 0 /\ ~crossed["reset"] =>
                              /\ account.code["reset"] = Newest("reset")
                              /\ SpentBy("reset", Newest("reset")) = {}
      BY DEF NewestCodeWorks
    <3>1. \A k \in Kind : Mailed(k) = {}
      BY DEF Settled, Mailed
    <3>2. "verify" \in Kind /\ "reset" \in Kind
      BY KindFacts
    <3>3. account.code["reset"] # 0 /\ ~crossed["reset"] => account.code["reset"] = Newest("reset")
      BY <3>1, <3>2 DEF AccountIInv, NewestStored
    <3>4. ~crossed["reset"] => SpentBy("reset", account.code["reset"]) = {}
      BY DEF AccountIInv, NewestStored, SpentBy, SpentReset
    <3>5. QED
      BY <3>1, <3>2, <3>3, <3>4 DEF AccountIInv, NewestStored
  <2>2. CodeSpentOnce
    BY DEF AccountIInv, NewestStored, SpentReset, CodeSpentOnce
  <2>3. QED
    BY <2>1, <2>2 DEF CodesSound
<1>2. QED
  BY <1>1, AccountInv, PTL

-----------------------------------------------------------------------------
(* Rosters of a group (Groups).                                              *)

\* A request under way was made by somebody, about somebody.
RequestsNamed ==
    \A c \in Changing : change[c].at \notin {"new", "over"} =>
        change[c].by \in User /\ change[c].who \in User

\* What the page makes of its copy when the answer has come.
Changed(q) == [q.seen EXCEPT ![q.who] = IF @ = "none" THEN @ ELSE NewRole(q.op, @)]

\* Until the write the copy a request was made on is the stored one and is right;
\* when the request is answered the answer, or the copy with the change, is.
RequestRight(q, stored, rows) ==
    /\ q.at \in {"sent", "allowed", "written"} => q.seen # NoRoster
    /\ q.at \in {"sent", "allowed"} => q.seen = rows /\ stored = rows
    /\ q.at = "written" => q.op = "add"
    /\ q.at = "answered" =>
          /\ q.op = "add" => q.seen = rows
          /\ q.op # "add" /\ (q.op # "remove" \/ q.who # q.by) => Changed(q) = rows

\* A page that has not put an older copy over a newer one shows what it has stored.
ShownStored(u) == ~undone[u] => shown[u] \in {NoRoster, disk[u]}

\* If it was told no newer roster either, it makes one request at a time, and will
\* be right when the answer has come.
PageCurrent(u) ==
    ~diverged[u] /\ ~undone[u] =>
        /\ Pending(u) = {} /\ Fetching(u) = {} /\ disk[u] # NoRoster => disk[u] = Listed
        /\ \A c \in Pending(u) :
            Pending(u) = {c} /\ disk[u] # NoRoster /\ RequestRight(change[c], disk[u], Listed)

PagesOK == \A u \in Followed : ShownStored(u) /\ PageCurrent(u)

GroupIInv == GroupTypeOK /\ RequestsNamed /\ PagesOK

ChangeSet == [at : {"new", "sent", "allowed", "written", "answered", "over"},
              op : ChangeOp, by : User \cup {""}, who : User \cup {""}, seen : RosterOf]
FetchSet == [at : {"idle", "asked", "fetched"}, got : RosterOf]

\* The values the variables start with, and the server's list, are of their types.
LEMMA GroupTypes ==
  /\ NoRoster \in RosterOf /\ NoFetch \in FetchSet /\ NoFetch.at = "idle"
  /\ Blank("new") \in ChangeSet /\ Blank("over") \in ChangeSet
  /\ Blank("over").at = "over" /\ Blank("new").at = "new"
  /\ Listed \in RosterOf
BY DEF NoRoster, RosterOf, Roles, In, Blank, ChangeSet, ChangeOp, Listed, NoFetch, FetchSet

\* A change of role makes a role, or removes the member.
LEMMA NewRoleTypes ==
  ASSUME NEW op \in ChangeOp
  PROVE  /\ \A r \in Roles \cup {"gone"} : NewRole(op, r) \in Roles \cup {"gone"}
         /\ \A r \in Roles : NewRole(op, r) \in Roles
BY DEF NewRole, Roles, ChangeOp

\* A step that touches neither the rows nor what a page has stored or asked for
\* leaves the page as right as it was.
LEMMA PageFrame ==
  ASSUME NEW u \in Followed, ShownStored(u), PageCurrent(u),
         ~undone'[u] => ~undone[u] /\ shown'[u] \in {NoRoster, shown[u], disk[u]},
         ~diverged'[u] /\ ~undone'[u] => ~diverged[u],
         Listed' = Listed, disk'[u] = disk[u],
         Fetching(u)' = {} => Fetching(u) = {},
         Pending(u)' = Pending(u), \A c \in Pending(u) : change'[c] = change[c]
  PROVE  ShownStored(u)' /\ PageCurrent(u)'
<1>1. ShownStored(u)'
  BY DEF ShownStored
<1>2. PageCurrent(u)'
  <2> SUFFICES ASSUME ~diverged'[u], ~undone'[u] PROVE PageCurrent(u)!2'
    BY DEF PageCurrent
  <2>1. PageCurrent(u)!2
    BY DEF PageCurrent
  <2>2. Pending(u)' = {} /\ Fetching(u)' = {} /\ disk'[u] # NoRoster => disk'[u] = Listed'
    BY <2>1
  <2>3. ASSUME NEW c \in Pending(u)'
        PROVE  Pending(u)' = {c} /\ disk'[u] # NoRoster /\ RequestRight(change'[c], disk'[u], Listed')
    <3>1. c \in Pending(u) /\ change'[c] = change[c]
      BY <2>3
    <3>2. Pending(u) = {c} /\ disk[u] # NoRoster /\ RequestRight(change[c], disk[u], Listed)
      BY <2>1, <3>1
    <3>3. QED
      BY <3>1, <3>2
  <2>4. QED
    BY <2>2, <2>3
<1>3. QED
  BY <1>1, <1>2

\* A page that is told no newer roster, or puts an older copy over a newer one, need
\* only show what it has stored.
LEMMA PageBehind ==
  ASSUME NEW u \in Followed, diverged'[u], undone'[u] \/ shown'[u] \in {NoRoster, disk'[u]}
  PROVE  ShownStored(u)' /\ PageCurrent(u)'
BY DEF ShownStored, PageCurrent

\* A request moves on.
LEMMA AtFacts ==
  ASSUME GroupTypeOK, RequestsNamed, NEW c \in Changing, NEW here, here \notin {"new", "over"},
         NEW there \in {"allowed", "written", "answered", "over"}, At(c, here, there)
  PROVE  /\ change[c].at = here /\ change[c] \in ChangeSet /\ change[c].by \in User /\ change[c].who \in User
         /\ change' \in [Changing -> ChangeSet] /\ RequestsNamed'
         /\ \A d \in Changing \ {c} : change'[d] = change[d]
         /\ change'[c].at = there
         /\ there # "over" => /\ change'[c].op = change[c].op /\ change'[c].by = change[c].by
                              /\ change'[c].who = change[c].who /\ change'[c].seen = change[c].seen
         /\ \A u \in User : u # change[c].by => Pending(u)' = Pending(u) /\ c \notin Pending(u)
         /\ \A u \in User : u = change[c].by =>
              c \in Pending(u) /\ Pending(u)' = IF there = "over" THEN Pending(u) \ {c} ELSE Pending(u)
<1> DEFINE new == IF there = "over" THEN Blank("over") ELSE [change[c] EXCEPT !.at = there]
<1>1. change[c].at = here /\ change' = [change EXCEPT ![c] = new]
  BY DEF At
<1>2. change \in [Changing -> ChangeSet]
  BY DEF GroupTypeOK, ChangeSet
<1>3. change[c] \in ChangeSet /\ change[c].by \in User /\ change[c].who \in User
  BY <1>1, <1>2 DEF RequestsNamed
<1>4. /\ new \in ChangeSet /\ new.at = there
      /\ there # "over" => /\ new.op = change[c].op /\ new.by = change[c].by
                           /\ new.who = change[c].who /\ new.seen = change[c].seen
  <2>1. CASE there = "over"
    BY <2>1, GroupTypes
  <2>2. CASE there # "over"
    BY <1>3, <2>2 DEF ChangeSet
  <2>3. QED
    BY <2>1, <2>2
<1> HIDE DEF new
<1>5. /\ change' \in [Changing -> ChangeSet] /\ change'[c] = new
      /\ \A d \in Changing \ {c} : change'[d] = change[d]
  BY <1>1, <1>2, <1>4
<1>6. RequestsNamed'
  BY <1>3, <1>4, <1>5 DEF RequestsNamed
<1>7. \A u \in User : u # change[c].by => Pending(u)' = Pending(u) /\ c \notin Pending(u)
  BY <1>1, <1>4, <1>5 DEF Pending
<1>8. ASSUME NEW u \in User, u = change[c].by
      PROVE  c \in Pending(u) /\ Pending(u)' = IF there = "over" THEN Pending(u) \ {c} ELSE Pending(u)
  <2>1. c \in Pending(u)
    BY <1>1, <1>8 DEF Pending
  <2>2. \A d \in Changing : d # c => (d \in Pending(u)' <=> d \in Pending(u))
    BY <1>5 DEF Pending
  <2>3. c \in Pending(u)' <=> there # "over"
    BY <1>4, <1>5, <1>8 DEF Pending
  <2>4. Pending(u) \subseteq Changing /\ Pending(u)' \subseteq Changing
    BY DEF Pending
  <2>5. QED
    BY <2>1, <2>2, <2>3, <2>4
<1>9. QED
  BY <1>1, <1>3, <1>4, <1>5, <1>6, <1>7, <1>8

\* The copies of a page, which some steps leave alone.
GroupTypesOK ==
    /\ role \in [User -> Roles \cup {"gone"}]
    /\ disk \in [Followed -> RosterOf] /\ cache \in [Followed -> RosterOf]
    /\ shown \in [Followed -> RosterOf] /\ held \in [Followed -> RosterOf]
    /\ mail \subseteq Followed
    /\ change \in [Changing -> ChangeSet]
    /\ refresh \in [Followed -> [Fetch -> FetchSet]]
    /\ diverged \in [Followed -> BOOLEAN] /\ undone \in [Followed -> BOOLEAN]

LEMMA GroupTypesSame == GroupTypesOK <=> GroupTypeOK
BY DEF GroupTypesOK, GroupTypeOK, ChangeSet, FetchSet

\* A page's list of the rosters it fetches depends on its fetches alone.
LEMMA FetchingSame ==
  ASSUME NEW u \in Followed, refresh'[u] = refresh[u]
  PROVE  Fetching(u)' = Fetching(u)
BY DEF Fetching

\* The group is made.
LEMMA CreateStep ==
  ASSUME GroupIInv, NEW u \in User, NEW others \in SUBSET User, CreateGroup(u, others)
  PROVE  GroupIInv'
<1> DEFINE rows == [v \in User |-> IF v = u THEN "ADMIN" ELSE IF v \in others THEN "MEMBER" ELSE "none"]
<1>0. GroupTypesOK
  BY GroupTypesSame DEF GroupIInv
<1>1. rows \in RosterOf /\ rows \in [User -> Roles \cup {"gone"}]
  BY DEF RosterOf, Roles
<1>2. Listed' = rows
  BY DEF CreateGroup, Listed, In
<1>3. /\ role' = rows
      /\ \A v \in Followed : disk[v] = NoRoster
      /\ disk' = [v \in Followed |-> IF v = u THEN rows ELSE disk[v]]
      /\ cache' = [v \in Followed |-> IF v = u THEN rows ELSE cache[v]]
      /\ shown' = [v \in Followed |-> IF v = u THEN rows ELSE shown[v]]
      /\ UNCHANGED <<held, mail, change, refresh, diverged, undone>>
  BY DEF CreateGroup
<1> HIDE DEF rows
<1>4. GroupTypeOK'
  <2>1. disk' \in [Followed -> RosterOf] /\ cache' \in [Followed -> RosterOf] /\ shown' \in [Followed -> RosterOf]
    BY <1>0, <1>1, <1>3 DEF GroupTypesOK
  <2>2. GroupTypesOK'
    BY <1>0, <1>1, <1>3, <2>1 DEF GroupTypesOK
  <2>3. QED
    BY <2>2, GroupTypesSame, PTL
<1>5. RequestsNamed'
  BY <1>3 DEF GroupIInv, RequestsNamed
<1>6. ASSUME NEW v \in Followed PROVE ShownStored(v)' /\ PageCurrent(v)'
  <2>1. ShownStored(v) /\ PageCurrent(v) /\ disk[v] = NoRoster
    BY <1>3 DEF GroupIInv, PagesOK
  <2>2. ShownStored(v)'
    BY <1>3, <2>1 DEF ShownStored
  <2>3. ~diverged[v] /\ ~undone[v] => Pending(v) = {}
    BY <2>1 DEF PageCurrent
  <2>4. Pending(v)' = Pending(v)
    BY <1>3 DEF Pending
  <2>5. disk'[v] # NoRoster => disk'[v] = Listed'
    BY <1>2, <1>3, <2>1
  <2>6. PageCurrent(v)'
    BY <1>3, <2>3, <2>4, <2>5 DEF PageCurrent
  <2>7. QED
    BY <2>2, <2>6
<1>7. QED
  BY <1>4, <1>5, <1>6 DEF GroupIInv, PagesOK

\* A button is tapped.
LEMMA AskStep ==
  ASSUME GroupIInv, NEW c \in Changing, NEW u \in User, NEW v \in User, NEW op \in ChangeOp,
         AskElsewhere(c, u, op, v) \/ (u \in Followed /\ AskChange(c, u, op, v))
  PROVE  GroupIInv'
<1>0. GroupTypesOK /\ RequestsNamed
  BY GroupTypesSame DEF GroupIInv
<1>1. PICK seen \in RosterOf :
        /\ change' = [change EXCEPT ![c] = [at |-> "sent", op |-> op, by |-> u, who |-> v, seen |-> seen]]
        /\ change[c].at = "new"
        /\ UNCHANGED <<role, disk, cache, shown, held, mail, refresh, undone>>
        /\ u \notin Followed => diverged' = diverged
        /\ u \in Followed => /\ seen = shown[u] /\ Offered(u, op, v)
                             /\ diverged' = [diverged EXCEPT ![u] = diverged[u] \/ Pending(u) # {} \/ Fetching(u) # {}]
  <2>1. CASE AskElsewhere(c, u, op, v)
    BY <2>1, GroupTypes DEF AskElsewhere, NextChange, copyVars
  <2>2. CASE u \in Followed /\ AskChange(c, u, op, v)
    <3>1. shown[u] \in RosterOf
      BY <1>0, <2>2 DEF GroupTypesOK
    <3>2. QED
      BY <2>2, <3>1 DEF AskChange, NextChange, copyVars
  <2>3. QED
    BY <2>1, <2>2
<1> DEFINE q == [at |-> "sent", op |-> op, by |-> u, who |-> v, seen |-> seen]
<1>2. /\ q \in ChangeSet /\ q.at = "sent" /\ q.by = u /\ q.who = v /\ q.op = op /\ q.seen = seen
      /\ change' = [change EXCEPT ![c] = q]
  BY <1>1 DEF ChangeSet
<1> HIDE DEF q
<1>3. /\ change' \in [Changing -> ChangeSet] /\ change'[c] = q
      /\ \A d \in Changing \ {c} : change'[d] = change[d]
  BY <1>0, <1>2 DEF GroupTypesOK
<1>4. diverged' \in [Followed -> BOOLEAN]
  BY <1>0, <1>1 DEF GroupTypesOK
<1>5. GroupTypeOK'
  <2>1. GroupTypesOK'
    BY <1>0, <1>1, <1>3, <1>4 DEF GroupTypesOK
  <2>2. QED
    BY <2>1, GroupTypesSame, PTL
<1>6. RequestsNamed'
  BY <1>0, <1>2, <1>3 DEF RequestsNamed
<1>7. Listed' = Listed
  BY <1>1 DEF Listed, In
<1>8. ASSUME NEW w \in Followed PROVE ShownStored(w)' /\ PageCurrent(w)'
  <2>0. ShownStored(w) /\ PageCurrent(w) /\ Fetching(w)' = Fetching(w) /\ Pending(w) \subseteq Changing
    BY <1>1, FetchingSame DEF GroupIInv, PagesOK, Pending
  <2>1. CASE w # u
    <3>1. Pending(w)' = Pending(w) /\ c \notin Pending(w)
      BY <1>1, <1>2, <1>3, <2>1 DEF Pending
    <3>2. diverged'[w] = diverged[w]
      BY <1>0, <1>1, <2>1 DEF GroupTypesOK
    <3>3. QED
      BY <1>1, <1>3, <1>7, <2>0, <3>1, <3>2, PageFrame
  <2>2. CASE w = u
    <3>1. ShownStored(u)'
      BY <1>1, <2>0, <2>2 DEF ShownStored
    <3>2. ASSUME ~diverged'[u], ~undone'[u] PROVE PageCurrent(u)!2'
      <4>1. ~diverged[u] /\ Pending(u) = {} /\ Fetching(u) = {} /\ ~undone[u]
        BY <1>0, <1>1, <2>2, <3>2 DEF GroupTypesOK
      <4>2. shown[u] # NoRoster
        BY <1>1, <2>2 DEF Offered, In, NoRoster
      <4>3. shown[u] = disk[u] /\ disk[u] = Listed
        BY <2>0, <2>2, <4>1, <4>2 DEF ShownStored, PageCurrent
      <4>4. Pending(u)' = {c}
        BY <1>2, <1>3, <4>1 DEF Pending
      <4>5. RequestRight(change'[c], disk'[u], Listed')
        BY <1>1, <1>2, <1>3, <1>7, <2>2, <4>2, <4>3 DEF RequestRight
      <4>6. QED
        BY <1>1, <4>2, <4>3, <4>4, <4>5
    <3>3. QED
      BY <2>2, <3>1, <3>2 DEF PageCurrent
  <2>3. QED
    BY <2>1, <2>2
<1>9. QED
  BY <1>5, <1>6, <1>8 DEF GroupIInv, PagesOK

\* A request is checked, or it or its answer is lost, or its answer is applied: the
\* rows stay.
LEMMA RosterAnswerStep ==
  ASSUME GroupIInv, NEW c \in Changing, CheckAdmin(c) \/ LoseAnswer(c) \/ ApplyAnswer(c)
  PROVE  GroupIInv'
<1> DEFINE q == change[c]
           leaves == q.op = "remove" /\ q.who = q.by
           got == IF q.op = "add" THEN q.seen ELSE Changed(q)
<1>0. GroupTypesOK /\ RequestsNamed /\ GroupTypeOK
  BY GroupTypesSame DEF GroupIInv
<1>1. PICK here \in {"sent", "written", "answered"}, there \in {"allowed", "over"} : At(c, here, there)
  BY DEF CheckAdmin, LoseAnswer, ApplyAnswer
<1>2. /\ q.at = here /\ q \in ChangeSet /\ q.by \in User /\ q.who \in User
      /\ change' \in [Changing -> ChangeSet] /\ RequestsNamed'
      /\ \A d \in Changing \ {c} : change'[d] = change[d]
      /\ change'[c].at = there
      /\ there # "over" => /\ change'[c].op = q.op /\ change'[c].by = q.by
                           /\ change'[c].who = q.who /\ change'[c].seen = q.seen
      /\ \A u \in User : u # q.by => Pending(u)' = Pending(u) /\ c \notin Pending(u)
      /\ \A u \in User : u = q.by =>
           c \in Pending(u) /\ Pending(u)' = IF there = "over" THEN Pending(u) \ {c} ELSE Pending(u)
  BY <1>0, <1>1, AtFacts
<1>3. /\ UNCHANGED <<role, cache, held, mail, refresh, undone>>
      /\ disk' = disk \/ disk' = [disk EXCEPT ![q.by] = got]
      /\ shown' = shown \/ shown' = [shown EXCEPT ![q.by] = IF leaves THEN NoRoster ELSE got]
      /\ diverged' = diverged \/ \E b \in BOOLEAN : diverged' = [diverged EXCEPT ![q.by] = diverged[q.by] \/ b]
  <2>1. CASE CheckAdmin(c)
    BY <2>1 DEF CheckAdmin, copyVars
  <2>2. CASE LoseAnswer(c)
    <3>1. diverged' = [diverged EXCEPT ![q.by] = diverged[q.by] \/ q.at # "sent"]
      BY <2>2 DEF LoseAnswer
    <3>2. (q.at # "sent") \in BOOLEAN
      OBVIOUS
    <3>3. UNCHANGED <<role, disk, cache, shown, held, mail, refresh, undone>>
      BY <2>2 DEF LoseAnswer, copyVars
    <3>4. QED
      BY <3>1, <3>2, <3>3
  <2>3. CASE ApplyAnswer(c)
    <3>1. Apply(q, got) /\ UNCHANGED <<role, cache, held, mail, refresh, undone>>
      BY <2>3 DEF ApplyAnswer, Changed
    <3>2. leaves \in BOOLEAN
      OBVIOUS
    <3> HIDE DEF got
    <3>3. /\ shown' = [shown EXCEPT ![q.by] = IF leaves THEN NoRoster ELSE got]
          /\ disk' = IF leaves THEN disk ELSE [disk EXCEPT ![q.by] = got]
          /\ diverged' = [diverged EXCEPT ![q.by] = diverged[q.by] \/ leaves]
      BY <3>1 DEF Apply
    <3>4. QED
      BY <3>1, <3>2, <3>3
  <2>4. QED
    BY <2>1, <2>2, <2>3
<1>4. got \in RosterOf
  BY <1>2, NewRoleTypes DEF ChangeSet, Changed, RosterOf
<1>5. GroupTypeOK'
  <2> HIDE DEF got, leaves, q
  <2>0. (IF leaves THEN NoRoster ELSE got) \in RosterOf
    BY <1>4, GroupTypes
  <2>1. disk' \in [Followed -> RosterOf] /\ shown' \in [Followed -> RosterOf]
    <3>1. disk \in [Followed -> RosterOf] /\ shown \in [Followed -> RosterOf]
      BY <1>0 DEF GroupTypesOK
    <3>2. disk' \in [Followed -> RosterOf]
      BY <1>3, <1>4, <3>1
    <3>3. shown' \in [Followed -> RosterOf]
      BY <1>3, <2>0, <3>1
    <3>4. QED
      BY <3>2, <3>3
  <2>2. diverged' \in [Followed -> BOOLEAN]
    BY <1>0, <1>3 DEF GroupTypesOK
  <2>3. GroupTypesOK'
    BY <1>0, <1>2, <1>3, <2>1, <2>2 DEF GroupTypesOK
  <2>4. QED
    BY <2>3, GroupTypesSame, PTL
<1>6. Listed' = Listed
  BY <1>3 DEF Listed, In
<1>7. ASSUME NEW w \in Followed, w # q.by PROVE ShownStored(w)' /\ PageCurrent(w)'
  <2>1. /\ ShownStored(w) /\ PageCurrent(w) /\ Fetching(w)' = Fetching(w) /\ Pending(w) \subseteq Changing
        /\ w \in User
    BY <1>3, FetchingSame, GroupAssumption DEF GroupIInv, PagesOK, Pending
  <2>2. disk'[w] = disk[w] /\ shown'[w] = shown[w] /\ diverged'[w] = diverged[w]
    BY <1>0, <1>3, <1>7 DEF GroupTypesOK
  <2>3. QED
    BY <1>2, <1>3, <1>6, <1>7, <2>1, <2>2, PageFrame
<1>8. ASSUME NEW u \in Followed, u = q.by PROVE ShownStored(u)' /\ PageCurrent(u)'
  <2>0. ShownStored(u) /\ PageCurrent(u) /\ Fetching(u)' = Fetching(u) /\ u \in User
    BY <1>3, FetchingSame, GroupAssumption DEF GroupIInv, PagesOK
  <2>1. c \in Pending(u) /\ Pending(u)' = IF there = "over" THEN Pending(u) \ {c} ELSE Pending(u)
    BY <1>2, <1>8, <2>0
  <2>2. ~diverged[u] /\ ~undone[u] => /\ Pending(u) = {c} /\ disk[u] # NoRoster
                                      /\ RequestRight(q, disk[u], Listed)
    BY <2>0, <2>1 DEF PageCurrent
  <2>3. CASE CheckAdmin(c) \/ LoseAnswer(c)
    <3>1. UNCHANGED <<disk, shown>> /\ (~diverged'[u] => ~diverged[u] /\ q.at = "sent")
      <4>1. CASE CheckAdmin(c)
        BY <4>1 DEF CheckAdmin, copyVars
      <4>2. CASE LoseAnswer(c)
        BY <1>0, <1>8, <4>2 DEF LoseAnswer, copyVars, GroupTypesOK
      <4>3. QED
        BY <2>3, <4>1, <4>2
    <3>2. ShownStored(u)'
      BY <1>3, <2>0, <3>1 DEF ShownStored
    <3>3. ASSUME ~diverged'[u], ~undone'[u] PROVE PageCurrent(u)!2'
      <4>1. /\ Pending(u) = {c} /\ disk[u] # NoRoster /\ disk[u] = Listed /\ q.seen # NoRoster /\ q.seen = Listed
        BY <1>3, <2>2, <3>1, <3>3 DEF RequestRight
      <4>2. CASE there = "over"
        BY <1>6, <2>1, <3>1, <4>1, <4>2
      <4>3. CASE there = "allowed"
        <5>1. RequestRight(change'[c], disk'[u], Listed')
          BY <1>2, <1>6, <3>1, <4>1, <4>3 DEF RequestRight
        <5>2. QED
          BY <2>1, <3>1, <4>1, <4>3, <5>1
      <4>4. QED
        BY <4>2, <4>3
    <3>4. QED
      BY <3>2, <3>3 DEF PageCurrent
  <2>4. CASE ApplyAnswer(c)
    <3>1. q.at = "answered" /\ change'[c].at = "over"
      BY <2>4, <1>0, AtFacts DEF ApplyAnswer
    <3>2. Apply(q, got)
      BY <2>4 DEF ApplyAnswer, Changed
    <3> HIDE DEF got
    <3>3. /\ shown'[u] = (IF leaves THEN NoRoster ELSE got)
          /\ ~leaves => disk'[u] = got
          /\ leaves => diverged'[u]
          /\ ~diverged'[u] => ~diverged[u] /\ ~leaves
      BY <1>0, <1>8, <3>2 DEF Apply, GroupTypesOK
    <3>4. ShownStored(u)'
      BY <3>3 DEF ShownStored
    <3>5. ASSUME ~diverged'[u], ~undone'[u] PROVE PageCurrent(u)!2'
      <4>1. ~diverged[u] /\ ~undone[u] /\ ~leaves
        BY <1>3, <3>3, <3>5
      <4>2. got = Listed /\ Pending(u) = {c}
        BY <2>2, <3>1, <4>1 DEF RequestRight, got
      <4>3. Pending(u)' = {}
        BY <1>2, <2>1, <3>1, <4>2
      <4>4. QED
        BY <1>6, <3>3, <4>1, <4>2, <4>3
    <3>6. QED
      BY <3>4, <3>5 DEF PageCurrent
  <2>5. QED
    BY <2>3, <2>4
<1>9. PagesOK'
  BY <1>7, <1>8 DEF PagesOK
<1>10. QED
  BY <1>2, <1>5, <1>9 DEF GroupIInv

\* The rows are written.
LEMMA WriteStep ==
  ASSUME GroupIInv, NEW c \in Changing, WriteChange(c)
  PROVE  GroupIInv'
<1> DEFINE q == change[c]
           orphan == q.seen = NoRoster
           missing == \/ q.op \in {"promote", "demote"} /\ q.who \notin In(role)
                      \/ q.op = "add" /\ role[q.who] = "gone"
<1>0. GroupTypesOK /\ RequestsNamed /\ GroupTypeOK
  BY GroupTypesSame DEF GroupIInv
<1>1. PICK there \in {"over", "written", "answered"} :
         /\ At(c, "allowed", there)
         /\ \/ missing /\ there = "over" /\ UNCHANGED <<role, diverged>>
            \/ /\ ~missing /\ there = (IF orphan THEN "over" ELSE IF q.op = "add" THEN "written" ELSE "answered")
               /\ role' = [role EXCEPT ![q.who] = NewRole(q.op, role[q.who])]
               /\ diverged' = IF role' = role /\ ~orphan THEN diverged ELSE Outdated(q.by, orphan)
  BY DEF WriteChange
<1>2. UNCHANGED <<disk, cache, shown, held, mail, refresh, undone>>
  BY DEF WriteChange, copyVars
<1>3. /\ q.at = "allowed" /\ q \in ChangeSet /\ q.by \in User /\ q.who \in User
      /\ change' \in [Changing -> ChangeSet] /\ RequestsNamed'
      /\ \A d \in Changing \ {c} : change'[d] = change[d]
      /\ change'[c].at = there
      /\ there # "over" => /\ change'[c].op = q.op /\ change'[c].by = q.by
                           /\ change'[c].who = q.who /\ change'[c].seen = q.seen
      /\ \A u \in User : u # q.by => Pending(u)' = Pending(u) /\ c \notin Pending(u)
      /\ \A u \in User : u = q.by =>
           c \in Pending(u) /\ Pending(u)' = IF there = "over" THEN Pending(u) \ {c} ELSE Pending(u)
  BY <1>0, <1>1, AtFacts
<1>4. q.op \in ChangeOp /\ q.seen \in RosterOf /\ role \in [User -> Roles \cup {"gone"}]
  BY <1>0, <1>3 DEF ChangeSet, GroupTypesOK
<1>5. role' \in [User -> Roles \cup {"gone"}]
  <2>1. NewRole(q.op, role[q.who]) \in Roles \cup {"gone"}
    BY <1>3, <1>4, NewRoleTypes
  <2>2. QED
    BY <1>1, <1>4, <2>1
<1>6. diverged' \in [Followed -> BOOLEAN]
  <2>1. Outdated(q.by, orphan) \in [Followed -> BOOLEAN]
    BY <1>0 DEF Outdated, GroupTypesOK
  <2>2. diverged' = diverged \/ diverged' = Outdated(q.by, orphan)
    BY <1>1
  <2>3. QED
    BY <1>0, <2>1, <2>2 DEF GroupTypesOK
<1>7. GroupTypeOK'
  <2>1. GroupTypesOK'
    BY <1>0, <1>2, <1>3, <1>5, <1>6 DEF GroupTypesOK
  <2>2. QED
    BY <2>1, GroupTypesSame, PTL
<1>8. ASSUME NEW w \in Followed, w # q.by PROVE ShownStored(w)' /\ PageCurrent(w)'
  <2>0. /\ ShownStored(w) /\ PageCurrent(w) /\ Fetching(w)' = Fetching(w) /\ Pending(w) \subseteq Changing
        /\ w \in User
    BY <1>2, FetchingSame, GroupAssumption DEF GroupIInv, PagesOK, Pending
  <2>1. CASE role' = role /\ diverged' = diverged
    <3>1. Listed' = Listed
      BY <2>1 DEF Listed, In
    <3>2. QED
      BY <1>2, <1>3, <1>8, <2>0, <2>1, <3>1, PageFrame
  <2>2. CASE ~(role' = role /\ diverged' = diverged)
    <3>1. diverged' = Outdated(q.by, orphan)
      BY <1>1, <2>2
    <3>2. diverged'[w]
      BY <1>8, <3>1 DEF Outdated
    <3>3. QED
      BY <1>2, <2>0, <3>2, PageBehind DEF ShownStored
  <2>3. QED
    BY <2>1, <2>2
<1>9. ASSUME NEW u \in Followed, u = q.by PROVE ShownStored(u)' /\ PageCurrent(u)'
  <2>0. ShownStored(u) /\ PageCurrent(u) /\ u \in User
    BY GroupAssumption DEF GroupIInv, PagesOK
  <2>1. ShownStored(u)'
    BY <1>2, <2>0 DEF ShownStored
  <2>2. ASSUME ~diverged'[u], ~undone'[u] PROVE PageCurrent(u)!2'
    <3>1. ~diverged[u] /\ ~undone[u]
      <4>1. CASE diverged' = diverged
        BY <1>2, <2>2, <4>1
      <4>2. CASE diverged' # diverged
        <5>1. diverged' = Outdated(q.by, orphan)
          BY <1>1, <4>2
        <5>2. QED
          BY <1>2, <2>2, <5>1 DEF Outdated
      <4>3. QED
        BY <4>1, <4>2
    <3>2. c \in Pending(u) /\ Pending(u)' = IF there = "over" THEN Pending(u) \ {c} ELSE Pending(u)
      BY <1>3, <1>9, <2>0
    <3>3. Pending(u) = {c} /\ disk[u] # NoRoster /\ RequestRight(q, disk[u], Listed)
      BY <2>0, <3>1, <3>2 DEF PageCurrent
    <3>4. q.seen # NoRoster /\ q.seen = Listed /\ disk[u] = Listed
      BY <1>3, <3>3 DEF RequestRight
    <3>5. CASE there = "over"
      <4>1. UNCHANGED role
        BY <1>1, <3>4, <3>5
      <4>2. Listed' = Listed
        BY <4>1 DEF Listed, In
      <4>3. QED
        BY <1>2, <3>2, <3>3, <3>4, <3>5, <4>2
    <3>6. CASE there = "written"
      <4>1. q.op = "add" /\ change'[c].at = "written" /\ change'[c].op = q.op /\ change'[c].seen = q.seen
        BY <1>1, <1>3, <3>6
      <4>2. RequestRight(change'[c], disk'[u], Listed')
        BY <3>4, <4>1 DEF RequestRight
      <4>3. QED
        BY <1>2, <3>2, <3>3, <3>6, <4>2
    <3>7. CASE there = "answered"
      <4>1. q.op # "add" /\ ~missing /\ role' = [role EXCEPT ![q.who] = NewRole(q.op, role[q.who])]
        BY <1>1, <3>7
      <4>2. \A v \in User : role'[v] = IF v = q.who THEN NewRole(q.op, role[v]) ELSE role[v]
        BY <1>3, <1>4, <4>1
      <4>3. \A v \in User : q.seen[v] = IF role[v] \in {"MEMBER", "ADMIN"} THEN role[v] ELSE "none"
        BY <3>4 DEF Listed, In
      <4>4. \A v \in User : Listed'[v] = IF role'[v] \in {"MEMBER", "ADMIN"} THEN role'[v] ELSE "none"
        BY DEF Listed, In
      <4>5. Changed(q) \in [User -> Roles]
        BY <1>3, <1>4, NewRoleTypes DEF Changed, RosterOf
      <4>6. \A v \in User : Changed(q)[v] = IF v = q.who /\ q.seen[v] # "none" THEN NewRole(q.op, q.seen[v]) ELSE q.seen[v]
        BY <1>3, <1>4 DEF Changed, RosterOf
      <4>7. \A v \in User : Changed(q)[v] = Listed'[v]
        <5> SUFFICES ASSUME NEW v \in User PROVE Changed(q)[v] = Listed'[v]
          OBVIOUS
        <5>1. CASE v # q.who
          BY <4>2, <4>3, <4>4, <4>6, <5>1
        <5>2. CASE v = q.who /\ q.op = "remove"
          BY <1>4, <4>2, <4>3, <4>4, <4>6, <5>2 DEF NewRole
        <5>3. CASE v = q.who /\ q.op \in {"promote", "demote"}
          <6>1. role[v] \in {"MEMBER", "ADMIN"}
            BY <4>1, <5>3 DEF In
          <6>2. QED
            BY <4>2, <4>3, <4>4, <4>6, <5>3, <6>1 DEF NewRole
        <5>4. QED
          BY <1>4, <4>1, <5>1, <5>2, <5>3 DEF ChangeOp
      <4>8. Listed' = [v \in User |-> Listed'[v]] /\ Changed(q) = [v \in User |-> Changed(q)[v]]
        BY <4>5 DEF Listed
      <4>9. Changed(q) = Listed'
        BY <4>7, <4>8
      <4>10. change'[c].seen = q.seen /\ change'[c].who = q.who /\ change'[c].op = q.op /\ change'[c].at = "answered"
        BY <1>3, <3>7
      <4>11. Changed(change'[c]) = Changed(q)
        BY <4>10 DEF Changed
      <4>12. RequestRight(change'[c], disk'[u], Listed')
        BY <4>1, <4>9, <4>10, <4>11 DEF RequestRight
      <4>13. QED
        BY <1>2, <3>2, <3>3, <3>7, <4>12
    <3>8. QED
      BY <3>5, <3>6, <3>7
  <2>3. QED
    BY <2>1, <2>2 DEF PageCurrent
<1>10. PagesOK'
  BY <1>8, <1>9 DEF PagesOK
<1>11. QED
  BY <1>3, <1>7, <1>10 DEF GroupIInv

\* The group is read again for an answer.
LEMMA ReadBackStep ==
  ASSUME GroupIInv, NEW c \in Changing, ReadBack(c)
  PROVE  GroupIInv'
<1> DEFINE q == [change[c] EXCEPT !.at = "answered", !.seen = Listed]
<1>0. GroupTypesOK /\ RequestsNamed
  BY GroupTypesSame DEF GroupIInv
<1>1. /\ change[c].at = "written" /\ change' = [change EXCEPT ![c].at = "answered", ![c].seen = Listed]
      /\ UNCHANGED <<role, disk, cache, shown, held, mail, refresh, diverged, undone>>
  BY DEF ReadBack, copyVars
<1>2. change[c] \in ChangeSet /\ change[c].by \in User /\ change[c].who \in User /\ change \in [Changing -> ChangeSet]
  BY <1>0, <1>1 DEF RequestsNamed, GroupTypesOK
<1>3. /\ q \in ChangeSet /\ q.at = "answered" /\ q.by = change[c].by /\ q.who = change[c].who
      /\ q.op = change[c].op /\ q.seen = Listed /\ change' = [change EXCEPT ![c] = q]
  BY <1>1, <1>2, GroupTypes DEF ChangeSet
<1> HIDE DEF q
<1>4. /\ change' \in [Changing -> ChangeSet] /\ change'[c] = q
      /\ \A d \in Changing \ {c} : change'[d] = change[d]
  BY <1>2, <1>3
<1>5. GroupTypeOK'
  <2>1. GroupTypesOK'
    BY <1>0, <1>1, <1>4 DEF GroupTypesOK
  <2>2. QED
    BY <2>1, GroupTypesSame, PTL
<1>6. RequestsNamed'
  BY <1>0, <1>2, <1>3, <1>4 DEF RequestsNamed
<1>7. Listed' = Listed
  BY <1>1 DEF Listed, In
<1>8. \A v \in User : Pending(v)' = Pending(v)
  BY <1>1, <1>3, <1>4 DEF Pending
<1>9. ASSUME NEW w \in Followed PROVE ShownStored(w)' /\ PageCurrent(w)'
  <2>0. /\ ShownStored(w) /\ PageCurrent(w) /\ Fetching(w)' = Fetching(w) /\ Pending(w) \subseteq Changing
        /\ w \in User
    BY <1>1, FetchingSame, GroupAssumption DEF GroupIInv, PagesOK, Pending
  <2>1. CASE w # change[c].by
    <3>1. c \notin Pending(w)
      BY <2>1 DEF Pending
    <3>2. QED
      BY <1>1, <1>4, <1>7, <1>8, <2>0, <3>1, PageFrame
  <2>2. CASE w = change[c].by
    <3>1. c \in Pending(w)
      BY <1>1, <2>2 DEF Pending
    <3>2. ShownStored(w)'
      BY <1>1, <2>0 DEF ShownStored
    <3>3. ASSUME ~diverged'[w], ~undone'[w] PROVE PageCurrent(w)!2'
      <4>1. Pending(w) = {c} /\ disk[w] # NoRoster /\ RequestRight(change[c], disk[w], Listed)
        BY <1>1, <2>0, <3>1, <3>3 DEF PageCurrent
      <4>2. q.op = "add"
        BY <1>1, <1>3, <4>1 DEF RequestRight
      <4>3. RequestRight(change'[c], disk'[w], Listed')
        BY <1>3, <1>4, <1>7, <4>2 DEF RequestRight
      <4>4. QED
        BY <1>1, <1>8, <2>0, <4>1, <4>3
    <3>4. QED
      BY <3>2, <3>3 DEF PageCurrent
  <2>3. QED
    BY <2>1, <2>2
<1>10. QED
  BY <1>5, <1>6, <1>9 DEF GroupIInv, PagesOK

\* A page is loaded again.
LEMMA LoadStep ==
  ASSUME GroupIInv, NEW u \in Followed, LoadPage(u)
  PROVE  GroupIInv'
<1> DEFINE lost == [c \in Changing |->
                      IF c \notin Pending(u) THEN change[c]
                      ELSE IF change[c].at \in {"sent", "allowed"} THEN [change[c] EXCEPT !.seen = NoRoster]
                      ELSE Blank("over")]
           none == [k \in Fetch |-> IF k = "list" THEN [at |-> "asked", got |-> NoRoster] ELSE NoFetch]
<1>0. GroupTypesOK /\ RequestsNamed
  BY GroupTypesSame DEF GroupIInv
<1>1. /\ shown' = [shown EXCEPT ![u] = NoRoster] /\ held' = [held EXCEPT ![u] = NoRoster]
      /\ cache' = [cache EXCEPT ![u] = disk[u]] /\ change' = lost
      /\ refresh' = [refresh EXCEPT ![u] = none]
      /\ diverged' = [diverged EXCEPT ![u] = TRUE] /\ undone' = [undone EXCEPT ![u] = FALSE]
      /\ UNCHANGED <<role, disk, mail>>
  BY DEF LoadPage
<1>2. none \in [Fetch -> FetchSet]
  <2>1. [at |-> "asked", got |-> NoRoster] \in FetchSet
    BY GroupTypes DEF FetchSet
  <2>2. QED
    BY <2>1, GroupTypes
<1> HIDE DEF none
<1>3. ASSUME NEW c \in Changing
      PROVE  /\ change'[c] \in ChangeSet
             /\ c \notin Pending(u) => change'[c] = change[c]
             /\ c \in Pending(u) => \/ change'[c].at = "over"
                                    \/ change'[c].by = change[c].by /\ change'[c].who = change[c].who
  <2>1. change[c] \in ChangeSet
    BY <1>0 DEF GroupTypesOK
  <2>2. change'[c] = IF c \notin Pending(u) THEN change[c]
                     ELSE IF change[c].at \in {"sent", "allowed"} THEN [change[c] EXCEPT !.seen = NoRoster]
                     ELSE Blank("over")
    BY <1>1
  <2>3. CASE c \notin Pending(u)
    BY <2>1, <2>2, <2>3
  <2>4. CASE c \in Pending(u) /\ change[c].at \in {"sent", "allowed"}
    <3>1. change'[c] = [change[c] EXCEPT !.seen = NoRoster]
      BY <2>2, <2>4
    <3>2. /\ change'[c] \in ChangeSet /\ change'[c].by = change[c].by /\ change'[c].who = change[c].who
      BY <2>1, <3>1, GroupTypes DEF ChangeSet
    <3>3. QED
      BY <2>4, <3>2
  <2>5. CASE c \in Pending(u) /\ change[c].at \notin {"sent", "allowed"}
    BY <2>2, <2>5, GroupTypes
  <2>6. QED
    BY <2>3, <2>4, <2>5
<1>4. change' \in [Changing -> ChangeSet]
  BY <1>1, <1>3
<1>5. GroupTypeOK'
  <2>1. /\ shown' \in [Followed -> RosterOf] /\ held' \in [Followed -> RosterOf] /\ cache' \in [Followed -> RosterOf]
        /\ refresh' \in [Followed -> [Fetch -> FetchSet]]
        /\ diverged' \in [Followed -> BOOLEAN] /\ undone' \in [Followed -> BOOLEAN]
    BY <1>0, <1>1, <1>2, GroupTypes DEF GroupTypesOK
  <2>2. GroupTypesOK'
    BY <1>0, <1>1, <1>4, <2>1 DEF GroupTypesOK
  <2>3. QED
    BY <2>2, GroupTypesSame, PTL
<1>6. RequestsNamed'
  <2>1. ASSUME NEW c \in Changing, change'[c].at \notin {"new", "over"}
        PROVE  change'[c].by \in User /\ change'[c].who \in User
    <3>1. CASE c \notin Pending(u)
      BY <1>0, <1>3, <2>1, <3>1 DEF RequestsNamed
    <3>2. CASE c \in Pending(u)
      BY <1>0, <1>3, <2>1, <3>2 DEF RequestsNamed, Pending
    <3>3. QED
      BY <3>1, <3>2
  <2>2. QED
    BY <2>1 DEF RequestsNamed
<1>7. Listed' = Listed
  BY <1>1 DEF Listed, In
<1>8. ASSUME NEW w \in Followed PROVE ShownStored(w)' /\ PageCurrent(w)'
  <2>1. CASE w = u
    BY <1>0, <1>1, <2>1, PageBehind DEF GroupTypesOK
  <2>2. CASE w # u
    <3>1. /\ diverged'[w] = diverged[w] /\ undone'[w] = undone[w] /\ shown'[w] = shown[w] /\ disk'[w] = disk[w]
          /\ refresh'[w] = refresh[w]
      BY <1>0, <1>1, <2>2 DEF GroupTypesOK
    <3>2. Fetching(w)' = Fetching(w)
      BY <3>1, FetchingSame
    <3>3. Pending(w) \cap Pending(u) = {} /\ Pending(w) \subseteq Changing
      BY <2>2 DEF Pending
    <3>4. ASSUME NEW c \in Changing PROVE c \in Pending(w)' <=> c \in Pending(w)
      <4>1. CASE c \notin Pending(u)
        BY <1>3, <4>1 DEF Pending
      <4>2. CASE c \in Pending(u)
        <5>1. change[c].by = u /\ c \notin Pending(w)
          BY <3>3, <4>2 DEF Pending
        <5>2. change'[c].at = "over" \/ change'[c].by = u
          BY <1>3, <4>2, <5>1
        <5>3. QED
          BY <2>2, <5>1, <5>2 DEF Pending
      <4>3. QED
        BY <4>1, <4>2
    <3>5. Pending(w)' = Pending(w)
      <4>1. Pending(w)' \subseteq Changing
        BY DEF Pending
      <4>2. QED
        BY <3>3, <3>4, <4>1
    <3>6. \A c \in Pending(w) : change'[c] = change[c]
      BY <1>3, <3>3
    <3>7. ShownStored(w) /\ PageCurrent(w)
      BY DEF GroupIInv, PagesOK
    <3>8. QED
      BY <1>7, <3>1, <3>2, <3>5, <3>6, <3>7, PageFrame
  <2>3. QED
    BY <2>1, <2>2
<1>9. QED
  BY <1>5, <1>6, <1>8 DEF GroupIInv, PagesOK

\* A roster that was fetched is stored.
LEMMA StoreRosterStep ==
  ASSUME GroupIInv, NEW u \in Followed, NEW k \in Fetch, StoreRoster(u, k)
  PROVE  GroupIInv'
<1> DEFINE got == refresh[u][k].got
<1>0. GroupTypesOK /\ RequestsNamed
  BY GroupTypesSame DEF GroupIInv
<1>1. /\ refresh' = [refresh EXCEPT ![u] = [refresh[u] EXCEPT ![k] = NoFetch]]
      /\ disk' = IF got = NoRoster THEN disk ELSE [disk EXCEPT ![u] = got]
      /\ diverged' = [diverged EXCEPT ![u] = got = NoRoster \/ got # Listed \/ Pending(u) # {} \/ Fetching(u) # {k}]
      /\ undone' = IF got = NoRoster THEN undone ELSE [undone EXCEPT ![u] = shown[u] \notin {NoRoster, got}]
      /\ UNCHANGED <<role, cache, shown, held, mail, change>>
  BY DEF StoreRoster
<1>2. got \in RosterOf
  BY <1>0 DEF GroupTypesOK, FetchSet
<1> HIDE DEF got
<1>3. GroupTypeOK'
  <2>1. /\ refresh' \in [Followed -> [Fetch -> FetchSet]] /\ disk' \in [Followed -> RosterOf]
        /\ diverged' \in [Followed -> BOOLEAN] /\ undone' \in [Followed -> BOOLEAN]
    BY <1>0, <1>1, <1>2, GroupTypes DEF GroupTypesOK
  <2>2. GroupTypesOK'
    BY <1>0, <1>1, <2>1 DEF GroupTypesOK
  <2>3. QED
    BY <2>2, GroupTypesSame, PTL
<1>4. RequestsNamed'
  BY <1>0, <1>1 DEF RequestsNamed
<1>5. Listed' = Listed /\ \A w \in User : Pending(w)' = Pending(w)
  BY <1>1 DEF Listed, In, Pending
<1>6. ASSUME NEW w \in Followed PROVE ShownStored(w)' /\ PageCurrent(w)'
  <2>0. ShownStored(w) /\ PageCurrent(w) /\ w \in User
    BY GroupAssumption DEF GroupIInv, PagesOK
  <2>1. CASE w # u
    <3>1. /\ diverged'[w] = diverged[w] /\ undone'[w] = undone[w] /\ disk'[w] = disk[w] /\ refresh'[w] = refresh[w]
      BY <1>0, <1>1, <2>1 DEF GroupTypesOK
    <3>2. QED
      BY <1>1, <1>5, <2>0, <3>1, FetchingSame, PageFrame
  <2>2. CASE w = u /\ got = NoRoster
    <3>1. diverged'[u] /\ UNCHANGED <<disk, undone, shown>>
      BY <1>0, <1>1, <2>2 DEF GroupTypesOK
    <3>2. QED
      BY <2>0, <2>2, <3>1, PageBehind DEF ShownStored
  <2>3. CASE w = u /\ got # NoRoster
    <3>1. disk'[u] = got /\ (~undone'[u] => shown'[u] \in {NoRoster, got})
      BY <1>0, <1>1, <2>3 DEF GroupTypesOK
    <3>2. ~diverged'[u] => got = Listed /\ Pending(u) = {}
      BY <1>0, <1>1 DEF GroupTypesOK
    <3>3. QED
      BY <1>5, <2>0, <2>3, <3>1, <3>2 DEF ShownStored, PageCurrent
  <2>4. QED
    BY <2>1, <2>2, <2>3
<1>7. QED
  BY <1>3, <1>4, <1>6 DEF GroupIInv, PagesOK

\* Steps that leave the rows, the requests and what is known alone: a roster asked
\* for or answered, the list refreshed, a thread opened or closed, a message sent or
\* taken up, and the first half of an upsertGroup.
LEMMA QuietGroupStep ==
  ASSUME GroupIInv, UNCHANGED <<role, disk, change, diverged>>, GroupTypeOK',
         \A u \in Followed : /\ ~undone'[u] => ~undone[u] /\ shown'[u] \in {NoRoster, shown[u], disk[u]}
                             /\ \A k \in Fetch : refresh[u][k].at # "idle" => refresh'[u][k].at # "idle"
  PROVE  GroupIInv'
<1>1. RequestsNamed'
  BY DEF GroupIInv, RequestsNamed
<1>2. Listed' = Listed /\ \A w \in User : Pending(w)' = Pending(w)
  BY DEF Listed, In, Pending
<1>3. ASSUME NEW w \in Followed PROVE ShownStored(w)' /\ PageCurrent(w)'
  <2>1. ShownStored(w) /\ PageCurrent(w) /\ w \in User
    BY GroupAssumption DEF GroupIInv, PagesOK
  <2>2. Fetching(w)' = {} => Fetching(w) = {}
    BY DEF Fetching
  <2>3. QED
    BY <1>2, <2>1, <2>2, PageFrame
<1>4. QED
  BY <1>1, <1>3 DEF GroupIInv, PagesOK

\* What a page does by itself.
LEMMA RosterPageStep ==
  ASSUME GroupIInv, NEW u \in Followed,
         \/ RefreshGroups(u) \/ OpenThread(u, cache[u]) \/ OpenThread(u, disk[u]) \/ CloseThread(u)
         \/ \E k \in Fetch : FetchRoster(u, k)
         \/ \E v \in User : SendTo(v, u)
         \/ TakeUp(u) \/ ReadStored(u)
  PROVE  GroupIInv'
<1>0. GroupTypesOK
  BY GroupTypesSame DEF GroupIInv
<1> DEFINE Quiet == /\ UNCHANGED <<role, disk, change, diverged>> /\ GroupTypesOK'
                    /\ \A w \in Followed :
                         /\ ~undone'[w] => ~undone[w] /\ shown'[w] \in {NoRoster, shown[w], disk[w]}
                         /\ \A k \in Fetch : refresh[w][k].at # "idle" => refresh'[w][k].at # "idle"
<1>1. ASSUME RefreshGroups(u) PROVE Quiet
  <2>1. cache' = [cache EXCEPT ![u] = disk[u]]
        /\ UNCHANGED <<role, disk, shown, held, mail, change, refresh, diverged, undone>>
    BY <1>1 DEF RefreshGroups
  <2>2. cache' \in [Followed -> RosterOf]
    BY <1>0, <2>1 DEF GroupTypesOK
  <2>3. GroupTypesOK'
    BY <1>0, <2>1, <2>2 DEF GroupTypesOK
  <2>4. QED
    BY <2>1, <2>3
<1>2. ASSUME OpenThread(u, cache[u]) \/ OpenThread(u, disk[u]) PROVE Quiet
  <2>1. PICK copy \in RosterOf :
          /\ shown' = [shown EXCEPT ![u] = copy]
          /\ undone' = [undone EXCEPT ![u] = undone[u] \/ copy # disk[u]]
          /\ UNCHANGED <<role, disk, cache, held, mail, change, refresh, diverged>>
    BY <1>0, <1>2 DEF OpenThread, GroupTypesOK
  <2>2. shown' \in [Followed -> RosterOf] /\ undone' \in [Followed -> BOOLEAN]
    BY <1>0, <2>1 DEF GroupTypesOK
  <2>3. GroupTypesOK'
    BY <1>0, <2>1, <2>2 DEF GroupTypesOK
  <2>4. \A w \in Followed : ~undone'[w] => ~undone[w] /\ shown'[w] \in {NoRoster, shown[w], disk[w]}
    BY <1>0, <2>1 DEF GroupTypesOK
  <2>5. QED
    BY <2>1, <2>3, <2>4
<1>3. ASSUME CloseThread(u) PROVE Quiet
  <2>1. shown' = [shown EXCEPT ![u] = NoRoster]
        /\ UNCHANGED <<role, disk, cache, held, mail, change, refresh, diverged, undone>>
    BY <1>3 DEF CloseThread
  <2>2. shown' \in [Followed -> RosterOf] /\ \A w \in Followed : shown'[w] \in {NoRoster, shown[w]}
    BY <1>0, <2>1, GroupTypes DEF GroupTypesOK
  <2>3. GroupTypesOK'
    BY <1>0, <2>1, <2>2 DEF GroupTypesOK
  <2>4. QED
    BY <2>1, <2>2, <2>3
<1>4. ASSUME \E k \in Fetch : FetchRoster(u, k) PROVE Quiet
  <2>1. PICK k \in Fetch : FetchRoster(u, k)
    BY <1>4
  <2> DEFINE f == [at |-> "fetched", got |-> IF u \in In(role) THEN Listed ELSE NoRoster]
  <2>2. f \in FetchSet /\ f.at = "fetched"
    BY GroupTypes DEF FetchSet
  <2>3. refresh' = [refresh EXCEPT ![u] = [refresh[u] EXCEPT ![k] = f]]
        /\ UNCHANGED <<role, disk, cache, shown, held, mail, change, diverged, undone>>
    BY <2>1 DEF FetchRoster, copyVars
  <2> HIDE DEF f
  <2>4. /\ refresh' \in [Followed -> [Fetch -> FetchSet]]
        /\ \A w \in Followed, l \in Fetch : refresh[w][l].at # "idle" => refresh'[w][l].at # "idle"
    BY <1>0, <2>2, <2>3 DEF GroupTypesOK
  <2>5. GroupTypesOK'
    BY <1>0, <2>3, <2>4 DEF GroupTypesOK
  <2>6. QED
    BY <2>3, <2>4, <2>5
<1>5. ASSUME \E v \in User : SendTo(v, u) PROVE Quiet
  <2>1. mail' = mail \cup {u} /\ UNCHANGED <<role, disk, cache, shown, held, change, refresh, diverged, undone>>
    BY <1>5 DEF SendTo, copyVars
  <2>2. GroupTypesOK'
    BY <1>0, <2>1 DEF GroupTypesOK
  <2>3. QED
    BY <2>1, <2>2
<1>6. ASSUME TakeUp(u) \/ ReadStored(u) PROVE Quiet
  <2>1. /\ UNCHANGED <<role, disk, cache, shown, change, diverged, undone>> /\ mail' \subseteq mail
        /\ \/ UNCHANGED refresh /\ \E copy \in RosterOf : held' = [held EXCEPT ![u] = copy]
           \/ UNCHANGED held /\ refresh' = [refresh EXCEPT ![u]["one"].at = "asked"]
    BY <1>0, <1>6 DEF TakeUp, ReadStored, GroupTypesOK
  <2>2. CASE UNCHANGED refresh /\ \E copy \in RosterOf : held' = [held EXCEPT ![u] = copy]
    <3>1. held' \in [Followed -> RosterOf]
      BY <1>0, <2>2 DEF GroupTypesOK
    <3>2. GroupTypesOK'
      BY <1>0, <2>1, <2>2, <3>1 DEF GroupTypesOK
    <3>3. QED
      BY <2>1, <2>2, <3>2
  <2>3. CASE UNCHANGED held /\ refresh' = [refresh EXCEPT ![u]["one"].at = "asked"]
    <3> DEFINE f == [refresh[u]["one"] EXCEPT !.at = "asked"]
    <3>1. refresh[u]["one"] \in FetchSet /\ "one" \in Fetch
      BY <1>0 DEF GroupTypesOK, Fetch
    <3>2. f \in FetchSet /\ f.at = "asked"
      BY <3>1 DEF FetchSet
    <3>3. refresh' = [refresh EXCEPT ![u] = [refresh[u] EXCEPT !["one"] = f]]
      BY <1>0, <2>3, <3>1 DEF GroupTypesOK
    <3> HIDE DEF f
    <3>4. /\ refresh' \in [Followed -> [Fetch -> FetchSet]]
          /\ \A w \in Followed, l \in Fetch : refresh[w][l].at # "idle" => refresh'[w][l].at # "idle"
      BY <1>0, <3>1, <3>2, <3>3 DEF GroupTypesOK
    <3>5. GroupTypesOK'
      BY <1>0, <2>1, <2>3, <3>4 DEF GroupTypesOK
    <3>6. QED
      BY <2>1, <3>4, <3>5
  <2>4. QED
    BY <2>1, <2>2, <2>3
<1>7. Quiet
  BY <1>1, <1>2, <1>3, <1>4, <1>5, <1>6
<1>8. GroupTypeOK'
  BY <1>7, GroupTypesSame, PTL
<1>9. QED
  BY <1>7, <1>8, QuietGroupStep

\* The second half of an upsertGroup.
LEMMA StoreHeldStep ==
  ASSUME GroupIInv, NEW u \in Followed, StoreHeld(u)
  PROVE  GroupIInv'
<1>0. GroupTypesOK /\ RequestsNamed
  BY GroupTypesSame DEF GroupIInv
<1>1. /\ disk' = [disk EXCEPT ![u] = held[u]] /\ held' = [held EXCEPT ![u] = NoRoster]
      /\ undone' = [undone EXCEPT ![u] = undone[u] \/ held[u] # disk[u]]
      /\ UNCHANGED <<role, cache, shown, mail, change, refresh, diverged>>
  BY DEF StoreHeld
<1>2. GroupTypeOK'
  <2>1. disk' \in [Followed -> RosterOf] /\ held' \in [Followed -> RosterOf] /\ undone' \in [Followed -> BOOLEAN]
    BY <1>0, <1>1, GroupTypes DEF GroupTypesOK
  <2>2. GroupTypesOK'
    BY <1>0, <1>1, <2>1 DEF GroupTypesOK
  <2>3. QED
    BY <2>2, GroupTypesSame, PTL
<1>3. RequestsNamed'
  BY <1>0, <1>1 DEF RequestsNamed
<1>4. Listed' = Listed /\ \A w \in User : Pending(w)' = Pending(w)
  BY <1>1 DEF Listed, In, Pending
<1>5. ASSUME NEW w \in Followed PROVE ShownStored(w)' /\ PageCurrent(w)'
  <2>1. ShownStored(w) /\ PageCurrent(w) /\ w \in User /\ Fetching(w)' = Fetching(w)
    BY <1>1, FetchingSame, GroupAssumption DEF GroupIInv, PagesOK
  <2>2. CASE ~undone'[w]
    <3>1. ~undone[w] /\ disk'[w] = disk[w]
      BY <1>0, <1>1, <2>2 DEF GroupTypesOK
    <3>2. QED
      BY <1>1, <1>4, <2>1, <3>1, PageFrame
  <2>3. CASE undone'[w]
    BY <2>3 DEF ShownStored, PageCurrent
  <2>4. QED
    BY <2>2, <2>3
<1>6. QED
  BY <1>2, <1>3, <1>5 DEF GroupIInv, PagesOK

\* An account is deleted.
LEMMA DeleteUserStep ==
  ASSUME GroupIInv, NEW c \in Changing, NEW u \in User, DeleteUser(c, u)
  PROVE  GroupIInv'
<1>0. GroupTypesOK /\ RequestsNamed
  BY GroupTypesSame DEF GroupIInv
<1>1. /\ role' = [role EXCEPT ![u] = "gone"] /\ change' = [change EXCEPT ![c] = Blank("over")]
      /\ diverged' = [v \in Followed |-> TRUE]
      /\ UNCHANGED <<disk, cache, shown, held, mail, refresh, undone>>
  BY DEF DeleteUser, copyVars
<1>2. GroupTypeOK'
  <2>1. role' \in [User -> Roles \cup {"gone"}] /\ change' \in [Changing -> ChangeSet]
        /\ diverged' \in [Followed -> BOOLEAN]
    BY <1>0, <1>1, GroupTypes DEF GroupTypesOK
  <2>2. GroupTypesOK'
    BY <1>0, <1>1, <2>1 DEF GroupTypesOK
  <2>3. QED
    BY <2>2, GroupTypesSame, PTL
<1>3. RequestsNamed'
  BY <1>0, <1>1, GroupTypes DEF RequestsNamed, GroupTypesOK
<1>4. ASSUME NEW w \in Followed PROVE ShownStored(w)' /\ PageCurrent(w)'
  <2>1. ShownStored(w) /\ diverged'[w]
    BY <1>1 DEF GroupIInv, PagesOK
  <2>2. QED
    BY <1>1, <2>1, PageBehind DEF ShownStored
<1>5. QED
  BY <1>2, <1>3, <1>4 DEF GroupIInv, PagesOK

\* Every step keeps the strengthening.
LEMMA GroupStep ==
  GroupIInv /\ [GroupNext]_groupVars => GroupIInv'
<1> SUFFICES ASSUME GroupIInv, [GroupNext]_groupVars PROVE GroupIInv'
  OBVIOUS
<1>1. ASSUME NEW u \in User, NEW others \in SUBSET User, CreateGroup(u, others) PROVE GroupIInv'
  BY <1>1, CreateStep
<1>2. ASSUME NEW c \in Changing, NEW u \in User, NEW v \in User, NEW op \in ChangeOp, AskElsewhere(c, u, op, v)
      PROVE  GroupIInv'
  BY <1>2, AskStep
<1>3. ASSUME NEW c \in Changing, NEW u \in Followed, NEW v \in User, NEW op \in ChangeOp, AskChange(c, u, op, v)
      PROVE  GroupIInv'
  <2>1. u \in User
    BY GroupAssumption
  <2>2. QED
    BY <1>3, <2>1, AskStep
<1>4. ASSUME NEW c \in Changing, NEW u \in User, DeleteUser(c, u) PROVE GroupIInv'
  BY <1>4, DeleteUserStep
<1>5. ASSUME NEW c \in Changing, CheckAdmin(c) \/ WriteChange(c) \/ ReadBack(c) \/ LoseAnswer(c) \/ ApplyAnswer(c)
      PROVE  GroupIInv'
  BY <1>5, RosterAnswerStep, WriteStep, ReadBackStep
<1>6. ASSUME NEW u \in Followed, LoadPage(u) PROVE GroupIInv'
  BY <1>6, LoadStep
<1>7. ASSUME NEW u \in Followed,
             \/ RefreshGroups(u) \/ OpenThread(u, cache[u]) \/ OpenThread(u, disk[u]) \/ CloseThread(u)
             \/ \E k \in Fetch : FetchRoster(u, k)
             \/ \E v \in User : SendTo(v, u)
             \/ TakeUp(u) \/ ReadStored(u)
      PROVE  GroupIInv'
  BY <1>7, RosterPageStep
<1>8. ASSUME NEW u \in Followed, NEW k \in Fetch, StoreRoster(u, k) PROVE GroupIInv'
  BY <1>8, StoreRosterStep
<1>9. ASSUME NEW u \in Followed, StoreHeld(u) PROVE GroupIInv'
  BY <1>9, StoreHeldStep
<1>10. CASE UNCHANGED groupVars
  <2>1. UNCHANGED <<role, disk, cache, shown, held, mail, change, refresh, diverged, undone>>
    BY <1>10 DEF groupVars
  <2>2. GroupTypeOK'
    BY <2>1 DEF GroupIInv, GroupTypeOK
  <2>3. QED
    BY <2>1, <2>2, QuietGroupStep
<1>11. QED
  BY <1>1, <1>2, <1>3, <1>4, <1>5, <1>6, <1>7, <1>8, <1>9, <1>10 DEF GroupNext

\* The rows, the requests under way and the pages' copies are as GroupIInv says in
\* every reachable state.
THEOREM GroupInv == GroupSpec => []GroupIInv
<1>1. GroupInit => GroupIInv
  <2> SUFFICES ASSUME GroupInit PROVE GroupIInv
    OBVIOUS
  <2>1. \A c \in Changing : change[c] = Blank("new")
    BY DEF GroupInit
  <2>2. RequestsNamed /\ \A u \in Followed : Pending(u) = {}
    BY <2>1, GroupTypes DEF RequestsNamed, Pending
  <2>3. GroupTypesOK
    <3>1. change \in [Changing -> ChangeSet] /\ refresh \in [Followed -> [Fetch -> FetchSet]]
      BY GroupTypes DEF GroupInit
    <3>2. role \in [User -> Roles \cup {"gone"}]
      BY DEF GroupInit, NoRoster, Roles
    <3>3. QED
      BY <3>1, <3>2, GroupTypes DEF GroupInit, GroupTypesOK
  <2>4. \A u \in Followed : disk[u] = NoRoster /\ shown[u] = NoRoster
    BY DEF GroupInit
  <2>5. PagesOK
    BY <2>2, <2>4 DEF PagesOK, ShownStored, PageCurrent
  <2>6. QED
    BY <2>2, <2>3, <2>5, GroupTypesSame DEF GroupIInv
<1>2. QED
  BY <1>1, GroupStep, PTL DEF GroupSpec

\* A page that has put no older copy over a newer one, and was told of every change,
\* has stored the members the server lists, and shows them or none, once its requests
\* are answered and its fetches stored (page.tsx, localDb.ts, groups.controller.ts).
THEOREM RosterIsCurrent == GroupSpec => []RosterCurrent
<1>1. ASSUME GroupIInv PROVE RosterCurrent
  <2> SUFFICES ASSUME NEW u \in Followed, ~diverged[u], ~undone[u], Pending(u) = {}, Fetching(u) = {},
                      disk[u] # NoRoster
               PROVE  disk[u] = Listed /\ shown[u] \in {NoRoster, Listed}
    BY DEF RosterCurrent
  <2>1. ShownStored(u) /\ PageCurrent(u)
    BY <1>1 DEF GroupIInv, PagesOK
  <2>2. QED
    BY <2>1 DEF ShownStored, PageCurrent
<1>2. QED
  BY <1>1, GroupInv, PTL

-----------------------------------------------------------------------------
(* The dot of the partner (Presence).                                        *)

\* The last event under way says how things are; so does an answer under way that
\* is not out of date, unless an event will follow it; and so does the dot.
SightOK ==
    /\ events # <<>> => tuned /\ events[Len(events)] = Online
    /\ single.at = "read" => single.got # "unknown" /\ (~single.old => single.got = Online)
    /\ batch.at = "read" /\ ~batch.old /\ events = <<>> /\ dot = "unknown" => batch.got = Online
    /\ dot # "unknown" /\ events = <<>> /\ ~stale => dot = Online

SightIInv == PresenceTypeOK /\ SightOK

SightTypeOK ==
    /\ tuned \in BOOLEAN
    /\ events \in Seq({"on", "off"}) /\ Len(events) <= MaxEvents
    /\ dot \in Shown
    /\ batch \in Read /\ single \in Read
    /\ stale \in BOOLEAN

\* What Tail leaves of the events under way.
LEMMA EventsTail ==
  ASSUME NEW s \in Seq({"on", "off"}), s # <<>>
  PROVE  /\ Len(s) \in Nat \ {0} /\ Head(s) \in {"on", "off"} /\ Head(s) = s[1]
         /\ Tail(s) \in Seq({"on", "off"}) /\ Len(Tail(s)) = Len(s) - 1
         /\ Tail(s) = <<>> => Len(s) = 1
         /\ Tail(s) # <<>> => Tail(s)[Len(Tail(s))] = s[Len(s)]
<1>1. /\ Len(s) \in Nat \ {0} /\ Head(s) \in {"on", "off"} /\ Head(s) = s[1]
      /\ Tail(s) \in Seq({"on", "off"}) /\ Len(Tail(s)) = Len(s) - 1
      /\ \A i \in 1 .. Len(s) - 1 : Tail(s)[i] = s[i + 1]
  OBVIOUS
<1>2. Tail(s) = <<>> => Len(Tail(s)) = 0
  <2>1. Len(<<>>) = 0
    OBVIOUS
  <2>2. QED
    BY <2>1
<1>3. Tail(s) # <<>> => Len(Tail(s)) # 0
  BY <1>1
<1>4. Tail(s) # <<>> => Tail(s)[Len(s) - 1] = s[Len(s)]
  BY <1>1, <1>3
<1>5. QED
  BY <1>1, <1>2, <1>4

\* And what one more event makes of them.
LEMMA EventsAppend ==
  ASSUME NEW s \in Seq({"on", "off"}), NEW e \in {"on", "off"}
  PROVE  /\ Len(s) \in Nat
         /\ Append(s, e) \in Seq({"on", "off"}) /\ Append(s, e) # <<>>
         /\ Len(Append(s, e)) = Len(s) + 1
         /\ Append(s, e)[Len(Append(s, e))] = e
OBVIOUS

\* A change that is announced.
LEMMA BroadcastStep ==
  ASSUME SightTypeOK, SightOK, Online' \in {"on", "off"}, Broadcast(Online'), Len(events) < MaxEvents
  PROVE  SightTypeOK' /\ SightOK'
<1> USE DEF SightTypeOK
<1>1. /\ single' = [single EXCEPT !.old = single.old \/ single.at = "read"]
      /\ batch' = [batch EXCEPT !.old = batch.old \/ (batch.at = "read" /\ ~tuned)]
      /\ stale' = (stale \/ (~tuned /\ dot # "unknown"))
      /\ tuned' = tuned /\ dot' = dot
  BY DEF Broadcast
<1>2. /\ single' \in Read /\ batch' \in Read /\ stale' \in BOOLEAN
      /\ single'.at = single.at /\ single'.got = single.got /\ (single'.old <=> single.old \/ single.at = "read")
      /\ batch'.at = batch.at /\ batch'.got = batch.got
      /\ batch'.old <=> batch.old \/ (batch.at = "read" /\ ~tuned)
  BY <1>1 DEF Read
<1>3. CASE tuned
  <2>1. events' = Append(events, Online')
    BY <1>3 DEF Broadcast
  <2>2. /\ Len(events) \in Nat /\ events' \in Seq({"on", "off"}) /\ events' # <<>>
        /\ Len(events') = Len(events) + 1 /\ events'[Len(events')] = Online'
    BY <2>1, EventsAppend
  <2>3. Len(events') <= MaxEvents
    BY <2>2, PresenceAssumption
  <2>4. QED
    BY <1>1, <1>2, <1>3, <2>2, <2>3 DEF SightOK
<1>4. CASE ~tuned
  <2>1. events' = events /\ events = <<>>
    BY <1>4 DEF Broadcast, SightOK
  <2>2. QED
    BY <1>1, <1>2, <1>4, <2>1 DEF SightOK
<1>5. QED
  BY <1>3, <1>4

\* The page's own steps, and the answers it gets.
LEMMA WatcherStep ==
  ASSUME SightTypeOK, SightOK, Online \in {"on", "off"}, Online' = Online,
         \/ UNCHANGED dotVars
         \/ Tune \/ Untune \/ ReloadWatcher \/ HearUpdate
         \/ AskBatch \/ AskSingle \/ ReadSingle \/ ReadBatch
         \/ BatchAnswers \/ SingleAnswers \/ ReadFails
  PROVE  SightTypeOK' /\ SightOK'
<1> USE DEF SightTypeOK
<1>1. NoRead \in Read /\ NoRead.at = "none"
  BY DEF NoRead, Read, Shown
<1>2. ASSUME UNCHANGED dotVars PROVE SightTypeOK' /\ SightOK'
  BY <1>2 DEF SightOK, dotVars
<1>3. ASSUME Tune PROVE SightTypeOK' /\ SightOK'
  BY <1>3 DEF SightOK, Tune
<1>4. ASSUME Untune PROVE SightTypeOK' /\ SightOK'
  <2>1. /\ batch' \in Read /\ batch'.at = batch.at /\ batch'.got = batch.got
        /\ batch'.old <=> batch.old \/ (batch.at = "read" /\ events # <<>>)
    BY <1>4 DEF Untune, Read
  <2>2. events' = <<>> /\ Len(events') <= MaxEvents /\ events' \in Seq({"on", "off"})
    BY <1>4, PresenceAssumption DEF Untune
  <2>3. (stale' <=> stale \/ (events # <<>> /\ dot # "unknown")) /\ stale' \in BOOLEAN
    BY <1>4 DEF Untune
  <2>4. tuned' = FALSE /\ UNCHANGED <<dot, single>>
    BY <1>4 DEF Untune
  <2>5. QED
    BY <2>1, <2>2, <2>3, <2>4 DEF SightOK
<1>5. ASSUME ReloadWatcher PROVE SightTypeOK' /\ SightOK'
  <2>1. events' = <<>> /\ Len(events') <= MaxEvents /\ events' \in Seq({"on", "off"})
    BY <1>5, PresenceAssumption DEF ReloadWatcher
  <2>2. QED
    BY <1>1, <1>5, <2>1 DEF SightOK, ReloadWatcher, Shown
<1>6. ASSUME HearUpdate PROVE SightTypeOK' /\ SightOK'
  <2>1. events # <<>> /\ events' = Tail(events) /\ dot' = Head(events) /\ stale' = FALSE
        /\ UNCHANGED <<tuned, batch, single>>
    BY <1>6 DEF HearUpdate
  <2>2. /\ Len(events) \in Nat \ {0} /\ dot' \in {"on", "off"} /\ dot' = events[1]
        /\ events' \in Seq({"on", "off"}) /\ Len(events') = Len(events) - 1
        /\ events' = <<>> => Len(events) = 1
        /\ events' # <<>> => events'[Len(events')] = events[Len(events)]
    BY <2>1, EventsTail
  <2>3. Len(events') <= MaxEvents
    BY <2>2, PresenceAssumption
  <2>4. QED
    BY <2>1, <2>2, <2>3 DEF SightOK, Shown
<1>7. ASSUME AskBatch \/ AskSingle PROVE SightTypeOK' /\ SightOK'
  <2>1. [NoRead EXCEPT !.at = "asked"] \in Read /\ [NoRead EXCEPT !.at = "asked"].at = "asked"
    BY DEF NoRead, Read, Shown
  <2>2. QED
    BY <1>7, <2>1 DEF SightOK, AskBatch, AskSingle
<1>8. ASSUME ReadSingle \/ ReadBatch PROVE SightTypeOK' /\ SightOK'
  <2> DEFINE answer == [at |-> "read", got |-> Online, old |-> FALSE]
  <2>1. answer \in Read /\ answer.at = "read" /\ answer.got = Online /\ ~answer.old
    BY DEF Read, Shown
  <2>2. \/ single' = answer /\ UNCHANGED <<tuned, events, dot, batch, stale>>
        \/ batch' = answer /\ UNCHANGED <<tuned, events, dot, single, stale>>
    BY <1>8 DEF ReadSingle, ReadBatch
  <2> HIDE DEF answer
  <2>3. QED
    BY <2>1, <2>2 DEF SightOK
<1>9. ASSUME BatchAnswers PROVE SightTypeOK' /\ SightOK'
  BY <1>1, <1>9 DEF SightOK, BatchAnswers, Read, Shown
<1>10. ASSUME SingleAnswers PROVE SightTypeOK' /\ SightOK'
  <2>1. single' = NoRead /\ dot' = single.got /\ stale' = single.old /\ single.at = "read"
        /\ UNCHANGED <<tuned, events, batch>>
    BY <1>10 DEF SingleAnswers
  <2>2. single.got \in Shown /\ single.old \in BOOLEAN
    BY DEF Read
  <2>3. SightTypeOK'
    BY <1>1, <2>1, <2>2
  <2>4. /\ events' # <<>> => tuned' /\ events'[Len(events')] = Online'
        /\ ~stale' => dot' = Online'
    BY <2>1, <2>2 DEF SightOK
  <2>5. batch'.at = "read" /\ ~batch'.old /\ events' = <<>> /\ dot' = "unknown" => batch'.got = Online'
    BY <2>1, <2>2 DEF SightOK
  <2>6. QED
    BY <1>1, <2>1, <2>3, <2>4, <2>5 DEF SightOK
<1>11. ASSUME ReadFails PROVE SightTypeOK' /\ SightOK'
  BY <1>1, <1>11 DEF SightOK, ReadFails
<1>12. QED
  BY <1>2, <1>3, <1>4, <1>5, <1>6, <1>7, <1>8, <1>9, <1>10, <1>11

\* Pages and pushes.
PagesTypeOK ==
    /\ link \in [Page -> {"down", "up", "dead"}]
    /\ visible \in [Page -> BOOLEAN]

PushTypeOK ==
    /\ message \in [Message -> [relayed : BOOLEAN, check : BOOLEAN, acked : BOOLEAN,
                                notice : {"none", "reading", "pushed", "withheld"}]]
    /\ owed \in [Page -> SUBSET Message]

\* The types, by the part of the module they belong to.
LEMMA SightParts == PresenceTypeOK <=> PagesTypeOK /\ PushTypeOK /\ SightTypeOK
BY DEF PresenceTypeOK, PagesTypeOK, PushTypeOK, SightTypeOK

\* Who is online changes only with the link.
LEMMA OnlineSame ==
  ASSUME UNCHANGED link PROVE Online' = Online
BY DEF Online, isUserOnline

\* Every step keeps the strengthening.
LEMMA SightStep ==
  SightIInv /\ [PresenceNext]_presenceVars => SightIInv'
<1> SUFFICES ASSUME SightIInv, [PresenceNext]_presenceVars PROVE SightIInv'
  OBVIOUS
<1>0. PagesTypeOK /\ PushTypeOK /\ SightTypeOK /\ SightOK /\ Online \in {"on", "off"}
  BY SightParts DEF SightIInv, Online
<1> SUFFICES PagesTypeOK' /\ PushTypeOK' /\ SightTypeOK' /\ SightOK'
  BY SightParts DEF SightIInv, PresenceTypeOK, PagesTypeOK, PushTypeOK, SightTypeOK
<1>1. ASSUME NEW p \in Page, Connect(p) PROVE PagesTypeOK' /\ PushTypeOK' /\ SightTypeOK' /\ SightOK'
  <2>1. PagesTypeOK' /\ PushTypeOK'
    BY <1>0, <1>1 DEF PagesTypeOK, PushTypeOK, Connect, pushVars
  <2>2. Online' = "on"
    BY <1>0, <1>1 DEF Connect, Online, isUserOnline, PagesTypeOK
  <2>3. CASE isUserOnline
    BY <1>0, <1>1, <2>1, <2>2, <2>3, WatcherStep DEF Connect, Online
  <2>4. CASE ~isUserOnline
    BY <1>0, <1>1, <2>1, <2>2, <2>4, BroadcastStep DEF Connect
  <2>5. QED
    BY <2>3, <2>4
<1>2. ASSUME NEW p \in Page, Freeze(p) PROVE PagesTypeOK' /\ PushTypeOK' /\ SightTypeOK' /\ SightOK'
  <2>1. PagesTypeOK' /\ PushTypeOK' /\ UNCHANGED dotVars
    BY <1>0, <1>2 DEF PagesTypeOK, PushTypeOK, Freeze, pushVars
  <2>2. Online' = Online
    BY <1>0, <1>2 DEF Freeze, Online, isUserOnline, PagesTypeOK
  <2>3. QED
    BY <1>0, <2>1, <2>2, WatcherStep
<1>3. ASSUME NEW p \in Page, Disconnect(p) PROVE PagesTypeOK' /\ PushTypeOK' /\ SightTypeOK' /\ SightOK'
  <2>1. PagesTypeOK' /\ PushTypeOK'
    BY <1>0, <1>3 DEF PagesTypeOK, PushTypeOK, Disconnect, pushVars
  <2>2. CASE \E q \in Page \ {p} : link[q] # "down"
    <3>1. Online' = "on" /\ Online = "on"
      BY <1>0, <1>3, <2>2 DEF Disconnect, Online, isUserOnline, PagesTypeOK
    <3>2. QED
      BY <1>0, <1>3, <2>1, <2>2, <3>1, WatcherStep DEF Disconnect
  <2>3. CASE ~ \E q \in Page \ {p} : link[q] # "down"
    <3>1. Online' = "off"
      BY <1>0, <1>3, <2>3 DEF Disconnect, Online, isUserOnline, PagesTypeOK
    <3>2. QED
      BY <1>0, <1>3, <2>1, <2>3, <3>1, BroadcastStep DEF Disconnect
  <2>4. QED
    BY <2>2, <2>3
<1>4. ASSUME NEW p \in Page, NEW seen \in BOOLEAN, ReportVisibility(p, seen)
      PROVE PagesTypeOK' /\ PushTypeOK' /\ SightTypeOK' /\ SightOK'
  <2>1. PagesTypeOK' /\ PushTypeOK' /\ UNCHANGED dotVars /\ UNCHANGED link
    BY <1>0, <1>4 DEF PagesTypeOK, PushTypeOK, ReportVisibility, pushVars
  <2>2. QED
    BY <1>0, <2>1, WatcherStep, OnlineSame
<1>5. ASSUME NEW m \in Message, Relay(m) \/ CheckExpires(m) \/ Notify(m)
      PROVE PagesTypeOK' /\ PushTypeOK' /\ SightTypeOK' /\ SightOK'
  <2>1. UNCHANGED dotVars /\ UNCHANGED link /\ UNCHANGED visible
    BY <1>5 DEF Relay, CheckExpires, Notify
  <2>2. message' \in [Message -> [relayed : BOOLEAN, check : BOOLEAN, acked : BOOLEAN,
                                  notice : {"none", "reading", "pushed", "withheld"}]]
    <3>1. isUserVisible \in BOOLEAN
      BY DEF isUserVisible
    <3>2. CASE Relay(m)
      <4>1. message' = [message EXCEPT ![m].relayed = TRUE, ![m].check = isUserVisible,
                                       ![m].notice = IF isUserVisible THEN "none" ELSE "reading"]
        BY <3>2 DEF Relay
      <4>2. QED
        BY <1>0, <3>1, <4>1 DEF PushTypeOK
    <3>3. CASE CheckExpires(m)
      <4>1. message' = [message EXCEPT ![m].check = FALSE, ![m].notice = "reading"]
        BY <3>3 DEF CheckExpires
      <4>2. QED
        BY <1>0, <4>1 DEF PushTypeOK
    <3>4. CASE Notify(m)
      <4>1. PICK notice \in {"pushed", "withheld"} : message' = [message EXCEPT ![m].notice = notice]
        BY <3>4 DEF Notify
      <4>2. QED
        BY <1>0, <4>1 DEF PushTypeOK
    <3>5. QED
      BY <1>5, <3>2, <3>3, <3>4
  <2>3. owed' \in [Page -> SUBSET Message]
    BY <1>0, <1>5 DEF PushTypeOK, Relay, CheckExpires, Notify
  <2>4. QED
    BY <1>0, <2>1, <2>2, <2>3, WatcherStep, OnlineSame DEF PagesTypeOK, PushTypeOK
<1>6. ASSUME NEW p \in Page, CatchUp(p) PROVE PagesTypeOK' /\ PushTypeOK' /\ SightTypeOK' /\ SightOK'
  <2>1. PagesTypeOK' /\ PushTypeOK' /\ UNCHANGED dotVars /\ UNCHANGED link
    BY <1>0, <1>6 DEF PagesTypeOK, PushTypeOK, CatchUp
  <2>2. QED
    BY <1>0, <2>1, WatcherStep, OnlineSame
<1>7. ASSUME NEW p \in Page, NEW m \in Message, SendReceipt(p, m)
      PROVE PagesTypeOK' /\ PushTypeOK' /\ SightTypeOK' /\ SightOK'
  <2>1. PagesTypeOK' /\ PushTypeOK' /\ UNCHANGED dotVars /\ UNCHANGED link
    BY <1>0, <1>7 DEF PagesTypeOK, PushTypeOK, SendReceipt
  <2>2. QED
    BY <1>0, <2>1, WatcherStep, OnlineSame
<1>8. ASSUME \/ Tune \/ Untune \/ ReloadWatcher \/ HearUpdate
             \/ AskBatch \/ AskSingle \/ ReadSingle \/ ReadBatch
             \/ BatchAnswers \/ SingleAnswers \/ ReadFails
      PROVE PagesTypeOK' /\ PushTypeOK' /\ SightTypeOK' /\ SightOK'
  <2>1. UNCHANGED <<link, visible, pushVars>>
    BY <1>8 DEF Tune, Untune, ReloadWatcher, HearUpdate, AskBatch, AskSingle, ReadSingle, ReadBatch,
                BatchAnswers, SingleAnswers, ReadFails
  <2>2. PagesTypeOK' /\ PushTypeOK' /\ Online' = Online
    BY <1>0, <2>1, OnlineSame DEF PagesTypeOK, PushTypeOK, pushVars
  <2>3. QED
    BY <1>0, <1>8, <2>2, WatcherStep
<1>9. ASSUME UNCHANGED presenceVars PROVE PagesTypeOK' /\ PushTypeOK' /\ SightTypeOK' /\ SightOK'
  <2>1. PagesTypeOK' /\ PushTypeOK' /\ UNCHANGED dotVars /\ UNCHANGED link
    BY <1>0, <1>9 DEF PagesTypeOK, PushTypeOK, presenceVars, pushVars
  <2>2. QED
    BY <1>0, <2>1, WatcherStep, OnlineSame
<1>10. QED
  BY <1>1, <1>2, <1>3, <1>4, <1>5, <1>6, <1>7, <1>8, <1>9 DEF PresenceNext

\* What is shown of the partner, and what is under way about it, is as SightIInv says
\* in every reachable state.
THEOREM PresenceInv == PresenceSpec => []SightIInv
<1>1. PresenceInit => SightIInv
  <2> SUFFICES ASSUME PresenceInit PROVE SightIInv
    OBVIOUS
  <2>1. events \in Seq({"on", "off"}) /\ Len(events) <= MaxEvents
    BY PresenceAssumption DEF PresenceInit
  <2>2. QED
    BY <2>1 DEF PresenceInit, SightIInv, PresenceTypeOK, SightOK, NoRead, Read, Shown
<1>2. QED
  BY <1>1, SightStep, PTL DEF PresenceSpec

\* Once nothing is under way the dot of the open chat says whether the user is online,
\* unless the page was not connected when they came or went (presence.gateway.ts).
THEOREM DotIsCurrent == PresenceSpec => []DotCurrent
<1>1. SightIInv => DotCurrent
  BY DEF SightIInv, SightOK, DotCurrent
<1>2. QED
  BY <1>1, PresenceInv, PTL

-----------------------------------------------------------------------------
(* Typing events (Typing).                                                   *)

GroupPing(s, i, t) == s[i].from = t /\ s[i].thread = "group"

\* What the composer announced last it will take back in the same thread.
ComposersOK ==
    \A t \in Typist : \/ composer[t] = Silent
                      \/ /\ composer[t].target \in Thread /\ composer[t].idle \in Thread
                         /\ composer[t].target = "group" => composer[t].idle = "group"

\* Of a member who does not type in the group, and none of whose events was lost or
\* overtaken, each start under way is followed by another event; and when no event
\* is under way the label does not name them.
StartsFollowed ==
    \A t \in Typist \ amiss : composer[t].target # "group" =>
        /\ \A i \in 1 .. Len(pings) : GroupPing(pings, i, t) /\ pings[i].on =>
              \E j \in i + 1 .. Len(pings) : GroupPing(pings, j, t)
        /\ (\A i \in 1 .. Len(pings) : ~GroupPing(pings, i, t)) => t \notin typing["group"]

TypingIInv == TypingTypeOK /\ ComposersOK /\ StartsFollowed

\* What RemoveAt leaves of the events under way.
LEMMA RemoveFacts ==
  ASSUME NEW S, NEW s \in Seq(S), NEW i \in 1 .. Len(s)
  PROVE  /\ RemoveAt(s, i) \in Seq(S)
         /\ Len(RemoveAt(s, i)) = Len(s) - 1
         /\ \A j \in 1 .. Len(s) - 1 : RemoveAt(s, i)[j] = IF j < i THEN s[j] ELSE s[j + 1]
<1> DEFINE a == SubSeq(s, 1, i - 1)
           b == SubSeq(s, i + 1, Len(s))
<1>1. Len(s) \in Nat
  OBVIOUS
<1>2. a \in Seq(S) /\ Len(a) = i - 1 /\ \A j \in 1 .. i - 1 : a[j] = s[j]
  BY <1>1
<1>3. b \in Seq(S) /\ Len(b) = Len(s) - i /\ \A j \in 1 .. Len(s) - i : b[j] = s[j + i]
  BY <1>1
<1>4. RemoveAt(s, i) = a \o b
  BY DEF RemoveAt
<1> HIDE DEF a, b
<1>5. /\ a \o b \in Seq(S) /\ Len(a \o b) = Len(a) + Len(b)
      /\ \A j \in 1 .. Len(a) + Len(b) : (a \o b)[j] = IF j <= Len(a) THEN a[j] ELSE b[j - Len(a)]
  BY <1>2, <1>3, ConcatProperties
<1>6. ASSUME NEW j \in 1 .. Len(s) - 1 PROVE (a \o b)[j] = IF j < i THEN s[j] ELSE s[j + 1]
  <2>1. j \in 1 .. Len(a) + Len(b) /\ i \in Nat /\ j \in Nat
    BY <1>1, <1>2, <1>3
  <2>2. CASE j < i
    BY <1>2, <1>5, <2>1, <2>2
  <2>3. CASE j >= i
    <3>1. j - (i - 1) \in 1 .. Len(s) - i /\ (j - (i - 1)) + i = j + 1 /\ ~(j <= i - 1)
      BY <1>1, <2>1, <2>3
    <3>2. b[j - (i - 1)] = s[j + 1]
      BY <1>3, <3>1
    <3>3. QED
      BY <1>2, <1>5, <2>1, <2>3, <3>1, <3>2
  <2>4. QED
    BY <2>1, <2>2, <2>3
<1>7. a \o b \in Seq(S) /\ Len(a \o b) = Len(s) - 1
  BY <1>1, <1>2, <1>3, <1>5
<1>8. QED
  BY <1>4, <1>6, <1>7

\* An event sent last: the others keep their places.
LEMMA AppendFacts ==
  ASSUME NEW S, NEW s \in Seq(S), NEW e \in S
  PROVE  /\ Append(s, e) \in Seq(S)
         /\ Len(s) \in Nat /\ Len(Append(s, e)) = Len(s) + 1
         /\ \A j \in 1 .. Len(s) : Append(s, e)[j] = s[j]
         /\ Append(s, e)[Len(s) + 1] = e
OBVIOUS

\* One more event: a start if the typist's composer goes to the group, or an end.
LEMMA EmitFacts ==
  ASSUME TypingTypeOK, NEW t \in Typist, NEW thread \in Thread, NEW on \in BOOLEAN, Emit(t, thread, on)
  PROVE  /\ pings' \in Seq(Ping) /\ Len(pings) \in Nat /\ Len(pings') = Len(pings) + 1
         /\ Len(pings') <= MaxPings
         /\ \A j \in 1 .. Len(pings) : pings'[j] = pings[j]
         /\ LET e == pings'[Len(pings) + 1] IN e.from = t /\ e.thread = thread /\ e.on = on
<1> DEFINE e == [from |-> t, thread |-> thread, on |-> on]
<1>1. e \in Ping /\ e.from = t /\ e.thread = thread /\ e.on = on
  BY DEF Ping
<1>2. pings' = Append(pings, e) /\ pings \in Seq(Ping) /\ Len(pings) < MaxPings
  BY DEF Emit, TypingTypeOK
<1> HIDE DEF e
<1>3. /\ Append(pings, e) \in Seq(Ping)
      /\ Len(pings) \in Nat /\ Len(Append(pings, e)) = Len(pings) + 1
      /\ \A j \in 1 .. Len(pings) : Append(pings, e)[j] = pings[j]
      /\ Append(pings, e)[Len(pings) + 1] = e
  BY <1>1, <1>2, AppendFacts
<1>4. Len(pings) + 1 <= MaxPings
  BY <1>2, <1>3, TypingAssumption
<1>5. QED
  BY <1>1, <1>2, <1>3, <1>4

\* An event leaves, heard or lost.
LEMMA TakeFacts ==
  ASSUME TypingTypeOK, NEW i \in DOMAIN pings, pings' = RemoveAt(pings, i)
  PROVE  /\ Len(pings) \in Nat \ {0} /\ i \in 1 .. Len(pings) /\ pings[i] \in Ping
         /\ pings' \in Seq(Ping) /\ Len(pings') = Len(pings) - 1 /\ Len(pings') <= MaxPings
         /\ \A j \in 1 .. Len(pings) - 1 : pings'[j] = IF j < i THEN pings[j] ELSE pings[j + 1]
<1>1. pings \in Seq(Ping) /\ Len(pings) <= MaxPings /\ i \in 1 .. Len(pings) /\ Len(pings) \in Nat
  BY DEF TypingTypeOK
<1>2. /\ RemoveAt(pings, i) \in Seq(Ping) /\ Len(RemoveAt(pings, i)) = Len(pings) - 1
      /\ \A j \in 1 .. Len(pings) - 1 : RemoveAt(pings, i)[j] = IF j < i THEN pings[j] ELSE pings[j + 1]
  BY <1>1, RemoveFacts
<1>3. Len(pings) - 1 <= MaxPings
  BY <1>1, TypingAssumption
<1>4. pings[i] \in Ping
  BY <1>1
<1>5. QED
  BY <1>1, <1>2, <1>3, <1>4

\* An end of typing is announced.
LEMMA TypingEndStep ==
  ASSUME TypingIInv, NEW t \in Typist, NEW thread \in Thread, Emit(t, thread, FALSE),
         composer[t].target = "group" => thread = "group",
         composer' = [composer EXCEPT ![t] = Silent], UNCHANGED <<typing, clearing, amiss>>
  PROVE  TypingIInv'
<1> DEFINE n == Len(pings)
<1>1. /\ pings' \in Seq(Ping) /\ n \in Nat /\ Len(pings') = n + 1 /\ Len(pings') <= MaxPings
      /\ \A j \in 1 .. n : pings'[j] = pings[j]
      /\ pings'[n + 1].from = t /\ pings'[n + 1].thread = thread /\ pings'[n + 1].on = FALSE
  BY EmitFacts DEF TypingIInv
<1> HIDE DEF n
<1>2. Silent \in [target : Thread \cup {"none"}, idle : Thread \cup {"none"}] /\ Silent.target = "none"
  BY DEF Silent
<1>3. TypingTypeOK' /\ ComposersOK'
  BY <1>1, <1>2 DEF TypingIInv, TypingTypeOK, ComposersOK
<1>4. ASSUME NEW u \in Typist \ amiss, composer'[u].target # "group"
      PROVE  /\ \A i \in 1 .. n + 1 : GroupPing(pings', i, u) /\ pings'[i].on =>
                    \E j \in i + 1 .. n + 1 : GroupPing(pings', j, u)
             /\ (\A i \in 1 .. n + 1 : ~GroupPing(pings', i, u)) => u \notin typing["group"]
  <2>1. CASE u = t /\ thread = "group"
    <3>1. GroupPing(pings', n + 1, t)
      BY <1>1, <2>1 DEF GroupPing
    <3>2. QED
      BY <1>1, <2>1, <3>1
  <2>2. CASE ~(u = t /\ thread = "group")
    <3>1. composer[u].target # "group"
      BY <1>4, <2>2 DEF TypingIInv, TypingTypeOK
    <3>2. /\ \A i \in 1 .. n : GroupPing(pings, i, u) /\ pings[i].on =>
                \E j \in i + 1 .. n : GroupPing(pings, j, u)
          /\ (\A i \in 1 .. n : ~GroupPing(pings, i, u)) => u \notin typing["group"]
      BY <3>1 DEF TypingIInv, StartsFollowed, n
    <3>3. \A i \in 1 .. n : GroupPing(pings', i, u) <=> GroupPing(pings, i, u)
      BY <1>1 DEF GroupPing
    <3>4. ~GroupPing(pings', n + 1, u)
      BY <1>1, <2>2 DEF GroupPing
    <3>5. QED
      BY <1>1, <3>2, <3>3, <3>4
  <2>3. QED
    BY <2>1, <2>2
<1>5. QED
  BY <1>1, <1>3, <1>4 DEF TypingIInv, StartsFollowed

\* A keystroke: a start is announced, once per burst.
LEMMA KeystrokeStep ==
  ASSUME TypingIInv, NEW t \in Typist, NEW thread \in ThreadsOf(t), Keystroke(t, thread)
  PROVE  TypingIInv'
<1> DEFINE n == Len(pings)
           target == composer[t].target
           new == [target |-> IF target = "none" THEN thread ELSE target, idle |-> thread]
<1>1. thread \in Thread /\ target \in Thread \cup {"none"}
  BY DEF ThreadsOf, Thread, TypingIInv, TypingTypeOK
<1>2. /\ new \in [target : Thread \cup {"none"}, idle : Thread \cup {"none"}]
      /\ new.target = (IF target = "none" THEN thread ELSE target) /\ new.idle = thread
      /\ composer' = [composer EXCEPT ![t] = new] /\ UNCHANGED <<typing, clearing, amiss>>
  BY <1>1 DEF Keystroke
<1>3. /\ target = "none" => Emit(t, thread, TRUE)
      /\ target # "none" => pings' = pings
      /\ target \in {"none", thread} \/ thread = "group"
  BY DEF Keystroke
<1>4. /\ composer \in [Typist -> [target : Thread \cup {"none"}, idle : Thread \cup {"none"}]]
      /\ pings \in Seq(Ping) /\ n \in Nat /\ n <= MaxPings
  BY DEF TypingIInv, TypingTypeOK
<1>5. CASE target # "none"
  <2>1. TypingTypeOK'
    BY <1>2, <1>3, <1>5 DEF TypingIInv, TypingTypeOK
  <2>2. new.target \in Thread /\ new.idle \in Thread /\ (new.target = "group" => new.idle = "group")
    BY <1>1, <1>2, <1>3, <1>5
  <2> HIDE DEF new
  <2>3. ComposersOK'
    BY <1>2, <1>4, <2>2 DEF TypingIInv, ComposersOK
  <2>4. \A u \in Typist : composer'[u].target = composer[u].target
    BY <1>2, <1>4, <1>5
  <2>5. StartsFollowed'
    BY <1>2, <1>3, <1>5, <2>4 DEF TypingIInv, StartsFollowed, GroupPing
  <2>6. QED
    BY <2>1, <2>3, <2>5 DEF TypingIInv
<1>6. CASE target = "none"
  <2>1. /\ pings' \in Seq(Ping) /\ Len(pings') = n + 1 /\ Len(pings') <= MaxPings
        /\ \A j \in 1 .. n : pings'[j] = pings[j]
        /\ pings'[n + 1].from = t /\ pings'[n + 1].thread = thread
    BY <1>1, <1>3, <1>6, EmitFacts DEF TypingIInv
  <2>2. TypingTypeOK'
    BY <1>2, <2>1 DEF TypingIInv, TypingTypeOK
  <2>3. new.target = thread /\ new.idle = thread
    BY <1>2, <1>6
  <2> HIDE DEF new, n
  <2>4. ComposersOK'
    BY <1>1, <1>2, <1>4, <2>3 DEF TypingIInv, ComposersOK
  <2>5. ASSUME NEW u \in Typist \ amiss, composer'[u].target # "group"
        PROVE  /\ \A i \in 1 .. n + 1 : GroupPing(pings', i, u) /\ pings'[i].on =>
                      \E j \in i + 1 .. n + 1 : GroupPing(pings', j, u)
               /\ (\A i \in 1 .. n + 1 : ~GroupPing(pings', i, u)) => u \notin typing["group"]
    <3>1. composer[u].target # "group"
      BY <1>2, <1>4, <1>6, <2>5
    <3>2. /\ \A i \in 1 .. n : GroupPing(pings, i, u) /\ pings[i].on =>
                \E j \in i + 1 .. n : GroupPing(pings, j, u)
          /\ (\A i \in 1 .. n : ~GroupPing(pings, i, u)) => u \notin typing["group"]
      BY <3>1 DEF TypingIInv, StartsFollowed, n
    <3>3. \A i \in 1 .. n : GroupPing(pings', i, u) <=> GroupPing(pings, i, u)
      BY <2>1 DEF GroupPing
    <3>4. ~(u = t /\ thread = "group")
      BY <1>2, <1>4, <2>3, <2>5
    <3>5. ~GroupPing(pings', n + 1, u)
      BY <2>1, <3>4 DEF GroupPing
    <3>6. n \in Nat
      BY <1>4
    <3>7. \A i \in 1 .. n : pings'[i].on = pings[i].on
      BY <2>1
    <3>8. QED
      BY <3>2, <3>3, <3>5, <3>6, <3>7
  <2>6. StartsFollowed'
    BY <1>2, <2>1, <2>5 DEF StartsFollowed
  <2>7. QED
    BY <2>2, <2>4, <2>6 DEF TypingIInv
<1>7. QED
  BY <1>5, <1>6

\* An event leaves; unless its typist is amiss, it was the typist's first in the group.
LEMMA TakeStep ==
  ASSUME TypingIInv, NEW i \in DOMAIN pings, pings' = RemoveAt(pings, i),
         UNCHANGED composer, typing' \in [Thread -> SUBSET Typist],
         clearing' \in [Thread -> Typist \cup {"none"}], amiss' \subseteq Typist, amiss \subseteq amiss',
         \A u \in Typist \ amiss' :
            /\ u # pings[i].from \/ pings[i].thread # "group" =>
                  (u \in typing'["group"] => u \in typing["group"])
            /\ u = pings[i].from /\ pings[i].thread = "group" =>
                  /\ \A j \in 1 .. i - 1 : ~GroupPing(pings, j, u)
                  /\ u \in typing'["group"] => pings[i].on
  PROVE  TypingIInv'
<1> DEFINE n == Len(pings)
<1>1. /\ n \in Nat \ {0} /\ i \in 1 .. n /\ pings[i] \in Ping
      /\ pings' \in Seq(Ping) /\ Len(pings') = n - 1 /\ Len(pings') <= MaxPings
      /\ \A j \in 1 .. n - 1 : pings'[j] = IF j < i THEN pings[j] ELSE pings[j + 1]
  BY TakeFacts DEF TypingIInv
<1> HIDE DEF n
<1>2. TypingTypeOK' /\ ComposersOK'
  BY <1>1 DEF TypingIInv, TypingTypeOK, ComposersOK
<1>3. ASSUME NEW u \in Typist \ amiss', composer[u].target # "group"
      PROVE  /\ \A k \in 1 .. n - 1 : GroupPing(pings', k, u) /\ pings'[k].on =>
                    \E j \in k + 1 .. n - 1 : GroupPing(pings', j, u)
             /\ (\A k \in 1 .. n - 1 : ~GroupPing(pings', k, u)) => u \notin typing'["group"]
  <2>1. /\ \A k \in 1 .. n : GroupPing(pings, k, u) /\ pings[k].on =>
              \E j \in k + 1 .. n : GroupPing(pings, j, u)
        /\ (\A k \in 1 .. n : ~GroupPing(pings, k, u)) => u \notin typing["group"]
    BY <1>3 DEF TypingIInv, StartsFollowed, n
  <2>2. /\ \A k \in 1 .. n - 1 : k < i => (GroupPing(pings', k, u) <=> GroupPing(pings, k, u)) /\ pings'[k].on = pings[k].on
        /\ \A k \in 1 .. n - 1 : k >= i => (GroupPing(pings', k, u) <=> GroupPing(pings, k + 1, u)) /\ pings'[k].on = pings[k + 1].on
    BY <1>1 DEF GroupPing
  <2>3. \A j \in 1 .. n : GroupPing(pings, j, u) /\ j # i => \E k \in 1 .. n - 1 : GroupPing(pings', k, u)
    <3> SUFFICES ASSUME NEW j \in 1 .. n, GroupPing(pings, j, u), j # i
                 PROVE  \E k \in 1 .. n - 1 : GroupPing(pings', k, u)
      OBVIOUS
    <3>1. CASE j < i
      BY <1>1, <2>2, <3>1
    <3>2. CASE j > i
      <4>1. j - 1 \in 1 .. n - 1 /\ j - 1 >= i /\ (j - 1) + 1 = j
        BY <1>1, <3>2
      <4>2. QED
        BY <2>2, <4>1
    <3>3. QED
      BY <1>1, <3>1, <3>2
  <2>4. CASE GroupPing(pings, i, u)
    <3>1. /\ \A j \in 1 .. i - 1 : ~GroupPing(pings, j, u)
          /\ u \in typing'["group"] => pings[i].on
      BY <1>3, <2>4 DEF GroupPing
    <3>2. \A k \in 1 .. n - 1 : GroupPing(pings', k, u) => k >= i
      BY <1>1, <2>2, <3>1
    <3>3. ASSUME NEW k \in 1 .. n - 1, GroupPing(pings', k, u), pings'[k].on
          PROVE  \E j \in k + 1 .. n - 1 : GroupPing(pings', j, u)
      <4>1. k >= i /\ k + 1 \in 1 .. n /\ GroupPing(pings, k + 1, u) /\ pings[k + 1].on
        BY <1>1, <2>2, <3>2, <3>3
      <4>2. PICK j \in k + 2 .. n : GroupPing(pings, j, u)
        BY <1>1, <2>1, <4>1
      <4>3. j - 1 \in k + 1 .. n - 1 /\ j - 1 \in 1 .. n - 1 /\ j - 1 >= i /\ (j - 1) + 1 = j
        BY <1>1, <4>1, <4>2
      <4>4. QED
        BY <2>2, <4>2, <4>3
    <3>4. ASSUME u \in typing'["group"] PROVE \E k \in 1 .. n - 1 : GroupPing(pings', k, u)
      <4>1. PICK j \in i + 1 .. n : GroupPing(pings, j, u)
        BY <1>1, <2>1, <2>4, <3>1, <3>4
      <4>2. QED
        BY <1>1, <2>3, <4>1
    <3>5. QED
      BY <3>3, <3>4
  <2>5. CASE ~GroupPing(pings, i, u)
    <3>1. u \in typing'["group"] => u \in typing["group"]
      BY <1>3, <2>5 DEF GroupPing
    <3>2. ASSUME NEW k \in 1 .. n - 1, GroupPing(pings', k, u), pings'[k].on
          PROVE  \E j \in k + 1 .. n - 1 : GroupPing(pings', j, u)
      <4>1. PICK m \in 1 .. n : /\ GroupPing(pings, m, u) /\ pings[m].on
                                /\ m = IF k < i THEN k ELSE k + 1
        BY <1>1, <2>2, <3>2
      <4>2. PICK j \in m + 1 .. n : GroupPing(pings, j, u)
        BY <2>1, <4>1
      <4>3. j # i
        BY <2>5, <4>2
      <4>4. CASE j < i
        <5>1. j \in k + 1 .. n - 1 /\ j \in 1 .. n - 1
          BY <1>1, <4>1, <4>2, <4>4
        <5>2. QED
          BY <2>2, <4>2, <4>4, <5>1
      <4>5. CASE j > i
        <5>1. j - 1 \in k + 1 .. n - 1 /\ j - 1 \in 1 .. n - 1 /\ j - 1 >= i /\ (j - 1) + 1 = j
          BY <1>1, <4>1, <4>2, <4>5
        <5>2. QED
          BY <2>2, <4>2, <5>1
      <4>6. QED
        BY <1>1, <4>2, <4>3, <4>4, <4>5
    <3>3. (\A k \in 1 .. n - 1 : ~GroupPing(pings', k, u)) => u \notin typing["group"]
      BY <2>1, <2>3, <2>5
    <3>4. QED
      BY <3>1, <3>2, <3>3
  <2>6. QED
    BY <2>4, <2>5
<1>4. StartsFollowed'
  BY <1>1, <1>3 DEF StartsFollowed
<1>5. QED
  BY <1>2, <1>4 DEF TypingIInv

\* Every step keeps the strengthening.
LEMMA TypingStep ==
  TypingIInv /\ [TypingNext]_typingVars => TypingIInv'
<1> SUFFICES ASSUME TypingIInv, [TypingNext]_typingVars PROVE TypingIInv'
  OBVIOUS
<1>0. TypingTypeOK /\ ComposersOK
  BY DEF TypingIInv
<1>1. ASSUME NEW t \in Typist, StopTyping(t) PROVE TypingIInv'
  <2>1. composer[t].target \in Thread
    BY <1>0, <1>1 DEF StopTyping, ComposersOK
  <2>2. QED
    BY <1>1, <2>1, TypingEndStep DEF StopTyping
<1>2. ASSUME NEW t \in Typist, IdleTimeout(t) PROVE TypingIInv'
  <2>1. composer[t].idle \in Thread /\ (composer[t].target = "group" => composer[t].idle = "group")
    BY <1>0, <1>2 DEF IdleTimeout, ComposersOK, Silent
  <2>2. QED
    BY <1>2, <2>1, TypingEndStep DEF IdleTimeout
<1>3. ASSUME NEW t \in Typist, CloseComposer(t) PROVE TypingIInv'
  <2>1. Silent \in [target : Thread \cup {"none"}, idle : Thread \cup {"none"}]
    BY DEF Silent
  <2>2. TypingTypeOK' /\ ComposersOK'
    BY <1>0, <1>3, <2>1 DEF CloseComposer, TypingTypeOK, ComposersOK
  <2>3. \A u \in Typist \ amiss' : u \notin amiss /\ (composer'[u].target # "group" => composer[u].target # "group")
    BY <1>0, <1>3 DEF CloseComposer, TypingTypeOK
  <2>4. StartsFollowed'
    BY <1>3, <2>3 DEF TypingIInv, CloseComposer, StartsFollowed, GroupPing
  <2>5. QED
    BY <2>2, <2>4 DEF TypingIInv
<1>4. ASSUME NEW t \in Typist, NEW thread \in ThreadsOf(t), Keystroke(t, thread) PROVE TypingIInv'
  BY <1>4, KeystrokeStep
<1>5. ASSUME NEW i \in DOMAIN pings, LosePing(i) PROVE TypingIInv'
  <2>1. pings[i] \in Ping
    BY <1>0, <1>5, TakeFacts DEF LosePing
  <2>2. pings[i].from \in Typist
    BY <2>1 DEF Ping
  <2>3. /\ typing' \in [Thread -> SUBSET Typist] /\ clearing' \in [Thread -> Typist \cup {"none"}]
        /\ amiss' \subseteq Typist /\ amiss \subseteq amiss'
        /\ pings[i].thread = "group" => pings[i].from \in amiss'
    BY <1>0, <1>5, <2>2 DEF LosePing, TypingTypeOK
  <2>4. QED
    BY <1>5, <2>3, TakeStep DEF LosePing
<1>6. ASSUME NEW i \in DOMAIN pings, HearPing(i) PROVE TypingIInv'
  <2> DEFINE p == pings[i]
  <2>1. pings' = RemoveAt(pings, i) /\ UNCHANGED composer
    BY <1>6 DEF HearPing
  <2>2. p \in Ping /\ i \in 1 .. Len(pings) /\ Len(pings) \in Nat
    BY <1>0, <2>1, TakeFacts
  <2>3. p.from \in Typist /\ p.thread \in Thread /\ p.on \in BOOLEAN
    BY <2>2 DEF Ping
  <2>4. /\ typing' \in [Thread -> SUBSET Typist] /\ clearing' \in [Thread -> Typist \cup {"none"}]
        /\ amiss' \subseteq Typist /\ amiss \subseteq amiss'
        /\ Earlier(i) # {} => p.from \in amiss'
    BY <1>0, <1>6, <2>3 DEF HearPing, TypingTypeOK
  <2>5. "group" \in Thread /\ typing \in [Thread -> SUBSET Typist]
    BY <1>0 DEF Thread, TypingTypeOK
  <2>6. ASSUME NEW u \in Typist \ amiss', u # p.from \/ p.thread # "group", u \in typing'["group"]
        PROVE  u \in typing["group"]
    BY <1>6, <2>3, <2>5, <2>6 DEF HearPing
  <2>7. ASSUME NEW u \in Typist \ amiss', u = p.from, p.thread = "group"
        PROVE  /\ \A j \in 1 .. i - 1 : ~GroupPing(pings, j, u)
               /\ u \in typing'["group"] => p.on
    <3>1. Earlier(i) = {}
      BY <2>4, <2>7
    <3>2. \A j \in 1 .. i - 1 : ~GroupPing(pings, j, u)
      BY <2>7, <3>1 DEF Earlier, GroupPing
    <3>3. u \in typing'["group"] => p.on
      BY <1>6, <2>3, <2>5, <2>7 DEF HearPing
    <3>4. QED
      BY <3>2, <3>3
  <2>8. QED
    BY <2>1, <2>4, <2>6, <2>7, TakeStep
<1>7. ASSUME NEW k \in Thread, ClearTimeout(k) PROVE TypingIInv'
  <2>1. "group" \in Thread
    BY DEF Thread
  <2>2. /\ typing' \in [Thread -> SUBSET Typist] /\ clearing' \in [Thread -> Typist \cup {"none"}]
        /\ \A u \in Typist : u \in typing'["group"] => u \in typing["group"]
    BY <1>0, <1>7, <2>1 DEF ClearTimeout, TypingTypeOK
  <2>3. TypingTypeOK' /\ ComposersOK'
    BY <1>0, <1>7, <2>2 DEF ClearTimeout, TypingTypeOK, ComposersOK
  <2>4. StartsFollowed'
    BY <1>7, <2>2 DEF TypingIInv, ClearTimeout, StartsFollowed, GroupPing
  <2>5. QED
    BY <2>3, <2>4 DEF TypingIInv
<1>8. CASE UNCHANGED typingVars
  BY <1>0, <1>8 DEF TypingIInv, typingVars, TypingTypeOK, ComposersOK, StartsFollowed, GroupPing
<1>9. QED
  BY <1>1, <1>2, <1>3, <1>4, <1>5, <1>6, <1>7, <1>8 DEF TypingNext

\* Composers and the events under way are as TypingIInv says in every reachable state.
THEOREM TypingInv == TypingSpec => []TypingIInv
<1>1. TypingInit => TypingIInv
  <2> SUFFICES ASSUME TypingInit PROVE TypingIInv
    OBVIOUS
  <2>1. pings \in Seq(Ping) /\ Len(pings) <= MaxPings /\ Len(pings) = 0
    BY TypingAssumption DEF TypingInit
  <2>2. Silent \in [target : Thread \cup {"none"}, idle : Thread \cup {"none"}]
    BY DEF Silent
  <2>3. typing["group"] = {}
    BY DEF TypingInit, Thread
  <2>4. QED
    BY <2>1, <2>2, <2>3 DEF TypingInit, TypingIInv, TypingTypeOK, ComposersOK, StartsFollowed
<1>2. QED
  BY <1>1, TypingStep, PTL DEF TypingSpec

\* A member who stopped typing in the group is not shown as typing there for ever,
\* unless an event was lost or overtaken (onTypingUpdate, page.tsx).
THEOREM StopIsShown == TypingSpec => []StoppedNotShown
<1>1. TypingIInv => StoppedNotShown
  BY DEF TypingIInv, TypingTypeOK, StartsFollowed, GroupPing, StoppedNotShown
<1>2. QED
  BY <1>1, TypingInv, PTL
=============================================================================
