------------------------------ MODULE Accounts ------------------------------
(***************************************************************************)
(* One user name and its e-mail address: registration, verification,       *)
(* login, password reset and deletion (auth.controller.ts), and what the   *)
(* forms of the client show for each answer (register, login and           *)
(* forgot-password pages, VerifyCodeForm).                                  *)
(*                                                                         *)
(* Every handler reads the row, then mails or hashes, then writes, so that *)
(* the handlers of a second tab or device, or of a form submitted again,   *)
(* interleave with it.  A code is named by the request that generated it:  *)
(* two codes are taken to differ.  Passwords are taken to be right.        *)
(***************************************************************************)
EXTENDS Naturals, Sequences

CONSTANT Requests  \* bound: HTTP requests made

ASSUME AccountAssumption == Requests \in Nat

VARIABLES
    account,  \* the User row; id = 0 when there is none
    request,  \* how far each request is
    mails,    \* codes mailed, by kind, in the order of the mailer's calls
    crossed   \* two requests about codes of a kind overlapped, or the write
              \* after a mail failed (auxiliary)

accountVars == <<account, request, mails, crossed>>

Req == 1 .. Requests
Code == 0 .. Requests
Kind == {"verify", "reset"}
Mailing == {"register", "resend", "login", "forgot"}
Entering == {"verify", "reset"}
AccountOp == Mailing \cup Entering \cup {"delete"}

\* The code an operation generates or takes.
KindOf(op) == IF op \in {"forgot", "reset"} THEN "reset" ELSE "verify"

NoAccount ==
    [id |-> 0, verified |-> FALSE,
     code |-> [k \in Kind |-> 0], fresh |-> [k \in Kind |-> FALSE]]

NewRequest == [op |-> "none", at |-> "new", id |-> 0, code |-> 0]

AccountTypeOK ==
    /\ account \in [id : Code, verified : BOOLEAN,
                    code : [Kind -> Code], fresh : [Kind -> BOOLEAN]]
    /\ request \in [Req -> [op : AccountOp \cup {"none"},
                            at : {"new", "sent", "looked", "mailed", "form", "in", "done", "failed"},
                            id : Code, code : Code]]
    /\ mails \in [Kind -> Seq(Req)]
    /\ crossed \in [Kind -> BOOLEAN]

AccountInit ==
    /\ account = NoAccount
    /\ request = [r \in Req |-> NewRequest]
    /\ mails = [k \in Kind |-> <<>>]
    /\ crossed = [k \in Kind |-> FALSE]

-----------------------------------------------------------------------------
Exists == account.id # 0

MailedCodes(k) == {mails[k][i] : i \in 1 .. Len(mails[k])}

\* The request r moves on; "form" and "in" are the answers that make the client
\* show the code form or enter the chat, "failed" the ones it shows as an error.
Goes(r, to) == request' = [request EXCEPT ![r].at = to]

\* A form is submitted, or "resend" is tapped; codes are taken from the mails.
Submit(r, op, code) ==
    /\ request[r].at = "new"
    /\ \A q \in Req : q < r => request[q].at # "new"
    /\ code \in (IF op \in Entering THEN MailedCodes(KindOf(op)) ELSE {0})
    /\ request' = [request EXCEPT ![r] = [op |-> op, at |-> "sent", id |-> 0, code |-> code]]
    /\ UNCHANGED <<account, mails, crossed>>

\* The checks that follow findUnique, and what passes them.
Admits(op, code) ==
    \/ op = "register" /\ ~Exists
    \/ op \in {"resend", "login"} /\ Exists /\ ~account.verified
    \/ op \in {"forgot", "delete"} /\ Exists
    \/ op = "verify" /\ Exists /\ ~account.verified
    \/ op = "reset" /\ Exists

CodeGood(op, code) ==
    op \in Entering => account.code[KindOf(op)] = code /\ account.fresh[KindOf(op)]

\* A verified account logs in, and is let in by any code.
SignsInAtOnce(op) == op \in {"login", "verify"} /\ Exists /\ account.verified

\* findUnique and the checks after it.
LookAt(r) ==
    LET q == request[r] IN
    /\ q.at = "sent"
    /\ \/ /\ Admits(q.op, q.code) /\ CodeGood(q.op, q.code)
          /\ request' = [request EXCEPT ![r].at = "looked", ![r].id = account.id]
       \/ SignsInAtOnce(q.op) /\ Goes(r, "in")
       \/ /\ ~SignsInAtOnce(q.op)
          /\ ~(Admits(q.op, q.code) /\ CodeGood(q.op, q.code))
          /\ Goes(r, "failed")
    /\ UNCHANGED <<account, mails, crossed>>

\* Login swallows the failure of its mail or write and shows the form anyway.
Fails(r) == Goes(r, IF request[r].op = "login" THEN "form" ELSE "failed")

\* The mailer accepts the message or not.
MailCode(r) ==
    LET k == KindOf(request[r].op) IN
    /\ request[r].at = "looked" /\ request[r].op \in Mailing
    /\ \/ /\ mails' = [mails EXCEPT ![k] = Append(@, r)]
          /\ crossed' = [crossed EXCEPT ![k] = @ \/ \E q \in Req :
                request[q].at = "mailed" /\ KindOf(request[q].op) = k]
          /\ Goes(r, "mailed")
       \/ Fails(r) /\ UNCHANGED <<mails, crossed>>
    /\ UNCHANGED account

\* The row a mailing request writes, if the database lets it: create refuses a
\* taken name, update a row that is gone.
Written(r) ==
    LET k == KindOf(request[r].op) IN
    IF request[r].op = "register"
    THEN [NoAccount EXCEPT !.id = r, !.code[k] = r, !.fresh[k] = TRUE]
    ELSE [account EXCEPT !.code[k] = r, !.fresh[k] = TRUE]

StoreCode(r) ==
    LET k == KindOf(request[r].op) IN
    /\ request[r].at = "mailed"
    /\ \/ /\ account.id = request[r].id
          /\ account' = Written(r)
          /\ Goes(r, "form")
          /\ UNCHANGED crossed
       \/ /\ crossed' = [crossed EXCEPT ![k] = TRUE]
          /\ Fails(r)
          /\ UNCHANGED account
    /\ UNCHANGED mails

\* Mutation: a code that was used is not cleared.
UseCodeKeeping(r) ==
    LET q == request[r]  k == KindOf(q.op) IN
    /\ q.at = "looked" /\ q.op \in Entering
    /\ account.id = q.id
    /\ account' = [account EXCEPT !.verified = @ \/ k = "verify"]
    /\ Goes(r, "in")
    /\ UNCHANGED <<mails, crossed>>

\* verifyEmail and resetPassword write what they decided on the row they read.
UseCode(r) ==
    LET q == request[r]  k == KindOf(q.op) IN
    /\ q.at = "looked" /\ q.op \in Entering
    /\ \/ /\ account.id = q.id
          /\ account' = [account EXCEPT !.verified = @ \/ k = "verify",
                                        !.code[k] = 0, !.fresh[k] = FALSE]
          /\ crossed' = [crossed EXCEPT ![k] = @ \/ account.code[k] # q.code]
          /\ Goes(r, "in")
       \/ /\ account.id # q.id
          /\ Goes(r, "failed")
          /\ UNCHANGED <<account, crossed>>
    /\ UNCHANGED mails

\* deleteAccount, after the password was compared.
RemoveAccount(r) ==
    /\ request[r].at = "looked" /\ request[r].op = "delete"
    /\ \/ account.id = request[r].id /\ account' = NoAccount /\ Goes(r, "done")
       \/ account.id # request[r].id /\ UNCHANGED account /\ Goes(r, "failed")
    /\ UNCHANGED <<mails, crossed>>

\* Ten minutes have passed since the code was stored.
ExpireCode(k) ==
    /\ account.fresh[k]
    /\ account' = [account EXCEPT !.fresh[k] = FALSE]
    /\ UNCHANGED <<request, mails, crossed>>

AccountNext ==
    \/ \E r \in Req :
        \/ \E op \in AccountOp, code \in Code : Submit(r, op, code)
        \/ LookAt(r) \/ MailCode(r) \/ StoreCode(r) \/ UseCode(r) \/ RemoveAccount(r)
    \/ \E k \in Kind : ExpireCode(k)

AccountSpec == AccountInit /\ [][AccountNext]_accountVars

-----------------------------------------------------------------------------
(* What must hold. *)

\* No request is between its mail, or the check of a code, and its write.
Settled == \A r \in Req : request[r].at \notin {"looked", "mailed"}

Newest(k) == mails[k][Len(mails[k])]

SpentBy(k, code) ==
    {r \in Req : request[r].op = k /\ request[r].at = "in" /\ request[r].code = code}

\* When no request is under way, the code of the newest mail is the one that
\* opens an unverified account, and the newest reset code that was not used is
\* the one that resets the password -- unless requests for codes of that kind
\* overlapped, or the write after a mail failed.
NewestCodeWorks ==
    Settled /\ Exists =>
        /\ ~account.verified /\ ~crossed["verify"] =>
              account.code["verify"] = Newest("verify")
        /\ account.code["reset"] # 0 /\ ~crossed["reset"] =>
              account.code["reset"] = Newest("reset") /\ SpentBy("reset", Newest("reset")) = {}

\* A reset code lets one request in, unless two requests that carry it, or one
\* and a new code, overlapped.
CodeSpentOnce ==
    \A r, q \in Req :
        /\ request[r].op = "reset" /\ request[r].at = "in"
        /\ request[q].op = "reset" /\ request[q].at = "in"
        /\ request[r].code = request[q].code /\ r # q
        => crossed["reset"]

\* Codes keep both promises.
CodesSound == NewestCodeWorks /\ CodeSpentOnce
=============================================================================
