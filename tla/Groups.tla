------------------------------- MODULE Groups -------------------------------
(***************************************************************************)
(* One group: its members and roles on the server (groups.controller.ts),  *)
(* the copies of the roster a page keeps (page.tsx, localDb.ts), and the   *)
(* messages sent to such a copy, tagged with the group by the relay if the *)
(* sender is still a member (signal.gateway.ts).                           *)
(*                                                                         *)
(* A page has three copies: the stored one, the list read from it at each  *)
(* refreshGroups, and the open thread's.  A request is a membership check, *)
(* a write, for "add" a second read, and an answer the page applies to the *)
(* copy it showed when the button was tapped.  Names, avatars, the cap of  *)
(* 50 members and the deletion of a thread on the device are left out.     *)
(***************************************************************************)
EXTENDS Naturals, FiniteSets

CONSTANTS
    User,
    Followed, \* those whose page is followed; of the others, requests and messages,
              \* and the end of their accounts
    Changes   \* bound: roster changes asked for, and accounts deleted

ASSUME GroupAssumption == Followed \subseteq User /\ Changes \in Nat

VARIABLES
    role,      \* the GroupMember rows
    disk,      \* each page's stored copy of the group, if it has one
    cache,     \* the copy in the list: groups, groupsRef
    shown,     \* the open thread's copy: activeGroup
    held,      \* the copy an upsertGroup under way is going to store
    mail,      \* pages a message of the group waits for
    change,    \* the requests to change the group
    refresh,   \* rosters a page fetches: listGroups at a load, getGroup
    diverged,  \* pages that were told no newer roster (auxiliary)
    undone     \* pages that put an older copy over a newer one (auxiliary)

groupVars == <<role, disk, cache, shown, held, mail, change, refresh, diverged, undone>>

Roles == {"none", "MEMBER", "ADMIN"}
RosterOf == [User -> Roles]
NoRoster == [u \in User |-> "none"]
In(r) == {u \in User : r[u] \in {"MEMBER", "ADMIN"}}

\* The members a query answers with; the account of a "gone" user was deleted.
Listed == [u \in User |-> IF u \in In(role) THEN role[u] ELSE "none"]

Changing == 1 .. Changes
ChangeOp == {"add", "remove", "promote", "demote"}
Blank(at) == [at |-> at, op |-> "add", by |-> "", who |-> "", seen |-> NoRoster]

Fetch == {"list", "one"}
NoFetch == [at |-> "idle", got |-> NoRoster]
Fetching(u) == {k \in Fetch : refresh[u][k].at # "idle"}

GroupTypeOK ==
    /\ role \in [User -> Roles \cup {"gone"}]
    /\ disk \in [Followed -> RosterOf] /\ cache \in [Followed -> RosterOf]
    /\ shown \in [Followed -> RosterOf] /\ held \in [Followed -> RosterOf]
    /\ mail \subseteq Followed
    /\ change \in [Changing -> [at : {"new", "sent", "allowed", "written", "answered", "over"},
                                op : ChangeOp, by : User \cup {""}, who : User \cup {""}, seen : RosterOf]]
    /\ refresh \in [Followed -> [Fetch -> [at : {"idle", "asked", "fetched"}, got : RosterOf]]]
    /\ diverged \in [Followed -> BOOLEAN] /\ undone \in [Followed -> BOOLEAN]

GroupInit ==
    /\ role = NoRoster
    /\ disk = [u \in Followed |-> NoRoster] /\ cache = disk /\ shown = disk /\ held = disk
    /\ mail = {}
    /\ change = [c \in Changing |-> Blank("new")]
    /\ refresh = [u \in Followed |-> [k \in Fetch |-> NoFetch]]
    /\ diverged = [u \in Followed |-> FALSE] /\ undone = diverged

-----------------------------------------------------------------------------
\* The group exists: createGroup with the users picked; its answer is stored,
\* listed and opened.
CreateGroup(u, others) ==
    LET rows == [v \in User |-> IF v = u THEN "ADMIN" ELSE IF v \in others THEN "MEMBER" ELSE "none"] IN
    /\ role = NoRoster
    /\ \A v \in Followed : disk[v] = NoRoster
    /\ others # {} /\ u \notin others
    /\ role' = rows
    /\ disk' = [v \in Followed |-> IF v = u THEN rows ELSE disk[v]]
    /\ cache' = [v \in Followed |-> IF v = u THEN rows ELSE cache[v]]
    /\ shown' = [v \in Followed |-> IF v = u THEN rows ELSE shown[v]]
    /\ UNCHANGED <<held, mail, change, refresh, diverged, undone>>

NextChange(c) == change[c].at = "new" /\ \A d \in Changing : d < c => change[d].at # "new"

copyVars == <<disk, cache, shown, held>>

Pending(u) == {c \in Changing : change[c].by = u /\ change[c].at \notin {"new", "over"}}

\* The modal of the open thread offers to whom it shows as admin: adding anyone
\* by name, removing the others it shows and changing their roles; leaving to
\* everyone.
Offered(u, op, v) ==
    \/ op = "add" /\ shown[u][u] = "ADMIN"
    \/ op = "remove" /\ v = u /\ u \in In(shown[u])
    \/ /\ op \in {"remove", "promote", "demote"} /\ shown[u][u] = "ADMIN"
       /\ v \in In(shown[u]) \ {u}
       /\ op = "promote" => shown[u][v] = "MEMBER"
       /\ op = "demote" => shown[u][v] = "ADMIN"

\* A button of the modal is tapped, perhaps while an earlier request runs.
AskChange(c, u, op, v) ==
    /\ NextChange(c)
    /\ Offered(u, op, v)
    /\ change' = [change EXCEPT ![c] = [at |-> "sent", op |-> op, by |-> u, who |-> v, seen |-> shown[u]]]
    /\ diverged' = [diverged EXCEPT ![u] = @ \/ Pending(u) # {} \/ Fetching(u) # {}]
    /\ UNCHANGED <<role, copyVars, mail, refresh, undone>>

\* A page that is not followed may offer anything its copy was ever right about.
AskElsewhere(c, u, op, v) ==
    /\ u \notin Followed
    /\ NextChange(c)
    /\ change' = [change EXCEPT ![c] = [at |-> "sent", op |-> op, by |-> u, who |-> v, seen |-> NoRoster]]
    /\ UNCHANGED <<role, copyVars, mail, refresh, diverged, undone>>

\* A request moves on; of one that is over nothing is kept.
At(c, here, there) ==
    /\ change[c].at = here
    /\ change' = [change EXCEPT ![c] = IF there = "over" THEN Blank("over") ELSE [@ EXCEPT !.at = there]]

\* requireAdmin, which leaving does not need; a refusal changes nothing.
CheckAdmin(c) ==
    LET may == role[change[c].by] = "ADMIN" \/ (change[c].op = "remove" /\ change[c].who = change[c].by) IN
    /\ change[c].at = "sent"
    /\ At(c, "sent", IF may THEN "allowed" ELSE "over")
    /\ UNCHANGED <<role, copyVars, mail, refresh, diverged, undone>>

\* The row the write leaves for the member: upsert with an empty update,
\* deleteMany, or update.
NewRole(op, old) ==
    CASE op = "add" -> IF old = "none" THEN "MEMBER" ELSE old
      [] op = "remove" -> IF old = "gone" THEN old ELSE "none"
      [] op = "promote" -> "ADMIN"
      [] op = "demote" -> "MEMBER"

\* Who need not have the current roster after a write by u: everybody else, and
\* u too when its page has gone.
Outdated(u, orphan) == [v \in Followed |-> diverged[v] \/ v # u \/ orphan]

WriteChange(c) ==
    LET q == change[c]
        orphan == q.seen = NoRoster
        missing == \/ q.op \in {"promote", "demote"} /\ q.who \notin In(role)
                   \/ q.op = "add" /\ role[q.who] = "gone" IN
    /\ q.at = "allowed"
    /\ \/ /\ ~missing
          /\ At(c, "allowed", IF orphan THEN "over" ELSE IF q.op = "add" THEN "written" ELSE "answered")
          /\ role' = [role EXCEPT ![q.who] = NewRole(q.op, @)]
          /\ diverged' = IF role' = role /\ ~orphan THEN diverged ELSE Outdated(q.by, orphan)
       \/ /\ missing
          /\ At(c, "allowed", "over")
          /\ UNCHANGED <<role, diverged>>
    /\ UNCHANGED <<copyVars, mail, refresh, undone>>

\* addMember reads the group again for its answer.
ReadBack(c) ==
    /\ change[c].at = "written"
    /\ change' = [change EXCEPT ![c].at = "answered",
                                ![c].seen = Listed]
    /\ UNCHANGED <<role, copyVars, mail, refresh, diverged, undone>>

\* A request or its answer is lost, or fails on the server: the page keeps its
\* copies, whatever has been written.
LoseAnswer(c) ==
    LET q == change[c] IN
    /\ q.at \in {"sent", "written", "answered"} /\ q.seen # NoRoster
    /\ At(c, q.at, "over")
    /\ diverged' = [diverged EXCEPT ![q.by] = @ \/ q.at # "sent"]
    /\ UNCHANGED <<role, copyVars, mail, refresh, undone>>

\* The answer is put into the page's copies.
Apply(q, new) ==
    LET leaves == q.op = "remove" /\ q.who = q.by IN
    /\ shown' = [shown EXCEPT ![q.by] = IF leaves THEN NoRoster ELSE new]
    /\ disk' = IF leaves THEN disk ELSE [disk EXCEPT ![q.by] = new]
    /\ diverged' = [diverged EXCEPT ![q.by] = @ \/ leaves]

\* Mutation: after a change of role the page's copies are left as they were.
ApplyAnswerNoRole(c) ==
    LET q == change[c] IN
    /\ q.at = "answered" /\ At(c, "answered", "over")
    /\ Apply(q, IF q.op = "remove" THEN [q.seen EXCEPT ![q.who] = "none"] ELSE q.seen)
    /\ UNCHANGED <<role, cache, held, mail, refresh, undone>>

\* The page shows and stores what the answer, or the copy it showed with the
\* change, says.  Leaving closes the thread; the stored copy stays as it was.
ApplyAnswer(c) ==
    LET q == change[c] IN
    /\ q.at = "answered" /\ At(c, "answered", "over")
    /\ Apply(q, IF q.op = "add" THEN q.seen
                ELSE [q.seen EXCEPT ![q.who] = IF @ = "none" THEN @ ELSE NewRole(q.op, @)])
    /\ UNCHANGED <<role, cache, held, mail, refresh, undone>>

-----------------------------------------------------------------------------
\* A page is loaded again: what it waited for is lost, and nobody reads the
\* answers to its requests; it paints the stored copy, and init asks for its groups.
LoadPage(u) ==
    /\ role # NoRoster
    /\ shown' = [shown EXCEPT ![u] = NoRoster]
    /\ held' = [held EXCEPT ![u] = NoRoster]
    /\ cache' = [cache EXCEPT ![u] = disk[u]]
    /\ change' = [c \in Changing |->
        IF c \notin Pending(u) THEN change[c]
        ELSE IF change[c].at \in {"sent", "allowed"} THEN [change[c] EXCEPT !.seen = NoRoster]
        ELSE Blank("over")]
    /\ refresh' = [refresh EXCEPT ![u] = [k \in Fetch |-> IF k = "list" THEN [at |-> "asked", got |-> NoRoster] ELSE NoFetch]]
    /\ diverged' = [diverged EXCEPT ![u] = TRUE]
    /\ undone' = [undone EXCEPT ![u] = FALSE]
    /\ UNCHANGED <<role, disk, mail>>

\* listGroups answers with the groups the user belongs to, getGroup with the
\* group if the user belongs to it.
FetchRoster(u, k) ==
    /\ refresh[u][k].at = "asked"
    /\ refresh' = [refresh EXCEPT ![u][k] = [at |-> "fetched", got |-> IF u \in In(role) THEN Listed ELSE NoRoster]]
    /\ UNCHANGED <<role, copyVars, mail, change, diverged, undone>>

\* upsertGroup stores it; a group not answered is left as it is.  The list and
\* an open thread are not told.
StoreRoster(u, k) ==
    LET got == refresh[u][k].got IN
    /\ refresh[u][k].at = "fetched"
    /\ refresh' = [refresh EXCEPT ![u][k] = NoFetch]
    /\ disk' = IF got = NoRoster THEN disk ELSE [disk EXCEPT ![u] = got]
    /\ diverged' = [diverged EXCEPT ![u] = got = NoRoster \/ got # Listed \/ Pending(u) # {} \/ Fetching(u) # {k}]
    /\ undone' = IF got = NoRoster THEN undone ELSE [undone EXCEPT ![u] = shown[u] \notin {NoRoster, got}]
    /\ UNCHANGED <<role, cache, shown, held, mail, change>>

\* refreshGroups, which follows every change of the stored groups but the one
\* at a page load.
RefreshGroups(u) ==
    /\ cache[u] # disk[u]
    /\ cache' = [cache EXCEPT ![u] = disk[u]]
    /\ UNCHANGED <<role, disk, shown, held, mail, change, refresh, diverged, undone>>

\* handleSelectGroup: from the list, or from the stored groups after a tap on a
\* notification.
OpenThread(u, copy) ==
    /\ copy \in {cache[u], disk[u]} \ {NoRoster, shown[u]}
    /\ shown' = [shown EXCEPT ![u] = copy]
    /\ undone' = [undone EXCEPT ![u] = @ \/ copy # disk[u]]
    /\ UNCHANGED <<role, disk, cache, held, mail, change, refresh, diverged>>

CloseThread(u) ==
    /\ shown[u] # NoRoster
    /\ shown' = [shown EXCEPT ![u] = NoRoster]
    /\ UNCHANGED <<role, disk, cache, held, mail, change, refresh, diverged, undone>>

-----------------------------------------------------------------------------
\* sendToActiveThread sends to each member its thread's copy named when the loop
\* began, which may be anyone by now; the relay tags it if the sender's row is
\* there.
SendTo(u, v) ==
    /\ u \in In(role) \ {v} /\ role[v] # "gone"
    /\ mail' = mail \cup {v}
    /\ UNCHANGED <<role, copyVars, change, refresh, diverged, undone>>

\* ensureGroup, for a message live or in a catch-up pass: a group on the list is
\* stored again as it is there, members included; another is asked for.
TakeUp(u) ==
    /\ u \in mail /\ held[u] = NoRoster  \* bound: one upsertGroup of a page at a time
    /\ mail' = mail \ {u}
    /\ \/ /\ cache[u] # NoRoster
          /\ held' = [held EXCEPT ![u] = cache[u]]
          /\ UNCHANGED refresh
       \/ /\ cache[u] = NoRoster /\ refresh[u]["one"].at = "idle"
          /\ refresh' = [refresh EXCEPT ![u]["one"].at = "asked"]
          /\ UNCHANGED held
    /\ UNCHANGED <<role, disk, cache, shown, change, diverged, undone>>

\* Any other upsertGroup (unread count, favourite, mute, last message) reads the
\* stored groups ...
ReadStored(u) ==
    /\ disk[u] # NoRoster /\ held[u] = NoRoster
    /\ held' = [held EXCEPT ![u] = disk[u]]
    /\ UNCHANGED <<role, disk, cache, shown, mail, change, refresh, diverged, undone>>

\* ... and stores them, whatever was stored in between.
StoreHeld(u) ==
    /\ held[u] # NoRoster
    /\ disk' = [disk EXCEPT ![u] = held[u]]
    /\ held' = [held EXCEPT ![u] = NoRoster]
    /\ undone' = [undone EXCEPT ![u] = @ \/ held[u] # disk[u]]
    /\ UNCHANGED <<role, cache, shown, mail, change, refresh, diverged>>

\* deleteAccount: the member's row goes with the account.
DeleteUser(c, u) ==
    /\ NextChange(c)
    /\ u \in In(role) \ Followed
    /\ role' = [role EXCEPT ![u] = "gone"]
    /\ change' = [change EXCEPT ![c] = Blank("over")]
    /\ diverged' = [v \in Followed |-> TRUE]
    /\ UNCHANGED <<copyVars, mail, refresh, undone>>

GroupNext ==
    \/ \E u \in User, others \in SUBSET User : CreateGroup(u, others)
    \/ \E c \in Changing :
        \/ \E u \in User, v \in User, op \in ChangeOp : AskElsewhere(c, u, op, v)
        \/ \E u \in Followed, v \in User, op \in ChangeOp : AskChange(c, u, op, v)
        \/ \E u \in User : DeleteUser(c, u)
        \/ CheckAdmin(c) \/ WriteChange(c) \/ ReadBack(c) \/ LoseAnswer(c) \/ ApplyAnswer(c)
    \/ \E u \in Followed :
        \/ LoadPage(u) \/ RefreshGroups(u) \/ OpenThread(u, cache[u]) \/ OpenThread(u, disk[u]) \/ CloseThread(u)
        \/ \E k \in Fetch : FetchRoster(u, k) \/ StoreRoster(u, k)
        \/ \E v \in User : SendTo(v, u)
        \/ TakeUp(u) \/ ReadStored(u) \/ StoreHeld(u)

GroupSpec == GroupInit /\ [][GroupNext]_groupVars

-----------------------------------------------------------------------------
(* What must hold. *)

\* A page that waits for nothing has stored the group as it is, and so shows it
\* if it shows it at all, unless somebody else has changed it since the page was
\* loaded, requests of the page overlapped or failed, or the page itself stored or
\* opened an older copy after a newer one (as its first messages make it do).
RosterCurrent ==
    \A u \in Followed :
        ~diverged[u] /\ ~undone[u] /\ Pending(u) = {} /\ Fetching(u) = {} /\ disk[u] # NoRoster
            => disk[u] = Listed /\ shown[u] \in {NoRoster, Listed}
=============================================================================
