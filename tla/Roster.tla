------------------------------- MODULE Roster -------------------------------
(***************************************************************************)
(* The chat list on the device (localDb.ts): one stored value for all      *)
(* chats, which every operation gets, changes and sets, and the page's     *)
(* operations on it (page.tsx): favourites, lists, mutes, the unread       *)
(* count, messages, deletion, and what a page load copies from the server: *)
(* the peers there are messages with, and the mutes.  Groups are kept in   *)
(* the same way.                                                           *)
(*                                                                         *)
(* get and set are separate transactions, so that operations interleave    *)
(* between them: the one that sets last wins, for all chats.  The          *)
(* disappearing timer and the theme are set like a mute without the        *)
(* server; names, avatars and the order are left out.                      *)
(***************************************************************************)
EXTENDS Naturals, FiniteSets

CONSTANTS
    Chats,   \* chats of the user
    Jobs,    \* bound: operations made
    Overlap  \* bound: operations under way at once

ASSUME RosterAssumption == Jobs \in Nat /\ Overlap \in Nat

VARIABLES
    rows,     \* the stored value: what is kept of each chat, if it is listed
    labelled, \* the user's list (of chats) exists
    muted,    \* MutedThread rows on the server
    peers,    \* chats with Message rows on the server
    job,      \* operations under way
    gone,     \* chats deleted and not begun anew (auxiliary)
    clashed   \* chats whose operations got in each other's way (auxiliary)

rosterVars == <<rows, labelled, muted, peers, job, gone, clashed>>

Job == 1 .. Jobs
Unread == 0 .. Jobs
Row == [favourite : BOOLEAN, muted : BOOLEAN, unread : Unread, list : BOOLEAN]
Unlisted == [favourite |-> FALSE, muted |-> FALSE, unread |-> Jobs + 1, list |-> FALSE]
NewRow == [favourite |-> FALSE, muted |-> FALSE, unread |-> 0, list |-> FALSE]
Listing == [Chats -> Row \cup {Unlisted}]
Nowhere == [c \in Chats |-> Unlisted]

\* Patches: what an operation sets in the row of a chat.
IsPatch(patch) ==
    CASE patch.field = "unread" -> patch.to \in Unread
      [] patch.field \in {"favourite", "muted", "list"} -> patch.to \in BOOLEAN
      [] OTHER -> patch.field \in {"none", "gone"}
Toggle == {"favourite", "list"}
NoPatch == [field |-> "none"]
Waiting == [op |-> "none", at |-> "new", chats |-> {}, patch |-> NoPatch, snap |-> Nowhere]

RosterTypeOK ==
    /\ rows \in Listing
    /\ labelled \in BOOLEAN
    /\ muted \subseteq Chats /\ peers \subseteq Chats
    /\ \A j \in Job :
        /\ job[j].op \in {"none", "favourite", "list", "mute", "put", "arrive", "count",
                          "seen", "delete", "drop list", "relist", "sync"}
        /\ job[j].at \in {"new", "ask", "look", "get", "set", "done"}
        /\ job[j].chats \subseteq Chats
        /\ IsPatch(job[j].patch)
        /\ job[j].snap \in Listing
    /\ gone \subseteq Chats /\ clashed \subseteq Chats

\* The chats are listed or not, and some have messages, from earlier loads.
RosterInit ==
    /\ \E row \in {Unlisted, NewRow} : rows = [c \in Chats |-> row]
    /\ labelled = FALSE
    /\ muted = {} /\ peers \in SUBSET Chats
    /\ job = [j \in Job |-> Waiting]
    /\ gone = {} /\ clashed = {}

-----------------------------------------------------------------------------
Active == {j \in Job : job[j].at \notin {"new", "done"}}
Turn(j) == job[j].at = "new" /\ \A i \in Job : i < j => job[i].at # "new"

\* Operations under way on chat c; those that set or copy its mute.
On(c) == {j \in Active : c \in job[j].chats}
Muting(c) == {j \in On(c) : job[j].op \in {"mute", "sync"}}

StartJob(j, op, at, c, patch) ==
    /\ Turn(j) /\ Cardinality(Active) < Overlap
    /\ job' = [job EXCEPT ![j] = [op |-> op, at |-> at, chats |-> {c}, patch |-> patch, snap |-> Nowhere]]
    /\ UNCHANGED <<rows, labelled, muted>>

\* toggleFavourite and toggleConversationList look at the row before they patch it.
StartToggle(j, c, field) ==
    /\ field = "list" => labelled
    /\ rows[c] # Unlisted
    /\ StartJob(j, field, "look", c, NoPatch)
    /\ UNCHANGED <<peers, gone, clashed>>

\* handleToggleMuteActive: the opposite of what the open chat's own copy says.
StartMute(j, c, to) ==
    /\ rows[c] # Unlisted
    /\ StartJob(j, "mute", "ask", c, [field |-> "muted", to |-> to])
    /\ clashed' = IF Muting(c) # {} THEN clashed \cup {c} ELSE clashed
    /\ UNCHANGED <<peers, gone>>

\* A message arrives: ensureConversation, and incrementUnread if the chat is not
\* open.
StartArrive(j, c) ==
    /\ StartJob(j, "arrive", "get", c, NoPatch)
    /\ peers' = peers \cup {c}
    /\ gone' = gone \ {c}
    /\ UNCHANGED clashed

\* The last message is set: of a chat that is open, after sending one or deleting
\* one; of any, when a call is logged or it is opened by the search.
StartPut(j, c, sends) ==
    /\ sends => rows[c] # Unlisted
    /\ StartJob(j, "put", "get", c, NoPatch)
    /\ peers' = IF sends THEN peers \cup {c} ELSE peers
    /\ gone' = gone \ {c}
    /\ UNCHANGED clashed

\* clearUnread, when the chat is opened.
StartSeen(j, c) ==
    /\ rows[c] # Unlisted
    /\ StartJob(j, "seen", "get", c, [field |-> "unread", to |-> 0])
    /\ UNCHANGED <<peers, gone, clashed>>

\* handleDeleteConversation.
StartDeleteChat(j, c) ==
    /\ rows[c] # Unlisted
    /\ StartJob(j, "delete", "get", c, [field |-> "gone"])
    /\ UNCHANGED <<peers, gone, clashed>>

\* createList, then handleToggleList; deleteList.
CreateList ==
    /\ ~labelled
    /\ labelled' = TRUE
    /\ UNCHANGED <<rows, muted, peers, job, gone, clashed>>

StartDropList(j) ==
    /\ labelled
    /\ Turn(j) /\ Cardinality(Active) < Overlap
    /\ labelled' = FALSE
    /\ job' = [job EXCEPT ![j] = [Waiting EXCEPT !.op = "drop list", !.at = "look",
                                                 !.patch = [field |-> "list", to |-> FALSE]]]
    /\ UNCHANGED <<rows, muted, peers, gone, clashed>>

-----------------------------------------------------------------------------
\* Mutation: a failed request is not noticed, and the row is patched all the same.
AskServerAnyway(j) ==
    LET asked == IF job[j].patch.to THEN muted \cup job[j].chats ELSE muted \ job[j].chats IN
    /\ job[j].op = "mute" /\ job[j].at = "ask"
    /\ muted' \in {muted, asked}
    /\ job' = [job EXCEPT ![j].at = "get"]
    /\ UNCHANGED <<rows, labelled, peers, gone, clashed>>

\* muteThread and unmuteThread; or the request fails, before the server has done
\* it or after, and nothing is changed here.
AskServer(j) ==
    LET asked == IF job[j].patch.to THEN muted \cup job[j].chats ELSE muted \ job[j].chats IN
    /\ job[j].op = "mute" /\ job[j].at = "ask"
    /\ \/ /\ muted' = asked
          /\ job' = [job EXCEPT ![j].at = "get"]
          /\ UNCHANGED clashed
       \/ /\ muted' \in {muted, asked}
          /\ job' = [job EXCEPT ![j] = [Waiting EXCEPT !.at = "done"]]
          /\ clashed' = IF muted' # muted THEN clashed \cup job[j].chats ELSE clashed
    /\ UNCHANGED <<rows, labelled, peers, gone>>

SyncMutes == [Waiting EXCEPT !.op = "sync", !.at = "ask", !.patch = [field |-> "muted", to |-> TRUE]]

\* listConversationPeers, when the page is loaded: the peers are listed, those
\* deleted before too.  It may fail; the mutes follow.
FetchPeers(j) ==
    /\ job[j].op = "relist" /\ job[j].at = "ask"
    /\ \/ /\ peers # {}
          /\ job' = [job EXCEPT ![j].at = "get", ![j].chats = peers]
          /\ gone' = gone \ peers
       \/ job' = [job EXCEPT ![j] = SyncMutes] /\ UNCHANGED gone
    /\ UNCHANGED <<rows, labelled, muted, peers, clashed>>

\* getMutes comes next.
FetchMutes(j) ==
    /\ job[j].op = "sync" /\ job[j].at = "ask"
    /\ job' = [job EXCEPT ![j].at = "look", ![j].chats = muted]
    /\ clashed' = clashed \cup {c \in muted : Muting(c) # {}}
    /\ UNCHANGED <<rows, labelled, muted, peers, gone>>

Chosen(j) ==
    CASE job[j].op = "sync" -> {c \in job[j].chats : rows[c] # Unlisted /\ ~rows[c].muted}
      [] job[j].op = "drop list" -> {c \in Chats : rows[c].list}
      [] OTHER -> {c \in job[j].chats : job[j].op = "count" \/ rows[c] # Unlisted}

\* The first get: which rows to patch, and with what.  A toggle of a chat that is
\* gone does nothing; counting takes a missing row for zero.
Look(j) ==
    LET row == rows[CHOOSE c \in job[j].chats : TRUE] IN
    /\ job[j].at = "look"
    /\ job' = [job EXCEPT
        ![j].at = IF Chosen(j) = {} THEN "done" ELSE "get",
        ![j].chats = Chosen(j),
        ![j].patch = CASE job[j].op \in Toggle -> [field |-> job[j].op, to |-> ~row[job[j].op]]
                       [] job[j].op = "count" -> [field |-> "unread", to |-> IF row = Unlisted THEN 1 ELSE row.unread + 1]
                       [] OTHER -> @]
    /\ UNCHANGED <<rows, labelled, muted, peers, gone, clashed>>

\* The get of upsertConversation or deleteConversation.
GetRows(j) ==
    /\ job[j].at = "get"
    /\ job' = [job EXCEPT ![j].at = "set", ![j].snap = rows]
    /\ UNCHANGED <<rows, labelled, muted, peers, gone, clashed>>

\* upsertConversation keeps the fields that the patch does not name, and lists
\* the chat anew if it is not there.
Patched(row, patch) ==
    LET old == IF row = Unlisted THEN NewRow ELSE row IN
    CASE patch.field = "gone" -> Unlisted
      [] patch.field = "none" -> old
      [] OTHER -> [old EXCEPT ![patch.field] = patch.to]

\* What an operation goes on to when chat c is set.
Onward(q, c) ==
    IF q.chats # {c} THEN {[q EXCEPT !.at = "get", !.chats = @ \ {c}, !.snap = Nowhere]}
    ELSE {[Waiting EXCEPT !.at = "done"]} \cup
         (CASE q.op = "arrive" -> {[Waiting EXCEPT !.op = "count", !.at = "look", !.chats = {c}]}
            [] q.op = "relist" -> {SyncMutes}
            [] OTHER -> {})

\* The set: all chats as they were at the get, but for the patched one.
SetRows(j) ==
    LET q == job[j] IN
    /\ q.at = "set"
    /\ \E c \in q.chats :
        /\ rows' = [q.snap EXCEPT ![c] = Patched(@, q.patch)]
        /\ \E next \in Onward(q, c) : job' = [job EXCEPT ![j] = next]
        /\ gone' = IF q.op = "delete" THEN gone \cup {c} ELSE gone
        /\ clashed' = clashed \cup {d \in Chats : rows[d] # q.snap[d]}
                          \cup (IF q.op = "delete" /\ On(c) # {j} THEN {c} ELSE {})
    /\ UNCHANGED <<labelled, muted, peers>>

\* The page is loaded again: what was under way is lost, the server's peers and
\* mutes are asked for.
Reload(j) ==
    /\ Turn(j)
    /\ job' = [i \in Job |-> IF i \in Active THEN [Waiting EXCEPT !.at = "done"]
                             ELSE IF i = j THEN [Waiting EXCEPT !.op = "relist", !.at = "ask"]
                             ELSE job[i]]
    /\ clashed' = clashed \cup {c \in Chats : Muting(c) # {}}
    /\ UNCHANGED <<rows, labelled, muted, peers, gone>>

RosterNext ==
    \/ \E j \in Job :
        \/ \E c \in Chats :
            \/ \E field \in Toggle : StartToggle(j, c, field)
            \/ \E to \in BOOLEAN : StartMute(j, c, to)
            \/ StartArrive(j, c) \/ StartPut(j, c, TRUE) \/ StartPut(j, c, FALSE)
            \/ StartSeen(j, c) \/ StartDeleteChat(j, c)
        \/ StartDropList(j) \/ AskServer(j) \/ FetchPeers(j) \/ FetchMutes(j)
        \/ Look(j) \/ GetRows(j) \/ SetRows(j) \/ Reload(j)
    \/ CreateList

RosterSpec == RosterInit /\ [][RosterNext]_rosterVars

-----------------------------------------------------------------------------
(* What must hold. *)

\* Whatever operations overlap, a chat that was deleted is off the list until a
\* message, a call, the search or a page load begins it anew, and the list shows no
\* mute that the server does not have, unless operations on the chat itself
\* clashed, one wrote an older copy of its row over a newer, or the answer to a
\* change of its mute was lost.
ListKept ==
    \A c \in Chats \ clashed :
        /\ c \in gone => rows[c] = Unlisted
        /\ rows[c] # Unlisted /\ rows[c].muted /\ Muting(c) = {} => c \in muted
=============================================================================
