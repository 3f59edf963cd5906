----------------------------- MODULE ChatWindow -----------------------------
(***************************************************************************)
(* One chat window: the page's script (chat.js), its SignalR connection    *)
(* and ChatHub, and the posts that reach the rooms meanwhile, from this    *)
(* window, from other participants and from the bot.                       *)
(*                                                                         *)
(* A post is the order of its timestamp: 1, 2, 3, ...  It is stamped,      *)
(* saved and broadcast in three steps, as the posting handlers do, so that *)
(* posts are saved and broadcast in any order.  The hub runs the calls of  *)
(* one connection one at a time (Program.cs leaves AddSignalR its default) *)
(* and what it sends to the connection arrives in order, or not at all     *)
(* when the connection drops.  The drop of a connection loses its group    *)
(* memberships and rejects the calls the window was waiting for.           *)
(***************************************************************************)
EXTENDS Integers, Sequences, FiniteSets

CONSTANTS
    Rooms,          \* the chat rooms
    Landing,        \* the room the page was rendered with
    None,           \* no room
    HistoryLimit,   \* MessageConstants.LatestMessagesCount
    MaxPosts,       \* bound: posts in a behaviour
    MaxSwitches,    \* bound: room switches of the window
    MaxDrops        \* bound: connections lost

ASSUME RoomsAssumption == Landing \in Rooms /\ None \notin Rooms
ASSUME BoundsAssumption == /\ HistoryLimit \in Nat \ {0}
                           /\ MaxPosts \in Nat
                           /\ MaxSwitches \in Nat
                           /\ MaxDrops \in Nat

Posts == 1 .. MaxPosts

VARIABLES
    post,       \* how far each post has come
    roomOf,     \* the room it belongs to
    group,      \* the rooms whose SignalR group the connection is in
    current,    \* Context.Items["chat.currentRoom"]
    calls,      \* hub invocations of the connection, the first one running
    step,       \* how far the running JoinRoom has come
    history,    \* the posts it has read
    wire,       \* what the hub has sent to the window, not yet handled there
    conn,       \* the window's connection
    shown,      \* roomId in chat.js
    rendered,   \* the ids it has rendered
    list,       \* the posts in the message list, top to bottom
    status,     \* the status line
    notSent,    \* own posts the window has declared "not sent"
    missed,     \* posts of the shown room broadcast while disconnected
    switches, drops

postVars   == <<post, roomOf>>
hubVars    == <<group, current, calls, step, history>>
windowVars == <<shown, rendered, list, status, notSent>>
bounds     == <<switches, drops>>
vars       == <<postVars, hubVars, wire, conn, windowVars, missed, bounds>>

Stored == {m \in Posts : post[m] \in {"stored", "announced", "unannounced"}}

JoinCall(room) == [op |-> "join", room |-> room, post |-> 0]
SendCall(room) == [op |-> "send", room |-> room, post |-> 0]
Parcel(kind, posts) == [kind |-> kind, posts |-> posts]

(* The calls and parcels about a command (ask; done, error, alert) are     *)
(* Conversation's.                                                         *)
Calls   == [op : {"join", "send", "ask"}, room : Rooms, post : 0 .. MaxPosts]
Parcels == [kind : {"live", "history", "joinFailed", "sent", "sendFailed",
                    "done", "error", "alert"},
            posts : SUBSET Posts]

Listed == {list[i] : i \in DOMAIN list}

HubTypeOK ==
    /\ post \in [Posts -> {"none", "stamped", "stored", "announced", "unannounced", "refused"}]
    /\ roomOf \in [Posts -> Rooms \cup {None}]
    /\ group \subseteq Rooms
    /\ current \in Rooms \cup {None}
    /\ calls \in Seq(Calls)
    /\ step \in {"called", "left", "entered", "read"}
    /\ history \subseteq Posts
    /\ wire \in Seq(Parcels)
    /\ conn \in {"down", "up", "closed"}
    /\ shown \in Rooms

TypeOK ==
    /\ HubTypeOK
    /\ rendered \subseteq Posts
    /\ list \in Seq(Posts)
    /\ status \in {"Connecting", "Joining", "Connected", "NotJoined", "Disconnected"}
    /\ notSent \subseteq Posts
    /\ missed \subseteq Posts
    /\ switches \in 0 .. MaxSwitches
    /\ drops \in 0 .. MaxDrops

Init ==
    /\ post = [m \in Posts |-> "none"]
    /\ roomOf = [m \in Posts |-> None]
    /\ group = {} /\ current = None
    /\ calls = <<>> /\ step = "called" /\ history = {}
    /\ wire = <<>>
    /\ conn = "down" /\ status = "Connecting"
    /\ shown = Landing /\ rendered = {} /\ list = <<>>
    /\ notSent = {} /\ missed = {}
    /\ switches = 0 /\ drops = 0

-----------------------------------------------------------------------------
(* Posting: PostMessageHandler.PostAsync, and PostBotMessageHandler, which *)
(* has the same write path.                                                *)

Stamp(m, room) ==
    /\ post[m] = "none"
    /\ \A n \in Posts : n < m => post[n] # "none"
    /\ post' = [post EXCEPT ![m] = "stamped"]
    /\ roomOf' = [roomOf EXCEPT ![m] = room]

(* Bound: every line sent finds a post to become, within MaxPosts.         *)
PostsLeft ==
    Cardinality({i \in DOMAIN calls : calls[i].op = "send" /\ calls[i].post = 0})
        < Cardinality({m \in Posts : post[m] = "none"})

(* Another participant, or the bot, posts.                                 *)
OthersPost(m, room) ==
    /\ PostsLeft
    /\ Stamp(m, room)
    /\ UNCHANGED <<hubVars, wire, conn, windowVars, missed, bounds>>

Commit(m) ==
    /\ post[m] = "stamped"
    /\ post' = [post EXCEPT ![m] = "stored"]
    /\ UNCHANGED <<roomOf, hubVars, wire, conn, windowVars, missed, bounds>>

(* A save that fails, for a participant or the bot; the room gate and the  *)
(* rules of the domain would refuse no more than it does.                  *)
Refuse(m) ==
    /\ post[m] = "stamped"
    /\ post' = [post EXCEPT ![m] = "refused"]
    /\ UNCHANGED <<roomOf, hubVars, wire, conn, windowVars, missed, bounds>>

(* SignalRChatNotifier: to the group, which this connection may be in.     *)
Push(m) ==
    wire' = IF roomOf[m] \in group THEN Append(wire, Parcel("live", {m})) ELSE wire

Broadcast(m) ==
    /\ post[m] = "stored"
    /\ post' = [post EXCEPT ![m] = "announced"]
    /\ Push(m)
    /\ missed' = IF conn = "down" /\ drops > 0 /\ roomOf[m] = shown THEN missed \cup {m} ELSE missed
    /\ UNCHANGED <<roomOf, hubVars, conn, windowVars, bounds>>

(* A broadcast that throws has reached some connections and not others.    *)
BroadcastFails(m) ==
    /\ post[m] = "stored"
    /\ post' = [post EXCEPT ![m] = "unannounced"]
    /\ Push(m) \/ UNCHANGED wire
    /\ UNCHANGED <<roomOf, hubVars, conn, windowVars, missed, bounds>>

-----------------------------------------------------------------------------
(* ChatHub.SendMessage.                                                    *)

Running(op) == calls # <<>> /\ Head(calls).op = op

BeginSend(m) ==
    /\ Running("send") /\ Head(calls).post = 0
    /\ Stamp(m, Head(calls).room)
    /\ calls' = [calls EXCEPT ![1].post = m]
    /\ UNCHANGED <<group, current, step, history, wire, conn, windowVars, missed, bounds>>

(* A failed Result is sent to the caller as ReceiveError, an exception as  *)
(* the failure of the invocation: the window says "not sent" to both.      *)
EndSend ==
    LET m == Head(calls).post IN
    /\ Running("send") /\ m # 0
    /\ post[m] \in {"announced", "unannounced", "refused"}
    /\ wire' = Append(wire, Parcel(IF post[m] = "announced" THEN "sent" ELSE "sendFailed", {m}))
    /\ calls' = Tail(calls)
    /\ UNCHANGED <<postVars, group, current, step, history, conn, windowVars, missed, bounds>>

-----------------------------------------------------------------------------
(* ChatHub.JoinRoom: leave, subscribe, read, reply.                        *)

(* Mutant of LeavePreviousRoom: nobody leaves.                             *)
NeverLeave(room) == group' = group

LeavePreviousRoom(room) ==
    group' = IF current \notin {None, room} THEN group \ {current} ELSE group

JoinLeave ==
    /\ Running("join") /\ step = "called"
    /\ LeavePreviousRoom(Head(calls).room)
    /\ step' = "left"
    /\ UNCHANGED <<postVars, current, calls, history, wire, conn, windowVars, missed, bounds>>

JoinEnter ==
    /\ Running("join") /\ step = "left"
    /\ group' = group \cup {Head(calls).room}
    /\ current' = Head(calls).room
    /\ step' = "entered"
    /\ UNCHANGED <<postVars, calls, history, wire, conn, windowVars, missed, bounds>>

(* Mutant of Latest: the oldest posts instead of the newest.               *)
Earliest(room) ==
    LET S == {m \in Stored : roomOf[m] = room} IN
    {m \in S : Cardinality({n \in S : n < m}) < HistoryLimit}

(* GetLatestAsync: the newest posts of the room.                           *)
Latest(room) ==
    LET S == {m \in Stored : roomOf[m] = room} IN
    {m \in S : Cardinality({n \in S : n > m}) < HistoryLimit}

JoinRead ==
    /\ Running("join") /\ step = "entered"
    /\ history' = Latest(Head(calls).room)
    /\ step' = "read"
    /\ UNCHANGED <<postVars, group, current, calls, wire, conn, windowVars, missed, bounds>>

EndJoin(parcel) ==
    /\ wire' = Append(wire, parcel)
    /\ calls' = Tail(calls)
    /\ step' = "called"
    /\ history' = {}
    /\ UNCHANGED <<postVars, group, current, conn, windowVars, missed, bounds>>

JoinReply ==
    /\ Running("join") /\ step = "read"
    /\ EndJoin(Parcel("history", history))

(* The history could not be read; the subscription stays.  A failed Result *)
(* (ReceiveError, and an empty list that makes the window "Connected")     *)
(* takes a room that does not exist: rooms are never deleted, and the page *)
(* joins only rooms that the server has offered it.                        *)
JoinFails ==
    /\ Running("join") /\ step = "entered"
    /\ EndJoin(Parcel("joinFailed", {}))

-----------------------------------------------------------------------------
(* chat.js.                                                                *)

(* Mutant of Unseen: what was rendered already is rendered again.          *)
Everything(posts) == posts

(* render drops what it has rendered before.                               *)
Unseen(posts) == posts \ rendered

(* The server sends a history oldest to newest, and nobody sorts it again. *)
OldestFirst(posts) ==
    CHOOSE s \in [1 .. Cardinality(posts) -> posts] :
        /\ {s[i] : i \in DOMAIN s} = posts
        /\ \A i, j \in DOMAIN s : i < j => s[i] < s[j]

Render(posts) ==
    /\ list' = list \o OldestFirst(Unseen(posts))
    /\ rendered' = rendered \cup posts

(* The window handles the next thing the hub sent.                         *)
Deliver ==
    /\ conn = "up" /\ wire # <<>>
    /\ LET parcel == Head(wire) IN
       /\ IF parcel.kind \in {"live", "history"}
          THEN Render(parcel.posts) ELSE UNCHANGED <<rendered, list>>
       /\ status' = CASE parcel.kind = "history"    -> "Connected"
                      [] parcel.kind = "joinFailed" -> "NotJoined"
                      [] OTHER                      -> status
       /\ notSent' = IF parcel.kind = "sendFailed"
                     THEN notSent \cup parcel.posts ELSE notSent
    /\ wire' = Tail(wire)
    /\ UNCHANGED <<postVars, hubVars, conn, shown, missed, bounds>>

(* The participant sends a line; it goes to the room shown at that moment. *)
Send ==
    /\ conn = "up"
    /\ PostsLeft
    /\ calls' = Append(calls, SendCall(shown))
    /\ UNCHANGED <<postVars, group, current, step, history, wire, conn, windowVars,
                   missed, bounds>>

Clear(room) ==
    /\ shown # room
    /\ switches < MaxSwitches
    /\ switches' = switches + 1
    /\ shown' = room
    /\ list' = <<>>
    /\ missed' = {}

(* Mutants of SwitchRoom: the rendered ids are kept, or the rejected call  *)
(* is not caught.                                                          *)
SwitchKeepsRendered(room) ==
    /\ Clear(room)
    /\ IF conn = "up"
       THEN calls' = Append(calls, JoinCall(room)) /\ status' = "Joining"
       ELSE status' = "NotJoined" /\ UNCHANGED calls
    /\ UNCHANGED <<rendered, postVars, group, current, step, history, wire, conn, notSent, drops>>

SwitchUncaught(room) ==
    /\ Clear(room)
    /\ rendered' = {}
    /\ status' = "Joining"
    /\ IF conn = "up" THEN calls' = Append(calls, JoinCall(room)) ELSE UNCHANGED calls
    /\ UNCHANGED <<postVars, group, current, step, history, wire, conn, notSent, drops>>

(* Without a connection the invocation is rejected at once.                *)
SwitchRoom(room) ==
    /\ Clear(room)
    /\ rendered' = {}
    /\ IF conn = "up"
       THEN calls' = Append(calls, JoinCall(room)) /\ status' = "Joining"
       ELSE status' = "NotJoined" /\ UNCHANGED calls
    /\ UNCHANGED <<postVars, group, current, step, history, wire, conn, notSent, drops>>

(* Mutant of Connect: the client relies on the server to restore groups.   *)
ConnectWithoutJoin ==
    /\ conn = "down"
    /\ conn' = "up"
    /\ UNCHANGED <<postVars, hubVars, wire, windowVars, missed, bounds>>

(* start() and onreconnected: the window joins the room it shows.          *)
Connect ==
    /\ conn = "down"
    /\ conn' = "up"
    /\ calls' = <<JoinCall(shown)>>
    /\ UNCHANGED <<postVars, group, current, step, history, wire, windowVars, missed, bounds>>

(* What the window was waiting for when the connection dropped.            *)
JoinPending ==
    \/ \E i \in DOMAIN calls : calls[i].op = "join"
    \/ \E i \in DOMAIN wire : wire[i].kind \in {"history", "joinFailed"}

SendsPending ==
    {m \in Posts : \/ \E i \in DOMAIN calls : calls[i].op = "send" /\ calls[i].post = m
                   \/ \E i \in DOMAIN wire : /\ wire[i].kind \in {"sent", "sendFailed"}
                                             /\ m \in wire[i].posts}

InFlight == {m \in Posts : \E i \in DOMAIN wire :
                 wire[i].kind = "live" /\ m \in wire[i].posts /\ roomOf[m] = shown}

Drop ==
    /\ conn = "up"
    /\ drops < MaxDrops
    /\ drops' = drops + 1
    /\ conn' = "down"
    /\ group' = {} /\ current' = None
    /\ calls' = <<>> /\ step' = "called" /\ history' = {}
    /\ wire' = <<>>
    /\ status' = IF JoinPending THEN "NotJoined" ELSE "Connecting"
    /\ notSent' = notSent \cup SendsPending
    /\ missed' = missed \cup InFlight
    /\ UNCHANGED <<postVars, shown, rendered, list, switches>>

(* start() fails, or the reconnect policy is at its end: only a reload     *)
(* helps.                                                                  *)
GiveUp ==
    /\ conn = "down"
    /\ conn' = "closed"
    /\ status' = "Disconnected"
    /\ UNCHANGED <<postVars, hubVars, wire, shown, rendered, list, notSent, missed, bounds>>

-----------------------------------------------------------------------------
PostStep(m) == Commit(m) \/ Refuse(m) \/ Broadcast(m) \/ BroadcastFails(m)

HubStep ==
    \/ \E m \in Posts : BeginSend(m)
    \/ EndSend \/ JoinLeave \/ JoinEnter \/ JoinRead \/ JoinReply \/ JoinFails

ConnectionStep == Connect \/ GiveUp

Next ==
    \/ \E m \in Posts : PostStep(m) \/ \E room \in Rooms : OthersPost(m, room)
    \/ HubStep
    \/ ConnectionStep
    \/ Deliver \/ Send \/ Drop
    \/ \E room \in Rooms : SwitchRoom(room)

(* Handlers end, the hub runs its calls, SignalR delivers or drops, and    *)
(* the reconnect policy is finite.  Participants need do nothing.          *)
Fairness ==
    /\ \A m \in Posts : WF_vars(PostStep(m))
    /\ WF_vars(HubStep) /\ WF_vars(ConnectionStep) /\ WF_vars(Deliver)

Spec     == Init /\ [][Next]_vars
FairSpec == Spec /\ Fairness

-----------------------------------------------------------------------------
(* Properties.                                                             *)

(* The window has joined, nothing is under way and it says so.             *)
AtRest == conn = "up" /\ calls = <<>> /\ wire = <<>> /\ status = "Connected"

Newer(m) == {n \in Stored : n > m /\ roomOf[n] = roomOf[m]}

PushedOut(m) == Cardinality(Newer(m)) >= HistoryLimit

(* ChatHub.JoinRoom remarks: a gap is not recoverable.  A window at rest   *)
(* shows every post that was broadcast to its room, whatever was switched, *)
(* dropped or overtaken on the way, except those that the history limit    *)
(* had already pushed out.                                                 *)
NoGap ==
    AtRest => \A m \in Posts :
        (post[m] = "announced" /\ roomOf[m] = shown /\ m \notin Listed)
            => PushedOut(m)

(* No post is shown twice, although joins make posts arrive twice.         *)
NoRepeats == \A i, j \in DOMAIN list : list[i] = list[j] => i = j

(* A connection listens to one room at most (nothing bleeds in for ever),  *)
(* and a window at rest listens to the very room it shows.                 *)
FollowsShownRoom ==
    /\ Cardinality(group) <= 1
    /\ AtRest => group = {shown}

(* What makes FollowsShownRoom inductive: between joins the connection is  *)
(* in the group of the room it remembers, and the room it is about to      *)
(* remember, when its calls have run, is the one on the screen.            *)
LastJoin(i) == /\ calls[i].op = "join"
               /\ \A j \in DOMAIN calls : j > i => calls[j].op # "join"

Destination ==
    IF \E i \in DOMAIN calls : calls[i].op = "join"
    THEN \A i \in DOMAIN calls : LastJoin(i) => calls[i].room = shown
    ELSE current = shown

Membership ==
    /\ step # "called" => Running("join")
    /\ step = "left" => group \subseteq {Head(calls).room}
    /\ step \in {"entered", "read"} => current = Head(calls).room
    /\ group \subseteq {current}
    /\ step # "left" /\ current # None => group = {current}

Subscription ==
    /\ conn # "up" => calls = <<>> /\ wire = <<>> /\ group = {} /\ current = None
    /\ conn = "up" => Destination
    /\ Membership

(* What makes NoGap inductive.  Once the join the window will end up with  *)
(* has read its history, every announced post of the room is listed, on    *)
(* its way, in the history just read, or pushed out by newer ones; or the  *)
(* window will learn that it has not joined.                               *)
JoinAhead == \E i \in DOMAIN calls : calls[i].op = "join" /\ (i > 1 \/ step # "read")

OnItsWay(m) == \E i \in DOMAIN wire : /\ wire[i].kind \in {"live", "history"}
                                      /\ m \in wire[i].posts

EndsUnjoined ==
    \/ status # "Connected" /\ \A i \in DOMAIN wire : wire[i].kind # "history"
    \/ \E i \in DOMAIN wire :
           /\ wire[i].kind = "joinFailed"
           /\ \A j \in DOMAIN wire : j > i => wire[j].kind # "history"

Reaches(m) ==
    \/ m \in Listed
    \/ OnItsWay(m)
    \/ PushedOut(m)
    \/ IF step = "read" THEN m \in history ELSE EndsUnjoined

JoinsRead == conn = "up" /\ ~JoinAhead

Follows(m) == JoinsRead => Reaches(m)

NothingSlips == \A m \in Posts : post[m] = "announced" /\ roomOf[m] = shown => Follows(m)

(* The ids kept to recognise repeats are those of the list, and no others. *)
IInv ==
    /\ TypeOK
    /\ Subscription
    /\ rendered = Listed
    /\ NothingSlips

(* "Joining..." is always replaced, whatever becomes of the call.          *)
JoiningEnds == (status = "Joining") ~> (status # "Joining")

(* Chat.cshtml: a message posted in one room is never shown in another.    *)
ShowsOnlyItsRoom == \A m \in Listed : roomOf[m] = shown

(* chat.js, onreconnected: the history fills whatever the window missed.   *)
RejoinFillsWhatWasMissed == AtRest => missed \subseteq Listed

(* "The message could not be sent": what is declared not sent is no post   *)
(* of the room.                                                            *)
NotSentMeansNotStored == notSent \cap Stored = {}

=============================================================================
