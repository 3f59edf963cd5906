---------------------------- MODULE Conversation ----------------------------
(***************************************************************************)
(* One participant asks for a quote in a chat window and waits for the     *)
(* answer: ChatWindow, the round trip behind it, and what only the asker   *)
(* sees: the echo of the command, the lines "not sent", and the banner of  *)
(* an outage.                                                              *)
(*                                                                         *)
(* The round trip is cut short to what StockRoundTrip is shown to keep:    *)
(* answers are posted to a request only, and it comes to rest with an      *)
(* answer stored or with an excuse.  The steps in between, retries and     *)
(* interruptions among them, are StockRoundTrip's.                         *)
(*                                                                         *)
(* An answer is a post of the bot and takes the way of every post; there   *)
(* may be several, for the round trip is at-least-once.  The bot's alert   *)
(* follows the broadcast of an answer that reports an outage and is aimed  *)
(* at the participant, whatever room the window shows.  The plain lines of *)
(* this participant are ChatWindow's.                                      *)
(***************************************************************************)
EXTENDS ChatWindow

CONSTANT
    MaxDisturbances     \* bound: switches, lost connections and others' posts together

VARIABLES
    command,    \* how far the command has come
    askedIn,    \* the room it was typed in
    answers,    \* the posts made in answer to it
    outages,    \* those that report a failed lookup
    alerted,    \* those whose alert has been attempted
    banner,     \* the answer the banner is about; 0 when it is hidden
    local,      \* the lines that exist in this window only
    due         \* posts of the room stored when the window asked to join it

askVars  == <<command, askedIn, answers, outages, alerted>>
viewVars == <<banner, local>>
allVars  == <<vars, askVars, viewVars, due>>

AskCall(room) == [op |-> "ask", room |-> room, post |-> 0]

Underway == {m \in answers : post[m] \in {"stamped", "stored"}}

ConversationTypeOK ==
    /\ post \in [Posts -> {"none", "stamped", "stored", "announced", "unannounced", "refused"}]
    /\ command \in {"none", "sent", "refused", "asked", "settled", "excused"}
    /\ askedIn \in Rooms \cup {None}
    /\ answers \subseteq {m \in Posts : roomOf[m] = askedIn}
    /\ outages \subseteq answers
    /\ alerted \subseteq answers
    /\ banner \in outages \cup {0}
    /\ local \subseteq {"you typed", "not sent"}
    /\ due \subseteq Stored

ConversationInit ==
    /\ Init
    /\ command = "none" /\ askedIn = None /\ answers = {} /\ outages = {} /\ alerted = {}
    /\ banner = 0 /\ local = {} /\ due = {}

-----------------------------------------------------------------------------
(* The lines and the banner that exist in this window only.                *)

RenderLocal(labels) == local' = local \cup labels
ShowAlert(posts)    == banner' \in posts
HideAlert           == banner' = 0

-----------------------------------------------------------------------------
(* The command.                                                            *)

(* The echo comes before the call; without a connection the call fails.    *)
TypeCommand ==
    /\ command = "none"
    /\ askedIn' = shown
    /\ IF conn = "up"
       THEN /\ command' = "sent" /\ calls' = Append(calls, AskCall(shown))
            /\ RenderLocal({"you typed"})
       ELSE /\ command' = "refused" /\ UNCHANGED calls
            /\ RenderLocal({"you typed", "not sent"})
    /\ UNCHANGED <<postVars, group, current, step, history, wire, conn, windowVars, missed,
                   bounds, answers, outages, alerted, banner, due>>

(* ChatHub.SendMessage with a command: the request is published or not.    *)
PublishRequest(outcome) ==
    /\ Running("ask") /\ command = "sent"
    /\ command' = outcome
    /\ UNCHANGED <<vars, askedIn, answers, outages, alerted, viewVars, due>>

AskAccepted == PublishRequest("asked")
AskRefused  == PublishRequest("refused")

(* The call ends while the bot may be at work already; a publish that is   *)
(* reported as failed may have been done.                                  *)
EndAsk(reply) ==
    /\ Running("ask") /\ command # "sent"
    /\ command = "refused" => reply = "error"
    /\ wire' = Append(wire, Parcel(reply, {}))
    /\ calls' = Tail(calls)
    /\ UNCHANGED <<postVars, group, current, step, history, conn, windowVars, missed, bounds,
                   askVars, viewVars, due>>

-----------------------------------------------------------------------------
(* The round trip.                                                         *)

(* PostBotMessageHandler takes an answer in hand; the posting is           *)
(* ChatWindow's.                                                           *)
Answer(m) ==
    /\ command = "asked"
    /\ PostsLeft
    /\ Stamp(m, askedIn)
    /\ answers' = answers \cup {m}
    /\ outages' \in {outages, outages \cup {m}}
    /\ UNCHANGED <<hubVars, wire, conn, windowVars, missed, bounds,
                   command, askedIn, alerted, viewVars, due>>

(* Mutants of Alertable: the alert goes before the broadcast, or goes for  *)
(* every answer.                                                           *)
StoredOutages == {m \in outages : post[m] \in {"stored", "announced"}}
Announced == {m \in answers : post[m] = "announced"}

Alertable == {m \in outages : post[m] = "announced"}

(* Clients.User: every connection of the participant, in any room.         *)
Alert(m) ==
    /\ m \in Alertable \ alerted
    /\ alerted' = alerted \cup {m}
    /\ wire' = IF conn = "up" THEN Append(wire, Parcel("alert", {m})) ELSE wire
    /\ UNCHANGED <<postVars, hubVars, conn, windowVars, missed, bounds,
                   command, askedIn, answers, outages, viewVars, due>>

(* The alert fails or the host stops before it.                            *)
AlertFails(m) ==
    /\ m \in Alertable \ alerted
    /\ alerted' = alerted \cup {m}
    /\ UNCHANGED <<vars, command, askedIn, answers, outages, viewVars, due>>

Rest(outcome) ==
    /\ command = "asked"
    /\ Underway = {} /\ Alertable \subseteq alerted
    /\ command' = outcome
    /\ UNCHANGED <<vars, askedIn, answers, outages, alerted, viewVars, due>>

Settle     == answers \cap Stored # {} /\ Rest("settled")
DeadLetter == Rest("excused")

-----------------------------------------------------------------------------
(* The window.                                                             *)

DeliverHere ==
    /\ Deliver
    /\ LET parcel == Head(wire) IN
       /\ IF parcel.kind = "alert" THEN ShowAlert(parcel.posts) ELSE UNCHANGED banner
       /\ IF parcel.kind = "error" THEN RenderLocal({"not sent"}) ELSE UNCHANGED local
    /\ UNCHANGED <<askVars, due>>

Dismiss ==
    /\ banner # 0 /\ HideAlert
    /\ UNCHANGED <<vars, askVars, local, due>>

(* Bound: switches, drops and the posts of others together.                *)
OthersPosts == {m \in Posts : post[m] # "none"} \ answers
Undisturbed == switches + drops + Cardinality(OthersPosts) < MaxDisturbances

OthersPostHere(m, room) ==
    Undisturbed /\ OthersPost(m, room) /\ UNCHANGED <<askVars, viewVars, due>>

(* What is stored now is in every history read later.                      *)
JoinDue == due' = {m \in Stored : roomOf[m] = shown'}

SwitchHere(room) ==
    /\ Undisturbed
    /\ SwitchRoom(room)
    /\ HideAlert /\ local' = {}
    /\ JoinDue
    /\ UNCHANGED askVars

ConnectHere == Connect /\ JoinDue /\ UNCHANGED <<askVars, viewVars>>

(* The command is lost, or only what became of it; the window cannot tell. *)
DropHere ==
    /\ Undisturbed
    /\ Drop
    /\ command' = IF command = "sent" THEN "refused" ELSE command
    /\ IF \/ \E i \in DOMAIN calls : calls[i].op = "ask"
          \/ \E i \in DOMAIN wire : wire[i].kind \in {"done", "error"}
       THEN RenderLocal({"not sent"}) ELSE UNCHANGED local
    /\ UNCHANGED <<askedIn, answers, outages, alerted, banner, due>>

-----------------------------------------------------------------------------
RoundTripStep ==
    \/ \E m \in Posts : Answer(m) \/ Alert(m) \/ AlertFails(m)
    \/ Settle \/ DeadLetter

JoinStep == JoinLeave \/ JoinEnter \/ JoinRead \/ JoinReply \/ JoinFails

HubStepHere ==
    \/ JoinStep /\ UNCHANGED <<askVars, viewVars, due>>
    \/ AskAccepted \/ AskRefused
    \/ EndAsk("done") \/ EndAsk("error")

ConnectionStepHere ==
    \/ ConnectHere
    \/ GiveUp /\ UNCHANGED <<askVars, viewVars, due>>

PostStepHere(m) == PostStep(m) /\ UNCHANGED <<askVars, viewVars, due>>

(* What happens without the participant, other people or a fault.          *)
SystemStep ==
    \/ RoundTripStep
    \/ \E m \in Posts : PostStepHere(m)
    \/ HubStepHere \/ ConnectionStepHere \/ DeliverHere

ConversationNext ==
    \/ SystemStep
    \/ TypeCommand \/ Dismiss \/ DropHere
    \/ \E room \in Rooms :
           \/ SwitchHere(room)
           \/ \E m \in Posts : OthersPostHere(m, room)

(* The system does not stop with work to do.  No more is needed: it has no *)
(* step it could repeat for ever.                                          *)
ConversationFairness == WF_allVars(SystemStep)

ConversationSpec ==
    ConversationInit /\ [][ConversationNext]_allVars /\ ConversationFairness

-----------------------------------------------------------------------------
(* Properties.                                                             *)

(* What makes the properties below inductive: a command is called for at   *)
(* most once, only an accepted one is answered, and none is at rest while  *)
(* an answer is being posted; an alert, in the wire or on the screen, is   *)
(* about an outage the room was told of; and what was stored when the      *)
(* window asked to join reaches it like an announced post.                 *)
CommandOnce ==
    \A i \in DOMAIN calls : calls[i].op = "ask" =>
        command # "none" /\ \A j \in DOMAIN calls : calls[j].op = "ask" => j = i

AnswersInOrder ==
    /\ command # "none" => askedIn \in Rooms
    /\ answers # {} => command \in {"asked", "settled", "excused"}
    /\ command \in {"settled", "excused"} => Underway = {}
    /\ \A m \in answers : post[m] # "none"

AlertsFollowPosts ==
    /\ \A i \in DOMAIN wire : wire[i].kind = "alert" => wire[i].posts \subseteq Alertable
    /\ banner # 0 => banner \in Alertable

DueFollows == \A m \in due : roomOf[m] = shown /\ Follows(m)

(* The inductive invariant of the conversation.                            *)
ConversationIInv ==
    /\ ConversationTypeOK
    /\ CommandOnce /\ AnswersInOrder /\ AlertsFollowPosts /\ DueFollows

(* PostBotMessageHandler: the banner explains the line the participant     *)
(* just read.  At rest in the room of the answer, a window with a banner   *)
(* also has the line, whatever was overtaken, lost or read back.           *)
BannerHasItsLine ==
    AtRest /\ banner # 0 /\ roomOf[banner] = shown => banner \in Listed \/ PushedOut(banner)

(* PostBotMessageHandler.AnnounceAsync: what could not be pushed is read   *)
(* back from the history on the next join.  A window at rest shows what    *)
(* was stored in its room when it asked to join, announced or not.         *)
HistoryRecoversStored ==
    AtRest => \A m \in due : m \in Listed \/ PushedOut(m)

(* The excuses for showing nothing: the request is dead-lettered, the      *)
(* answer was stored but not pushed or has scrolled out of the history,    *)
(* the window was taken to another room, or says that it is not connected. *)
Excused ==
    \/ command = "excused"
    \/ \E m \in answers : post[m] = "unannounced" \/ (m \in Stored /\ PushedOut(m))
    \/ shown # askedIn
    \/ conn = "closed" \/ status = "NotJoined"

(* README: whoever types /stock= is answered.  A command does not end in   *)
(* silence: the window comes to list an answer or the line "not sent".     *)
CommandEndsVisibly ==
    (command # "none") ~> (answers \cap Listed # {} \/ "not sent" \in local \/ Excused)

=============================================================================
