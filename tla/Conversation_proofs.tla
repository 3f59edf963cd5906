------------------------ MODULE Conversation_proofs -------------------------
(***************************************************************************)
(* Proofs about a participant's conversation with the bot, for any rooms,  *)
(* any history limit and any number of posts, switches and lost            *)
(* connections.  Most steps of the conversation are steps of its chat      *)
(* window, whose proofs are used as they are; what a command adds to them  *)
(* are its call, the reply, and the alert.                                 *)
(***************************************************************************)
EXTENDS Conversation, ChatHistory_proofs

Window == Listening /\ ListOK /\ NothingSlips

-----------------------------------------------------------------------------
(* The steps a command adds.                                               *)

CommandStep ==
    \/ \E m \in Posts : Alert(m)
    \/ TypeCommand \/ EndAsk("done") \/ EndAsk("error")

LEMMA AskIsACall ==
    ASSUME NEW room \in Rooms
    PROVE  AskCall(room) \in Calls /\ AskCall(room).op = "ask"
  BY BoundsAssumption DEF AskCall, Calls

(* What they do to the calls and the wire.                                 *)
LEMMA CommandStepShape ==
    ASSUME Window, CommandStep
    PROVE  /\ UNCHANGED <<postVars, group, current, step, history, conn, windowVars>>
           /\ \/ UNCHANGED calls
              \/ conn = "up" /\ \E c \in Calls : c.op = "ask" /\ calls' = Append(calls, c)
              \/ calls # <<>> /\ Head(calls).op = "ask" /\ calls' = Tail(calls)
           /\ \/ UNCHANGED wire
              \/ conn = "up" /\ \E p \in Parcels : p.kind \notin {"history", "live"}
                                                   /\ wire' = Append(wire, p)
<1>1. ASSUME NEW m \in Posts, Alert(m) PROVE
          /\ UNCHANGED <<postVars, group, current, step, history, conn, windowVars, calls>>
          /\ \/ UNCHANGED wire
             \/ conn = "up" /\ \E p \in Parcels : p.kind \notin {"history", "live"}
                                                  /\ wire' = Append(wire, p)
  <2>1. Parcel("alert", {m}) \in Parcels /\ Parcel("alert", {m}).kind = "alert"
    BY ParcelsAreParcels DEF Parcel
  <2> QED
    BY <1>1, <2>1 DEF Alert, hubVars
<1>2. CASE TypeCommand
  <2>1. shown \in Rooms
    BY DEF Window, Listening, HubTypeOK
  <2> QED
    BY <1>2, <2>1, AskIsACall DEF TypeCommand
<1>3. ASSUME NEW reply \in {"done", "error"}, EndAsk(reply) PROVE
          /\ UNCHANGED <<postVars, group, current, step, history, conn, windowVars>>
          /\ calls # <<>> /\ Head(calls).op = "ask" /\ calls' = Tail(calls)
          /\ conn = "up" /\ \E p \in Parcels : p.kind \notin {"history", "live"}
                                               /\ wire' = Append(wire, p)
  <2>1. Parcel(reply, {}) \in Parcels /\ Parcel(reply, {}).kind = reply
    BY ParcelsAreParcels DEF Parcel
  <2>2. calls # <<>> /\ conn = "up"
    BY <1>3 DEF EndAsk, Running, Window, Listening, HubTypeOK, Subscription
  <2> QED
    BY <1>3, <2>1, <2>2 DEF EndAsk, Running
<1> QED
  BY <1>1, <1>2, <1>3 DEF CommandStep

LEMMA CommandListening == ASSUME Window, CommandStep PROVE Listening'
<1> USE DEF Window, Listening
<1>1. /\ calls \in Seq(Calls) /\ wire \in Seq(Parcels)
      /\ UNCHANGED <<postVars, group, current, step, history, conn, shown>>
  BY CommandStepShape DEF HubTypeOK, windowVars
<1>2. wire' \in Seq(Parcels) /\ (conn # "up" => wire' = <<>>)
  <2>1. CASE UNCHANGED wire
    BY <1>1, <2>1 DEF Subscription
  <2>2. ASSUME conn = "up", NEW p \in Parcels, wire' = Append(wire, p)
        PROVE  wire' \in Seq(Parcels) /\ (conn # "up" => wire' = <<>>)
    BY <1>1, <2>2
  <2> QED
    BY <2>1, <2>2, CommandStepShape
<1>3. CASE UNCHANGED calls
  BY <1>1, <1>2, <1>3 DEF HubTypeOK, Subscription, Membership, Destination, LastJoin, Running, postVars
<1>4. ASSUME NEW c \in Calls, c.op = "ask", calls' = Append(calls, c), conn = "up"
      PROVE  Listening'
  <2>1. calls' \in Seq(Calls) /\ (calls # <<>> => Head(calls') = Head(calls)) /\ calls' # <<>>
    BY <1>1, <1>4
  <2>2. HubTypeOK'
    BY <1>1, <1>2, <2>1 DEF HubTypeOK, postVars
  <2>3. Destination'
    BY <1>1, <1>4, DestinationOfSend DEF Subscription
  <2>4. Membership'
    BY <1>1, <2>1 DEF Subscription, Membership, Running
  <2> QED
    BY <1>1, <1>4, <2>2, <2>3, <2>4 DEF Subscription
<1>5. CASE calls # <<>> /\ Head(calls).op = "ask" /\ calls' = Tail(calls)
  <2>1. calls' \in Seq(Calls) /\ conn = "up"
    BY <1>1, <1>5 DEF Subscription, HubTypeOK
  <2>2. step = "called"
    BY <1>5 DEF Subscription, Membership, Running, HubTypeOK
  <2>3. HubTypeOK'
    BY <1>1, <1>2, <2>1 DEF HubTypeOK, postVars
  <2>4. Destination'
    BY <1>1, <1>5, <2>1, DestinationOfTail DEF Subscription
  <2> QED
    BY <1>1, <2>1, <2>2, <2>3, <2>4 DEF Subscription, Membership
<1> QED
  BY <1>3, <1>4, <1>5, CommandStepShape

LEMMA CommandFollows ==
    ASSUME Window, CommandStep, NEW m \in Stored, Follows(m)
    PROVE  Follows(m)'
<1> USE DEF Window
<1>1. /\ calls \in Seq(Calls) /\ UNCHANGED <<postVars, step, history, conn, list, status>>
      /\ PostsKept
  BY CommandStepShape, SamePostsKept DEF windowVars, Listening, HubTypeOK
<1>2. JoinAhead => JoinAhead'
  <2>1. CASE UNCHANGED calls
    BY <1>1, <2>1 DEF JoinAhead
  <2>2. ASSUME NEW c \in Calls, calls' = Append(calls, c) PROVE JoinAhead => JoinAhead'
    BY <1>1, <2>2, JoinsCalled
  <2>3. CASE calls # <<>> /\ Head(calls).op = "ask" /\ calls' = Tail(calls)
    <3>1. step = "called"
      BY <2>3 DEF Listening, HubTypeOK, Subscription, Membership, Running
    <3> QED
      BY <1>1, <2>3, <3>1, JoinsEnded
  <2> QED
    BY <2>1, <2>2, <2>3, CommandStepShape
<1>3. \/ UNCHANGED wire
      \/ \E p \in Parcels : p.kind # "history" /\ wire' = Append(wire, p)
  BY CommandStepShape
<1> QED
  BY <1>1, <1>2, <1>3, UnrelatedFollows

LEMMA CommandWindow == ASSUME Window, CommandStep PROVE Window'
<1>1. UNCHANGED <<post, roomOf, shown, list, rendered>>
  BY CommandStepShape DEF postVars, windowVars
<1>2. ListOK'
  BY <1>1, SameListOK DEF Window
<1>3. NothingSlips'
  <2> SUFFICES ASSUME NEW m \in Posts, post'[m] = "announced", roomOf'[m] = shown'
               PROVE  Follows(m)'
    BY DEF NothingSlips
  <2>1. m \in Stored /\ Follows(m)
    BY <1>1 DEF Window, NothingSlips, Stored
  <2> QED
    BY <2>1, CommandFollows
<1> QED
  BY <1>2, <1>3, CommandListening DEF Window

-----------------------------------------------------------------------------
(* All other steps are steps of the window.                                *)

LEMMA WindowSteps ==
    ASSUME AnswersInOrder, [ConversationNext]_allVars
    PROVE  [Next]_vars \/ CommandStep
<1>1. CASE \E m \in Posts : Answer(m)
  <2> PICK m \in Posts : Answer(m)
    BY <1>1
  <2>1. askedIn \in Rooms
    BY DEF Answer, AnswersInOrder
  <2>2. OthersPost(m, askedIn)
    BY DEF Answer, OthersPost
  <2> QED
    BY <2>1, <2>2 DEF Next
<1>2. CASE UNCHANGED vars
  BY <1>2
<1>3. CASE JoinStep \/ GiveUp \/ Connect \/ Deliver \/ Drop
           \/ (\E m \in Posts : PostStep(m)) \/ (\E room \in Rooms : SwitchRoom(room))
           \/ (\E room \in Rooms, m \in Posts : OthersPost(m, room))
  BY <1>3 DEF Next, JoinStep, HubStep, ConnectionStep
<1>4. CASE CommandStep
  BY <1>4
<1> QED
  BY <1>1, <1>2, <1>3, <1>4 DEF ConversationNext, SystemStep, RoundTripStep, PostStepHere,
     HubStepHere, ConnectionStepHere, ConnectHere, DeliverHere, DropHere, SwitchHere, CommandStep,
     AskAccepted, AskRefused, PublishRequest, AlertFails, Settle, DeadLetter, Rest, Dismiss,
     OthersPostHere, allVars

LEMMA StepWindow ==
    ASSUME Window, AnswersInOrder, [ConversationNext]_allVars
    PROVE  Window'
  BY WindowSteps, CommandWindow, StepListening, StepListOK, StepNothingSlips DEF Window

-----------------------------------------------------------------------------
(* What every step of the conversation does to the posts, the calls and    *)
(* the wire.                                                               *)

LEMMA PostsAdvanceHere ==
    ASSUME Window, AnswersInOrder, [ConversationNext]_allVars
    PROVE  PostsAdvance /\ PostsKept
<1>1. PostsAdvance
  <2>1. CASE [Next]_vars
    BY <2>1, StepAdvancesPosts DEF Window
  <2>2. CASE CommandStep
    BY <2>2, CommandStepShape DEF postVars, PostsAdvance, Stored
  <2> QED
    BY <2>1, <2>2, WindowSteps
<1>2. PostsKept
  BY <1>1 DEF PostsAdvance, PostsKept, Stored
<1> QED
  BY <1>1, <1>2

(* What is alertable stays so.                                             *)
LEMMA AlertableKept ==
    ASSUME PostsAdvance, outages \subseteq outages', outages \subseteq Posts
    PROVE  Alertable \subseteq Alertable'
  BY DEF Alertable, PostsAdvance

(* Only Alert sends an alert.                                              *)
AlertFree(p) == p.kind = "alert" => p.posts \subseteq Alertable

LEMMA WireHere ==
    ASSUME Window, ConversationTypeOK, AnswersInOrder, [ConversationNext]_allVars
    PROVE  \/ UNCHANGED wire
           \/ wire' = <<>>
           \/ wire # <<>> /\ wire' = Tail(wire)
           \/ \E p \in Parcels : AlertFree(p) /\ wire' = Append(wire, p)
<1>1. ASSUME NEW kind \in {"live", "history", "joinFailed", "sent", "sendFailed", "done", "error"},
             NEW P \in SUBSET Posts, wire' = Append(wire, Parcel(kind, P))
      PROVE  \E p \in Parcels : AlertFree(p) /\ wire' = Append(wire, p)
  <2>1. Parcel(kind, P) \in Parcels /\ Parcel(kind, P).kind # "alert"
    BY ParcelsAreParcels DEF Parcel
  <2> QED
    BY <1>1, <2>1 DEF AlertFree
<1>2. ASSUME NEW m \in Posts, PostStep(m)
      PROVE  UNCHANGED wire \/ wire' = Append(wire, Parcel("live", {m}))
  BY <1>2 DEF PostStep, Commit, Refuse, Broadcast, BroadcastFails, Push
<1>3. CASE JoinReply \/ JoinFails
  <2>1. history \in SUBSET Posts
    BY DEF Window, Listening, HubTypeOK
  <2> QED
    BY <1>1, <1>3, <2>1 DEF JoinReply, JoinFails, EndJoin
<1>4. CASE \E m \in Posts : Alert(m)
  <2> PICK m \in Posts : Alert(m)
    BY <1>4
  <2>1. Parcel("alert", {m}) \in Parcels /\ Parcel("alert", {m}).posts = {m} /\ m \in Alertable
    BY ParcelsAreParcels DEF Parcel, Alert
  <2> QED
    BY <2>1 DEF Alert, AlertFree
<1>5. CASE EndAsk("done") \/ EndAsk("error")
  BY <1>1, <1>5 DEF EndAsk
<1>6. CASE \E m \in Posts : PostStep(m)
  <2> PICK m \in Posts : PostStep(m)
    BY <1>6
  <2>1. CASE UNCHANGED wire
    BY <2>1
  <2>2. CASE wire' = Append(wire, Parcel("live", {m}))
    BY <2>2, <1>1
  <2> QED
    BY <2>1, <2>2, <1>2
<1>7. CASE Deliver \/ Drop \/ UNCHANGED wire
  BY <1>7 DEF Deliver, Drop
<1> QED
  BY <1>3, <1>4, <1>5, <1>6, <1>7 DEF ConversationNext, SystemStep, RoundTripStep, PostStepHere,
     HubStepHere, ConnectionStepHere, ConnectHere, Connect, GiveUp, DeliverHere, DropHere,
     SwitchHere, SwitchRoom, JoinStep, JoinLeave, JoinEnter, JoinRead, Answer, AlertFails, Settle,
     DeadLetter, Rest, TypeCommand, AskAccepted, AskRefused, PublishRequest, Dismiss,
     OthersPostHere, OthersPost, allVars, vars

LEMMA AlertsInWire ==
    ASSUME wire \in Seq(Parcels),
           \A i \in DOMAIN wire : AlertFree(wire[i]), Alertable \subseteq Alertable',
           \/ UNCHANGED wire
           \/ wire' = <<>>
           \/ wire # <<>> /\ wire' = Tail(wire)
           \/ \E p \in Parcels : AlertFree(p) /\ wire' = Append(wire, p)
    PROVE  \A i \in DOMAIN wire' : wire'[i].kind = "alert" => wire'[i].posts \subseteq Alertable'
<1> SUFFICES ASSUME NEW i \in DOMAIN wire' PROVE AlertFree(wire'[i])
  BY DEF AlertFree
<1>1. CASE UNCHANGED wire
  BY <1>1
<1>a. CASE wire' = <<>>
  <2>1. DOMAIN wire' = {}
    BY <1>a
  <2> QED
    BY <2>1
<1>2. CASE wire # <<>> /\ wire' = Tail(wire)
  <2>1. i + 1 \in DOMAIN wire /\ wire'[i] = wire[i + 1]
    BY <1>2
  <2> QED
    BY <2>1
<1>3. ASSUME NEW p \in Parcels, AlertFree(p), wire' = Append(wire, p) PROVE AlertFree(wire'[i])
  <2>1. (i \in DOMAIN wire /\ wire'[i] = wire[i]) \/ wire'[i] = p
    BY <1>3
  <2> QED
    BY <2>1, <1>3
<1> QED
  BY <1>1, <1>a, <1>2, <1>3

-----------------------------------------------------------------------------
(* The invariant, part by part.                                            *)

(* A call that ends, and one that is added.                                *)
LEMMA CommandOnceTail ==
    ASSUME calls \in Seq(Calls), calls # <<>>, calls' = Tail(calls), CommandOnce, UNCHANGED command
    PROVE  CommandOnce'
<1>1. \A i \in DOMAIN calls' : i \in Int /\ i + 1 \in DOMAIN calls /\ calls'[i] = calls[i + 1]
  OBVIOUS
<1>2. ASSUME NEW i \in DOMAIN calls', calls'[i].op = "ask"
      PROVE  command' # "none" /\ \A j \in DOMAIN calls' : calls'[j].op = "ask" => j = i
  <2>1. /\ command # "none"
        /\ \A j \in DOMAIN calls : calls[j].op = "ask" => j = i + 1
    BY <1>1, <1>2 DEF CommandOnce
  <2>2. ASSUME NEW j \in DOMAIN calls', calls'[j].op = "ask" PROVE j = i
    <3>1. j + 1 = i + 1 /\ i \in Int /\ j \in Int
      BY <1>1, <2>1, <2>2
    <3> QED BY <3>1
  <2> QED BY <2>1, <2>2
<1> QED
  BY <1>2 DEF CommandOnce

LEMMA CommandOnceAppend ==
    ASSUME calls \in Seq(Calls), NEW c \in Calls, calls' = Append(calls, c), CommandOnce,
           \/ c.op # "ask" /\ command' = command
           \/ command = "none" /\ command' = "sent"
    PROVE  CommandOnce'
<1>1. /\ \A i \in DOMAIN calls' : (i \in DOMAIN calls /\ calls'[i] = calls[i])
                                  \/ (i = Len(calls) + 1 /\ calls'[i] = c)
  OBVIOUS
<1> QED
  BY <1>1 DEF CommandOnce

LEMMA StepCommandOnce ==
    ASSUME Window, ConversationIInv, [ConversationNext]_allVars
    PROVE  CommandOnce'
<1> USE DEF ConversationIInv
<1>0. calls \in Seq(Calls) /\ shown \in Rooms
  BY DEF Window, Listening, HubTypeOK
<1>1. CASE UNCHANGED <<calls, command>>
  BY <1>1 DEF CommandOnce
<1>2. CASE \E room \in Rooms : SwitchHere(room)
  <2> PICK room \in Rooms : SwitchHere(room)
    BY <1>2
  <2>1. UNCHANGED command /\ (UNCHANGED calls \/ calls' = Append(calls, JoinCall(room)))
    BY DEF SwitchHere, SwitchRoom, askVars
  <2>2. JoinCall(room) \in Calls /\ JoinCall(room).op # "ask"
    BY CallsAreCalls DEF JoinCall
  <2> QED
    BY <1>0, <1>1, <2>1, <2>2, CommandOnceAppend
<1>3. CASE ConnectHere
  BY <1>3 DEF ConnectHere, Connect, JoinCall, CommandOnce
<1>4. CASE DropHere
  <2>1. calls' = <<>>
    BY <1>4 DEF DropHere, Drop
  <2>2. DOMAIN calls' = {}
    BY <2>1
  <2> QED
    BY <2>2 DEF CommandOnce
<1>5. CASE TypeCommand
  <2>1. command = "none" /\ (\A i \in DOMAIN calls : calls[i].op # "ask")
    BY <1>5 DEF TypeCommand, CommandOnce
  <2>2. CASE conn = "up"
    BY <1>0, <1>5, <2>1, <2>2, AskIsACall, CommandOnceAppend DEF TypeCommand
  <2>3. CASE conn # "up"
    BY <1>5, <2>1, <2>3 DEF TypeCommand, CommandOnce
  <2> QED
    BY <2>2, <2>3
<1>6. CASE EndAsk("done") \/ EndAsk("error")
  BY <1>0, <1>6, CommandOnceTail DEF EndAsk, Running, askVars
<1>7. CASE (JoinReply \/ JoinFails) /\ UNCHANGED askVars
  BY <1>0, <1>7, CommandOnceTail DEF JoinReply, JoinFails, EndJoin, Running, askVars
<1>8. CASE AskAccepted \/ AskRefused \/ Settle \/ DeadLetter
  <2>1. command' # "none" /\ UNCHANGED calls
    BY <1>8 DEF AskAccepted, AskRefused, PublishRequest, Settle, DeadLetter, Rest, vars, hubVars
  <2> QED BY <2>1 DEF CommandOnce
<1> QED
  BY <1>1, <1>2, <1>3, <1>4, <1>5, <1>6, <1>7, <1>8 DEF ConversationNext, SystemStep, RoundTripStep,
     PostStepHere, PostStep, Commit, Refuse, Broadcast, BroadcastFails, HubStepHere,
     ConnectionStepHere, GiveUp, DeliverHere, Deliver, JoinStep, JoinLeave, JoinEnter, JoinRead,
     Answer, Alert, AlertFails, Dismiss, OthersPostHere, OthersPost, allVars, vars, hubVars, askVars

LEMMA StepDueFollows ==
    ASSUME Window, ConversationIInv, [ConversationNext]_allVars
    PROVE  DueFollows'
<1> USE DEF ConversationIInv
<1>0. due \subseteq Stored /\ PostsKept
  BY PostsAdvanceHere DEF ConversationTypeOK
<1>1. CASE \E room \in Rooms : SwitchHere(room)
  <2>1. \A m : Follows(m)'
    BY <1>1, SwitchFollows DEF SwitchHere, Window
  <2>2. due' = {m \in Stored : roomOf[m] = shown'} /\ UNCHANGED roomOf
    BY <1>1 DEF SwitchHere, SwitchRoom, JoinDue, postVars
  <2> QED
    BY <2>1, <2>2 DEF DueFollows
<1>2. CASE ConnectHere
  <2>1. \A m : Follows(m)'
    BY <1>2, ConnectFollows DEF ConnectHere, Window
  <2>2. due' = {m \in Stored : roomOf[m] = shown'} /\ UNCHANGED roomOf
    BY <1>2 DEF ConnectHere, Connect, JoinDue, postVars
  <2> QED
    BY <2>1, <2>2 DEF DueFollows
<1>3. CASE UNCHANGED <<due, shown>>
  <2>1. ASSUME NEW m \in due PROVE roomOf'[m] = shown' /\ Follows(m)'
    <3>1. m \in Stored /\ roomOf[m] = shown /\ Follows(m)
      BY <1>0 DEF DueFollows
    <3>2. Follows(m)'
      BY <3>1, WindowSteps, StepFollows, CommandFollows DEF Window
    <3> QED
      BY <3>1, <3>2, <1>0, <1>3 DEF PostsKept
  <2> QED
    BY <2>1, <1>3 DEF DueFollows
<1>4. CASE UNCHANGED due /\ UNCHANGED windowVars
  BY <1>3, <1>4 DEF windowVars
<1> QED
  BY <1>1, <1>2, <1>3, <1>4 DEF ConversationNext, SystemStep, RoundTripStep, PostStepHere,
     PostStep, Commit, Refuse, Broadcast, BroadcastFails, HubStepHere, ConnectionStepHere, GiveUp,
     DeliverHere, Deliver, JoinStep, JoinLeave, JoinEnter, JoinRead, JoinReply, JoinFails, EndJoin,
     Answer, Alert, AlertFails, Settle, DeadLetter, Rest, Dismiss, TypeCommand, AskAccepted,
     AskRefused, PublishRequest, EndAsk, DropHere, Drop, OthersPostHere, OthersPost, allVars, vars

(* The banner and the alerts on their way are about announced outages.     *)
LEMMA StepAlertsFollowPosts ==
    ASSUME Window, ConversationIInv, [ConversationNext]_allVars
    PROVE  AlertsFollowPosts'
<1> USE DEF ConversationIInv
<1>1. PostsAdvance /\ wire \in Seq(Parcels) /\ outages \subseteq Posts
  BY PostsAdvanceHere DEF Window, Listening, HubTypeOK, ConversationTypeOK
<1>2. outages \subseteq outages'
  BY DEF ConversationNext, SystemStep, RoundTripStep, PostStepHere, HubStepHere,
     ConnectionStepHere, ConnectHere, DeliverHere, DropHere, SwitchHere, Answer, Alert, AlertFails,
     Settle, DeadLetter, Rest, TypeCommand, Dismiss, AskAccepted, AskRefused, PublishRequest,
     EndAsk, askVars, OthersPostHere, allVars
<1>3. Alertable \subseteq Alertable'
  BY <1>1, <1>2, AlertableKept
<1>4. \A i \in DOMAIN wire' : wire'[i].kind = "alert" => wire'[i].posts \subseteq Alertable'
  BY <1>1, <1>3, WireHere, AlertsInWire DEF AlertsFollowPosts, AlertFree
<1>5. banner' # 0 => banner' \in Alertable
  <2>1. CASE DeliverHere /\ Head(wire).kind = "alert"
    <3>1. wire # <<>> /\ banner' \in Head(wire).posts
      BY <2>1 DEF DeliverHere, Deliver, ShowAlert
    <3>2. 1 \in DOMAIN wire /\ Head(wire) = wire[1]
      BY <3>1, <1>1
    <3> QED
      BY <3>1, <3>2, <2>1 DEF AlertsFollowPosts
  <2>2. CASE UNCHANGED banner \/ banner' = 0
    BY <2>2 DEF AlertsFollowPosts
  <2> QED
    BY <2>1, <2>2 DEF ConversationNext, SystemStep, RoundTripStep, PostStepHere, HubStepHere,
       ConnectionStepHere, ConnectHere, DeliverHere, DropHere, SwitchHere, Answer, Alert,
       AlertFails, Settle, DeadLetter, Rest, TypeCommand, Dismiss, AskAccepted, AskRefused,
       PublishRequest, EndAsk, vars, askVars, windowVars, HideAlert, viewVars, OthersPostHere, allVars
<1> QED
  BY <1>3, <1>4, <1>5 DEF AlertsFollowPosts

LEMMA StepAnswersInOrder ==
    ASSUME Window, ConversationIInv, [ConversationNext]_allVars
    PROVE  AnswersInOrder' /\ ConversationTypeOK'
<1> USE DEF ConversationIInv, ConversationTypeOK
<1>1. /\ PostsAdvance /\ PostsKept /\ shown \in Rooms /\ Window'
      /\ post' \in [Posts -> {"none", "stamped", "stored", "announced", "unannounced", "refused"}]
  BY PostsAdvanceHere, StepWindow DEF Window, Listening, HubTypeOK
<1>2. /\ \A m \in answers : m \in Posts /\ roomOf'[m] = askedIn /\ post'[m] # "none"
      /\ {m \in answers : post'[m] \in {"stamped", "stored"}} \subseteq Underway
  BY <1>1 DEF PostsAdvance, AnswersInOrder, Underway
<1>3. /\ banner' # 0 => banner' \in outages'
      /\ due' \subseteq Stored'
  <2>1. AlertsFollowPosts'
    BY StepAlertsFollowPosts
  <2>2. due' = due \/ (due' \subseteq Stored /\ Stored \subseteq Stored')
    BY <1>1 DEF PostsKept, ConversationNext, SystemStep, RoundTripStep, PostStepHere, HubStepHere,
       ConnectionStepHere, ConnectHere, DeliverHere, DropHere, SwitchHere, Answer, Alert,
       AlertFails, Settle, DeadLetter, Rest, TypeCommand, Dismiss, AskAccepted, AskRefused,
       PublishRequest, EndAsk, vars, askVars, windowVars, JoinDue, Connect, SwitchRoom, postVars, Stored,
       OthersPostHere, allVars
  <2> QED
    BY <2>1, <2>2, <1>1 DEF AlertsFollowPosts, Alertable, PostsKept
<1>4. local' \subseteq {"you typed", "not sent"}
  BY DEF ConversationNext, SystemStep, RoundTripStep, PostStepHere, HubStepHere,
     ConnectionStepHere, ConnectHere, DeliverHere, DropHere, SwitchHere, Answer, Alert,
     AlertFails, Settle, DeadLetter, Rest, TypeCommand, Dismiss, AskAccepted, AskRefused,
     PublishRequest, EndAsk, RenderLocal, viewVars, OthersPostHere, allVars
<1>5. ASSUME UNCHANGED <<askedIn, answers, outages>>,
             alerted' \subseteq answers,
             command' \in {command, "refused", "asked", "settled", "excused"},
             command # "none" \/ command' = command,
             command' # command => \/ answers = {} /\ command' \in {"refused", "asked"}
                                   \/ Underway = {} /\ command' \in {"settled", "excused"}
      PROVE  AnswersInOrder' /\ ConversationTypeOK'
  BY <1>1, <1>2, <1>3, <1>4, <1>5 DEF AnswersInOrder, Underway
<1>6. CASE UNCHANGED askVars
  BY <1>5, <1>6 DEF askVars
<1>7. CASE AskAccepted \/ AskRefused
  <2>1. command = "sent" /\ command' \in {"asked", "refused"} /\ UNCHANGED <<askedIn, answers, outages, alerted>>
    BY <1>7 DEF AskAccepted, AskRefused, PublishRequest
  <2> QED BY <1>5, <2>1 DEF AnswersInOrder
<1>8. CASE DropHere \/ Settle \/ DeadLetter
  BY <1>5, <1>8 DEF DropHere, Settle, DeadLetter, Rest, AnswersInOrder
<1>9. CASE \E m \in Posts : Alert(m) \/ AlertFails(m)
  BY <1>5, <1>9 DEF Alert, AlertFails, Alertable
<1>10. CASE TypeCommand
  BY <1>1, <1>2, <1>3, <1>4, <1>10 DEF TypeCommand, AnswersInOrder, Underway
<1>11. CASE \E m \in Posts : Answer(m)
  <2> PICK m \in Posts : Answer(m)
    BY <1>11
  <2>1. /\ command = "asked" /\ UNCHANGED <<command, askedIn, alerted>> /\ post'[m] = "stamped"
        /\ roomOf'[m] = askedIn /\ answers' = answers \cup {m}
        /\ outages' \in {outages, outages \cup {m}}
    BY DEF Answer, Stamp, Window, Listening, HubTypeOK
  <2> QED
    BY <1>1, <1>2, <1>3, <1>4, <2>1 DEF AnswersInOrder, Underway
<1> QED
  BY <1>6, <1>7, <1>8, <1>9, <1>10, <1>11 DEF ConversationNext, SystemStep, RoundTripStep,
     PostStepHere, HubStepHere, ConnectionStepHere, ConnectHere, DeliverHere, SwitchHere, Dismiss,
     EndAsk, askVars, OthersPostHere, allVars

LEMMA InitConversation == ConversationInit => Window /\ ConversationIInv
<1> SUFFICES ASSUME ConversationInit PROVE Window /\ ConversationIInv
  OBVIOUS
<1>1. Init
  BY DEF ConversationInit
<1>2. Window
  BY <1>1, InitListed, PartsOfIInv DEF Window
<1>3. ConversationTypeOK
  BY <1>1 DEF ConversationInit, Init, ConversationTypeOK
<1>4. CommandOnce /\ AnswersInOrder /\ AlertsFollowPosts /\ DueFollows
  BY <1>1 DEF ConversationInit, Init, CommandOnce, AnswersInOrder, AlertsFollowPosts, DueFollows
<1> QED
  BY <1>2, <1>3, <1>4 DEF ConversationIInv

LEMMA StepConversation ==
    Window /\ ConversationIInv /\ [ConversationNext]_allVars => Window' /\ ConversationIInv'
<1> SUFFICES ASSUME Window, ConversationIInv, [ConversationNext]_allVars
             PROVE  Window' /\ ConversationIInv'
  OBVIOUS
<1>1. AnswersInOrder
  BY DEF ConversationIInv
<1> QED
  BY <1>1, StepWindow, StepCommandOnce, StepDueFollows, StepAlertsFollowPosts, StepAnswersInOrder
  DEF ConversationIInv

-----------------------------------------------------------------------------
(* The inductive invariant of the conversation, whatever the rooms, the    *)
(* history limit and the numbers of posts, switches and lost connections.  *)
THEOREM ConversationConsistent == ConversationSpec => []ConversationIInv
  BY InitConversation, StepConversation, PTL DEF ConversationSpec

LEMMA WindowAlways == ConversationSpec => []Window
  BY InitConversation, StepConversation, PTL DEF ConversationSpec

(* At rest, a post that is followed is listed or pushed out.               *)
LEMMA FollowedIsShown ==
    ASSUME Window, AtRest, NEW m, Follows(m)
    PROVE  m \in Listed \/ PushedOut(m)
<1>1. JoinsRead /\ step # "read"
  BY DEF AtRest, JoinsRead, JoinAhead, Window, Listening, Subscription, Membership, Running
<1>2. ~OnItsWay(m) /\ ~EndsUnjoined
  BY DEF AtRest, OnItsWay, EndsUnjoined
<1> QED
  BY <1>1, <1>2 DEF Follows, Reaches

(* A banner never stands alone: at rest in the room of its answer, the     *)
(* window also lists the line that says the quote could not be looked up,  *)
(* however the broadcast, the alert, the joins and the drops interleaved.  *)
THEOREM BannerIsExplained == ConversationSpec => []BannerHasItsLine
<1>1. Window /\ ConversationIInv => BannerHasItsLine
  <2> SUFFICES ASSUME Window, ConversationIInv, AtRest, banner # 0, roomOf[banner] = shown
               PROVE  banner \in Listed \/ PushedOut(banner)
    BY DEF BannerHasItsLine
  <2>1. banner \in Posts /\ post[banner] = "announced"
    BY DEF ConversationIInv, ConversationTypeOK, AlertsFollowPosts, Alertable
  <2>2. Follows(banner)
    BY <2>1 DEF Window, NothingSlips
  <2> QED
    BY <2>2, FollowedIsShown
<1> QED
  BY <1>1, ConversationConsistent, WindowAlways, PTL

(* What could not be pushed is read back: a window at rest shows what was  *)
(* stored in its room when it asked to join, announced or not.             *)
THEOREM HistoryFillsIn == ConversationSpec => []HistoryRecoversStored
<1>1. Window /\ ConversationIInv => HistoryRecoversStored
  BY FollowedIsShown DEF HistoryRecoversStored, ConversationIInv, DueFollows
<1> QED
  BY <1>1, ConversationConsistent, WindowAlways, PTL

=============================================================================
