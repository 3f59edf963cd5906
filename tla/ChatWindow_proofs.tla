------------------------- MODULE ChatWindow_proofs -------------------------
(***************************************************************************)
(* Proofs about one chat window, for any rooms, any history limit and any  *)
(* number of posts, switches and lost connections: however the calls of    *)
(* the window, the drops of its connection and the steps of JoinRoom       *)
(* interleave, it ends up listening to the room it shows and to no other.  *)
(***************************************************************************)
EXTENDS ChatWindow, FiniteSetTheorems, TLAPS

Listening == HubTypeOK /\ Subscription

-----------------------------------------------------------------------------
(* The queue of hub invocations.                                           *)

LEMMA CallsAreCalls ==
    ASSUME NEW room \in Rooms
    PROVE  JoinCall(room) \in Calls /\ SendCall(room) \in Calls
  BY BoundsAssumption DEF JoinCall, SendCall, Calls

LEMMA RunningCall ==
    ASSUME calls \in Seq(Calls), calls # <<>>
    PROVE  /\ Head(calls) = calls[1] /\ 1 \in DOMAIN calls /\ Tail(calls) \in Seq(Calls)
           /\ Head(calls).op \in {"join", "send", "ask"}
           /\ Head(calls).room \in Rooms /\ Head(calls).post \in 0 .. MaxPosts
<1>1. Head(calls) = calls[1] /\ 1 \in DOMAIN calls /\ Tail(calls) \in Seq(Calls)
  OBVIOUS
<1>2. calls[1] \in Calls
  BY <1>1
<1> QED
  BY <1>1, <1>2 DEF Calls

(* A join that is called last is the one that decides.                     *)
LEMMA DestinationOfJoin ==
    ASSUME calls \in Seq(Calls), NEW room \in Rooms,
           calls' = Append(calls, JoinCall(room)), shown' = room
    PROVE  Destination'
<1>1. /\ Len(calls') = Len(calls) + 1 /\ DOMAIN calls' = 1 .. Len(calls')
      /\ calls'[Len(calls) + 1] = JoinCall(room) /\ Len(calls) \in Nat
  BY CallsAreCalls
<1>2. calls'[Len(calls')].op = "join" /\ calls'[Len(calls')].room = shown'
  BY <1>1 DEF JoinCall
<1>3. ASSUME NEW i \in DOMAIN calls', LastJoin(i)'
      PROVE  calls'[i].room = shown'
  BY <1>1, <1>2, <1>3 DEF LastJoin
<1> QED
  BY <1>1, <1>2, <1>3 DEF Destination

(* Any other call decides nothing.                                         *)
LEMMA DestinationOfSend ==
    ASSUME calls \in Seq(Calls), NEW c \in Calls, c.op # "join", Destination,
           calls' = Append(calls, c), UNCHANGED <<shown, current>>
    PROVE  Destination'
<1>1. /\ Len(calls') = Len(calls) + 1 /\ Len(calls) \in Nat
      /\ DOMAIN calls = 1 .. Len(calls) /\ DOMAIN calls' = 1 .. Len(calls')
      /\ calls'[Len(calls')].op # "join"
      /\ \A i \in 1 .. Len(calls) : calls'[i] = calls[i]
  OBVIOUS
<1>2. ASSUME NEW i \in DOMAIN calls', LastJoin(i)'
      PROVE  i \in DOMAIN calls /\ LastJoin(i)
  BY <1>1, <1>2 DEF LastJoin
<1> QED
  BY <1>1, <1>2 DEF Destination

(* When a call has ended, those behind it decide; a join that was the last *)
(* one has left its room behind as the current one.                        *)
LEMMA DestinationOfTail ==
    ASSUME calls \in Seq(Calls), calls # <<>>, Destination,
           calls' = Tail(calls), UNCHANGED <<shown, current>>,
           Head(calls).op = "join" => current = Head(calls).room
    PROVE  Destination'
<1>1. /\ Len(calls) \in Nat /\ Len(calls) > 0 /\ Len(calls') = Len(calls) - 1
      /\ DOMAIN calls = 1 .. Len(calls) /\ DOMAIN calls' = 1 .. Len(calls')
      /\ \A i \in 1 .. Len(calls') : calls'[i] = calls[i + 1]
      /\ Head(calls) = calls[1]
  OBVIOUS
<1>2. ASSUME NEW i \in DOMAIN calls', LastJoin(i)'
      PROVE  i + 1 \in DOMAIN calls /\ LastJoin(i + 1) /\ calls'[i] = calls[i + 1]
  <2>1. i + 1 \in DOMAIN calls /\ calls[i + 1].op = "join" /\ calls'[i] = calls[i + 1]
    BY <1>1, <1>2 DEF LastJoin
  <2>2. ASSUME NEW j \in DOMAIN calls, j > i + 1
        PROVE  calls[j].op # "join"
    <3>1. j - 1 \in DOMAIN calls' /\ j - 1 > i /\ calls'[j - 1] = calls[j]
      BY <1>1, <2>2
    <3> QED
      BY <3>1, <1>2 DEF LastJoin
  <2> QED
    BY <2>1, <2>2 DEF LastJoin
<1>3. CASE \E i \in DOMAIN calls' : calls'[i].op = "join"
  <2>1. \E i \in DOMAIN calls : calls[i].op = "join"
    BY <1>1, <1>3
  <2> QED
    BY <1>2, <1>3, <2>1 DEF Destination
<1>4. CASE ~ \E i \in DOMAIN calls' : calls'[i].op = "join"
  <2>1. \A j \in DOMAIN calls : j > 1 => calls[j].op # "join"
    <3> SUFFICES ASSUME NEW j \in DOMAIN calls, j > 1 PROVE calls[j].op # "join"
      OBVIOUS
    <3>1. j - 1 \in DOMAIN calls' /\ calls'[j - 1] = calls[j]
      BY <1>1
    <3> QED
      BY <3>1, <1>4
  <2>2. CASE Head(calls).op = "join"
    <3>1. 1 \in DOMAIN calls /\ LastJoin(1)
      BY <1>1, <2>1, <2>2 DEF LastJoin
    <3>2. calls[1].room = shown
      BY <3>1 DEF Destination, LastJoin
    <3> QED
      BY <3>2, <2>2, <1>1, <1>4 DEF Destination
  <2>3. CASE Head(calls).op # "join"
    <3>1. \A j \in DOMAIN calls : calls[j].op # "join"
      BY <1>1, <2>1, <2>3
    <3> QED
      BY <3>1, <1>4 DEF Destination
  <2> QED
    BY <2>2, <2>3
<1> QED
  BY <1>3, <1>4

-----------------------------------------------------------------------------
(* The steps.                                                              *)

LEMMA InitListening == Init => Listening
  BY RoomsAssumption, BoundsAssumption
     DEF Init, Listening, HubTypeOK, Subscription, Membership, Running

(* Posts come and go without moving the connection.                        *)
LEMMA StampListening ==
    ASSUME Listening, NEW m \in Posts, NEW room \in Rooms, OthersPost(m, room)
    PROVE  Listening'
  BY DEF Listening, HubTypeOK, Subscription, Membership, Destination, LastJoin, Running,
         OthersPost, Stamp, hubVars, windowVars

(* Only a connection in the room's group is sent anything.                 *)
LEMMA ParcelsAreParcels ==
    \A kind \in {"live", "history", "joinFailed", "sent", "sendFailed", "done", "error", "alert"}, P \in SUBSET Posts :
        Parcel(kind, P) \in Parcels
  BY DEF Parcel, Parcels

LEMMA PushKeeps ==
    ASSUME Listening, NEW m \in Posts, Push(m), UNCHANGED <<conn, group>>
    PROVE  /\ wire' \in Seq(Parcels)
           /\ conn # "up" => wire' = <<>>
  BY ParcelsAreParcels DEF Listening, HubTypeOK, Subscription, Push

LEMMA PostListening ==
    ASSUME Listening, NEW m \in Posts, PostStep(m)
    PROVE  Listening'
<1>1. CASE Commit(m) \/ Refuse(m)
  BY <1>1 DEF Commit, Refuse, Listening, HubTypeOK, Subscription, Membership,
              Destination, LastJoin, Running, hubVars, windowVars
<1>2. CASE Broadcast(m) \/ BroadcastFails(m)
  <2>1. /\ wire' \in Seq(Parcels)
        /\ conn # "up" => wire' = <<>>
    BY <1>2, PushKeeps DEF Broadcast, BroadcastFails, hubVars, Listening, HubTypeOK, Subscription
  <2>2. /\ post' \in [Posts -> {"none", "stamped", "stored", "announced", "unannounced", "refused"}]
        /\ UNCHANGED <<roomOf, hubVars, conn, shown>>
    BY <1>2 DEF Broadcast, BroadcastFails, windowVars, Listening, HubTypeOK
  <2> QED
    BY <2>1, <2>2 DEF Listening, HubTypeOK, Subscription, Membership, Destination,
                      LastJoin, Running, hubVars
<1> QED
  BY <1>1, <1>2 DEF PostStep

LEMMA BeginSendListening ==
    ASSUME Listening, NEW m \in Posts, BeginSend(m)
    PROVE  Listening'
<1> USE DEF Listening
<1>1. /\ calls \in Seq(Calls) /\ calls # <<>> /\ Head(calls) = calls[1] /\ calls[1].op = "send"
      /\ calls' = [calls EXCEPT ![1].post = m] /\ Head(calls).room \in Rooms
  <2>1. calls \in Seq(Calls) /\ calls # <<>>
    BY DEF BeginSend, Running, HubTypeOK
  <2> QED
    BY <2>1, RunningCall DEF BeginSend, Running
<1>2. /\ calls' \in Seq(Calls) /\ Len(calls') = Len(calls) /\ calls' # <<>>
      /\ DOMAIN calls' = DOMAIN calls
      /\ \A i \in DOMAIN calls : calls'[i].op = calls[i].op /\ calls'[i].room = calls[i].room
  <2>1. /\ DOMAIN calls = 1 .. Len(calls) /\ Len(calls) \in Nat /\ 1 \in DOMAIN calls
        /\ \A i \in DOMAIN calls : calls[i] \in Calls
    BY <1>1
  <2>2. [calls[1] EXCEPT !.post = m] \in Calls
    <3>1. m \in 0 .. MaxPosts /\ calls[1] \in Calls
      BY <2>1, BoundsAssumption DEF Posts
    <3> QED
      BY <3>1 DEF Calls
  <2>3. /\ DOMAIN calls' = DOMAIN calls
        /\ calls'[1] = [calls[1] EXCEPT !.post = m]
        /\ \A i \in DOMAIN calls : i # 1 => calls'[i] = calls[i]
    BY <1>1, <2>1
  <2>4. calls' = [i \in 1 .. Len(calls) |-> calls'[i]]
    BY <1>1, <2>1
  <2>5. \A i \in 1 .. Len(calls) : calls'[i] \in Calls
    BY <2>1, <2>2, <2>3
  <2>6. calls' \in Seq(Calls) /\ Len(calls') = Len(calls)
    BY <2>1, <2>4, <2>5
  <2>7. calls'[1].op = calls[1].op /\ calls'[1].room = calls[1].room
    BY <2>1, <2>3 DEF Calls
  <2> QED
    BY <1>1, <2>1, <2>3, <2>6, <2>7
<1>3. UNCHANGED <<group, current, step, history, wire, conn, shown>> /\ step = "called"
  BY <1>1 DEF BeginSend, windowVars, Subscription, Membership, Running, HubTypeOK
<1>4. /\ post' \in [Posts -> {"none", "stamped", "stored", "announced", "unannounced", "refused"}]
      /\ roomOf' \in [Posts -> Rooms \cup {None}]
  BY <1>1 DEF BeginSend, Stamp, HubTypeOK
<1>5. HubTypeOK'
  BY <1>2, <1>3, <1>4 DEF HubTypeOK, Calls
<1>6. conn = "up"
  BY <1>1 DEF Subscription, HubTypeOK
<1>7. Destination'
  BY <1>2, <1>3, <1>6 DEF Subscription, Destination, LastJoin
<1>8. Membership'
  BY <1>3 DEF Subscription, Membership
<1> QED
  BY <1>3, <1>5, <1>6, <1>7, <1>8 DEF Subscription

LEMMA EndSendListening == ASSUME Listening, EndSend PROVE Listening'
<1> USE DEF Listening
<1>1. /\ calls \in Seq(Calls) /\ calls # <<>> /\ Head(calls).op = "send"
      /\ calls' = Tail(calls) /\ conn = "up"
  BY DEF EndSend, Running, HubTypeOK, Calls, Subscription
<1>2. UNCHANGED <<postVars, group, current, step, history, conn, shown>> /\ step = "called"
  BY <1>1 DEF EndSend, windowVars, Subscription, Membership, Running, HubTypeOK
<1>3. calls' \in Seq(Calls)
  BY <1>1
<1>4. wire' \in Seq(Parcels)
  <2>1. Head(calls).post \in Posts
    BY <1>1, RunningCall, BoundsAssumption DEF EndSend, Posts
  <2>2. \A kind \in {"sent", "sendFailed"} : Parcel(kind, {Head(calls).post}) \in Parcels
    BY <2>1, ParcelsAreParcels
  <2> QED
    BY <2>2 DEF EndSend, HubTypeOK
<1>5. HubTypeOK'
  BY <1>2, <1>3, <1>4 DEF HubTypeOK, Calls, postVars
<1>6. Destination'
  BY <1>1, <1>2, DestinationOfTail DEF Subscription
<1> QED
  BY <1>1, <1>2, <1>5, <1>6 DEF Subscription, Membership

LEMMA JoinListening == ASSUME Listening, JoinLeave \/ JoinEnter \/ JoinRead PROVE Listening'
<1> USE DEF Listening
<1>1. /\ calls \in Seq(Calls) /\ Running("join") /\ calls # <<>>
      /\ Head(calls) = calls[1] /\ 1 \in DOMAIN calls /\ calls[1].op = "join"
      /\ conn = "up" /\ Head(calls).room \in Rooms /\ Head(calls).room # None
      /\ UNCHANGED <<postVars, calls, wire, conn, shown>>
  <2>1. calls \in Seq(Calls) /\ Running("join") /\ calls # <<>> /\ Head(calls).op = "join"
    BY DEF JoinLeave, JoinEnter, JoinRead, Running, HubTypeOK
  <2>2. conn = "up" /\ UNCHANGED <<postVars, calls, wire, conn, shown>>
    BY <2>1 DEF JoinLeave, JoinEnter, JoinRead, Subscription, windowVars
  <2> QED
    BY <2>1, <2>2, RunningCall, RoomsAssumption
<1>2. Destination'
  BY <1>1 DEF Subscription, Destination, LastJoin
<1>3. CASE JoinLeave
  <2>1. group \subseteq {current} /\ step' = "left" /\ UNCHANGED <<current, history>>
    BY <1>3 DEF JoinLeave, Subscription, Membership
  <2>2. group' \subseteq group /\ group' \subseteq {Head(calls).room}
    <3>1. group \subseteq Rooms
      BY DEF HubTypeOK
    <3> QED
      BY <3>1, <2>1, <1>3, RoomsAssumption DEF JoinLeave, LeavePreviousRoom
  <2>3. HubTypeOK'
    BY <1>1, <2>1, <2>2 DEF HubTypeOK, postVars
  <2>4. Membership'
    BY <1>1, <2>1, <2>2 DEF Membership, Running
  <2> QED
    BY <1>1, <1>2, <2>3, <2>4 DEF Subscription
<1>4. CASE JoinEnter
  <2>1. group \subseteq {Head(calls).room}
    BY <1>4 DEF JoinEnter, Subscription, Membership
  <2> QED
    BY <2>1, <1>1, <1>2, <1>4 DEF JoinEnter, Subscription, Membership, HubTypeOK, Running, postVars
<1>5. CASE JoinRead
  <2>1. history' \subseteq Posts
    BY <1>5 DEF JoinRead, Latest, Stored
  <2> QED
    BY <2>1, <1>1, <1>2, <1>5 DEF JoinRead, Subscription, Membership, HubTypeOK, Running, postVars
<1> QED
  BY <1>3, <1>4, <1>5

LEMMA EndJoinListening == ASSUME Listening, JoinReply \/ JoinFails PROVE Listening'
<1> USE DEF Listening
<1>1. /\ calls \in Seq(Calls) /\ calls # <<>> /\ Head(calls).op = "join"
      /\ step \in {"entered", "read"} /\ current = Head(calls).room
      /\ calls' = Tail(calls) /\ step' = "called" /\ history' = {} /\ conn = "up"
      /\ UNCHANGED <<postVars, group, current, conn, shown>>
  BY DEF JoinReply, JoinFails, EndJoin, Running, HubTypeOK, Calls, Subscription, Membership,
         windowVars
<1>2. wire' \in Seq(Parcels)
  <2>1. Parcel("history", history) \in Parcels /\ Parcel("joinFailed", {}) \in Parcels
    BY ParcelsAreParcels DEF HubTypeOK
  <2>2. \E parcel \in Parcels : wire' = Append(wire, parcel)
    BY <2>1 DEF JoinReply, JoinFails, EndJoin
  <2> QED
    BY <2>2 DEF HubTypeOK
<1>3. calls' \in Seq(Calls)
  BY <1>1
<1>4. HubTypeOK'
  BY <1>1, <1>2, <1>3 DEF HubTypeOK, Calls, postVars
<1>5. Destination'
  BY <1>1, DestinationOfTail DEF Subscription
<1> QED
  BY <1>1, <1>4, <1>5 DEF Subscription, Membership

(* The window.                                                             *)
LEMMA DeliverListening == ASSUME Listening, Deliver PROVE Listening'
<1>1. wire' \in Seq(Parcels)
  BY DEF Deliver, Listening, HubTypeOK
<1> QED
  BY <1>1 DEF Deliver, Listening, HubTypeOK, Subscription, Membership, Destination,
              LastJoin, Running, hubVars, postVars

LEMMA SendListening == ASSUME Listening, Send PROVE Listening'
<1> USE DEF Listening
<1>1. /\ calls \in Seq(Calls) /\ shown \in Rooms /\ conn = "up"
      /\ calls' = Append(calls, SendCall(shown))
      /\ UNCHANGED <<postVars, group, current, step, history, wire, conn, shown>>
  BY DEF Send, HubTypeOK, Calls, windowVars
<1>2. calls' \in Seq(Calls) /\ (calls # <<>> => Head(calls') = Head(calls)) /\ calls' # <<>>
  BY <1>1, CallsAreCalls
<1>3. HubTypeOK'
  BY <1>1, <1>2 DEF HubTypeOK, Calls, postVars
<1>4. Destination'
  BY <1>1, CallsAreCalls, DestinationOfSend DEF Subscription, SendCall
<1>5. Membership'
  BY <1>1, <1>2 DEF Subscription, Membership, Running
<1> QED
  BY <1>1, <1>3, <1>4, <1>5 DEF Subscription

LEMMA SwitchListening ==
    ASSUME Listening, NEW room \in Rooms, SwitchRoom(room)
    PROVE  Listening'
<1> USE DEF Listening
<1>1. /\ calls \in Seq(Calls) /\ shown' = room
      /\ UNCHANGED <<postVars, group, current, step, history, wire, conn>>
  BY DEF SwitchRoom, Clear, HubTypeOK, Calls
<1>2. CASE conn = "up"
  <2>1. calls' = Append(calls, JoinCall(room))
    BY <1>2 DEF SwitchRoom
  <2>2. calls' \in Seq(Calls) /\ (calls # <<>> => Head(calls') = Head(calls)) /\ calls' # <<>>
    BY <1>1, <2>1, CallsAreCalls
  <2>3. HubTypeOK'
    BY <1>1, <2>2 DEF HubTypeOK, Calls, postVars
  <2>4. Destination'
    BY <1>1, <2>1, DestinationOfJoin
  <2>5. Membership'
    BY <1>1, <2>2 DEF Subscription, Membership, Running
  <2> QED
    BY <1>1, <1>2, <2>3, <2>4, <2>5 DEF Subscription
<1>3. CASE conn # "up"
  <2>1. UNCHANGED calls
    BY <1>3 DEF SwitchRoom
  <2> QED
    BY <1>1, <1>3, <2>1 DEF HubTypeOK, Subscription, Membership, Running, postVars
<1> QED
  BY <1>2, <1>3

LEMMA ConnectListening == ASSUME Listening, Connect PROVE Listening'
<1> USE DEF Listening
<1>1. /\ calls = <<>> /\ wire = <<>> /\ group = {} /\ current = None /\ step = "called"
      /\ shown \in Rooms /\ calls' = <<JoinCall(shown)>> /\ conn' = "up"
      /\ UNCHANGED <<postVars, group, current, step, history, wire, shown>>
  BY DEF Connect, windowVars, Subscription, Membership, Running, HubTypeOK
<1>2. calls' \in Seq(Calls)
  BY <1>1, CallsAreCalls
<1>3. HubTypeOK'
  BY <1>1, <1>2 DEF HubTypeOK, Calls, postVars
<1>4. Destination'
  BY <1>1 DEF Destination, JoinCall
<1> QED
  BY <1>1, <1>3, <1>4 DEF Subscription, Membership

LEMMA DropListening == ASSUME Listening, Drop \/ GiveUp PROVE Listening'
<1>1. CASE Drop
  BY <1>1, RoomsAssumption DEF Drop, Listening, HubTypeOK, Subscription, Membership, Running, postVars
<1>2. CASE GiveUp
  BY <1>2 DEF GiveUp, Listening, HubTypeOK, Subscription, Membership, Running, postVars, hubVars
<1> QED
  BY <1>1, <1>2

LEMMA StepListening == Listening /\ [Next]_vars => Listening'
<1> SUFFICES ASSUME Listening, [Next]_vars PROVE Listening'
  OBVIOUS
<1>1. CASE UNCHANGED vars
  BY <1>1 DEF vars, postVars, hubVars, windowVars, bounds, Listening, HubTypeOK,
              Subscription, Membership, Destination, LastJoin, Running
<1>2. CASE Next
  BY <1>2, StampListening, PostListening, BeginSendListening, EndSendListening,
     JoinListening, EndJoinListening, DeliverListening, SendListening, SwitchListening,
     ConnectListening, DropListening
     DEF Next, HubStep, ConnectionStep
<1> QED
  BY <1>1, <1>2

-----------------------------------------------------------------------------
(* The connection's bookkeeping (types, groups, the remembered room and    *)
(* the calls still to run) stays consistent: an invariant that is          *)
(* inductive for any rooms and any bounds.                                 *)
THEOREM BookkeepingConsistent == Spec => []Listening
<1> QED
  BY InitListening, StepListening, PTL DEF Spec

(* A window at rest listens to the room it shows, and a connection never   *)
(* to two rooms: FollowsShownRoom, which the TLC runs check, for every     *)
(* number of rooms, switches and reconnects.                               *)
THEOREM WindowFollowsShownRoom == Spec => []FollowsShownRoom
<1>1. Listening => FollowsShownRoom
  <2> SUFFICES ASSUME Listening PROVE FollowsShownRoom
    OBVIOUS
  <2>1. group = {} \/ group = {current}
    BY DEF Listening, Subscription, Membership
  <2>2. Cardinality(group) <= 1
    <3>1. CASE group = {}
      BY <3>1, FS_EmptySet
    <3>2. CASE group = {current}
      BY <3>2, FS_Singleton
    <3> QED
      BY <2>1, <3>1, <3>2
  <2>3. AtRest => group = {shown}
    BY RoomsAssumption DEF AtRest, Listening, Subscription, Membership, Destination, Running, HubTypeOK
  <2> QED
    BY <2>2, <2>3 DEF FollowsShownRoom
<1> QED
  BY <1>1, BookkeepingConsistent, PTL
=============================================================================
