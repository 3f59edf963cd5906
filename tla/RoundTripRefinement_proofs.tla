--------------------- MODULE RoundTripRefinement_proofs ---------------------
(***************************************************************************)
(* The stock round trip implements the safety part of QuotePromise, step   *)
(* by step: typing a command is an Ask, a room that disappears an Excuse,  *)
(* and every other step is work on one request, or a stutter: handing      *)
(* messages out, looking up, broadcasting and even the stop of a host      *)
(* change nothing of what was promised.                                    *)
(***************************************************************************)
EXTENDS StockRoundTrip_proofs

(* Nothing is published for a command nobody typed.                        *)
NothingUnasked == \A r \in Requests : request[r] = "none" => copies[r] = 0

(* No step forgets that a request was made.                                *)
LEMMA AskedForGood ==
    ASSUME IInv, [Next]_vars, NEW r \in Requests, request[r] # "none"
    PROVE  request'[r] # "none"
<1> USE DEF IInv, TypeOK
<1>1. CASE \E q \in Requests : Ask(q)
  BY <1>1 DEF Ask, PublishRequest
<1>2. CASE \E q \in Requests : BotStep(q)
  BY <1>2 DEF BotStep, ReceiveRequest, LookUp, Respond, RespondFails, RetryRequest, AckRequest
<1>3. CASE \E q \in Requests : RespondUnconfirmed(q)
  BY <1>3 DEF RespondUnconfirmed, RetryRequest
<1>4. CASE \E b \in Bots : BotStops(b)
  BY <1>4 DEF BotStops
<1>5. CASE UNCHANGED request
  BY <1>5
<1> QED
  BY <1>1, <1>2, <1>3, <1>4, <1>5 DEF Next, RemoveRoom, WebStep, ReceiveAnswer, CheckRoom, Save,
     SaveFails, Broadcast, Alert, AnnounceFails, AckAnswer, Interruption, SaveUnreported,
     WebStops, botVars, vars

(* The number of answers published for a request only grows while one of   *)
(* its lookups is finished.                                                *)
LEMMA CopiesGrowWhenFound ==
    ASSUME IInv, [Next]_vars, NEW r \in Requests, request[r] # "found"
    PROVE  copies'[r] = copies[r]
<1> USE DEF IInv, TypeOK
<1>1. CASE \E q \in Requests : Respond(q) \/ RespondUnconfirmed(q)
  BY <1>1 DEF Respond, RespondUnconfirmed, PublishAnswer
<1>2. CASE UNCHANGED copies
  BY <1>2
<1> QED
  BY <1>1, <1>2 DEF Next, Ask, PublishRequest, RemoveRoom, BotStep, ReceiveRequest, LookUp,
     RespondFails, AckRequest, WebStep, ReceiveAnswer, CheckRoom, Save, SaveFails, Broadcast,
     Alert, AnnounceFails, AckAnswer, Interruption, BotStops, SaveUnreported, WebStops,
     botVars, vars

LEMMA NothingUnaskedKept == IInv /\ NothingUnasked /\ [Next]_vars => NothingUnasked'
<1> SUFFICES ASSUME IInv, NothingUnasked, [Next]_vars, NEW r \in Requests, request'[r] = "none"
             PROVE  copies'[r] = 0
  BY DEF NothingUnasked
<1> QED
  BY AskedForGood, CopiesGrowWhenFound DEF NothingUnasked

(* An answer on its way belongs to a command that was typed.               *)
LEMMA AnswersBelongToAsked ==
    ASSUME IInv, NothingUnasked, NEW a \in Answers, answer[a] # "none"
    PROVE  request[a[1]] # "none"
<1>1. RequestLedger(a[1]) /\ a[1] \in Requests /\ a[2] \in Copies /\ a = <<a[1], a[2]>>
  BY AnswerPairs DEF IInv
<1>2. a[2] <= copies[a[1]] /\ a[2] >= 1
  BY <1>1, LimitsAssumption DEF RequestLedger, Copies
<1> QED
  BY <1>1, <1>2, LimitsAssumption DEF NothingUnasked, Copies

-----------------------------------------------------------------------------
(* Rows and the names QuotePromise gives them.                             *)

(* The names never run out: each row but one was paid for by an            *)
(* interruption.                                                           *)
LEMMA RowsStayNamed ==
    ASSUME IInv, NEW a \in Answers
    PROVE  posts[a] \in 0 .. MaxInterruptions + 1
<1>1. AnswerLedger(a) /\ posts[a] \in Nat /\ webRelapses[a] \in Nat /\ interruptions \in 0 .. MaxInterruptions
  BY DEF IInv, TypeOK
<1>2. deadAnswers[a] \in Nat
  BY DEF IInv, TypeOK
<1>3. posts[a] <= webRelapses[a] + 1 /\ webRelapses[a] <= MaxInterruptions
  BY <1>1, <1>2, LimitsAssumption DEF AnswerLedger
<1> QED
  BY <1>1, <1>3, LimitsAssumption

LEMMA RowsOnScreen ==
    ASSUME IInv, NEW r \in Requests, NEW n \in Copies, posts[<<r, n>>] > 0
    PROVE  PostsOf(r) # {}
<1>1. <<n, 1>> \in PostIds /\ posts[<<r, n>>] \in Nat
  BY AnswerPairs, LimitsAssumption DEF PostIds, Copies, IInv, TypeOK
<1>2. <<n, 1>> \in PostsOf(r)
  BY <1>1 DEF PostsOf
<1> QED
  BY <1>2

(* Rest means answered: what is settled was posted or has an excuse.       *)
LEMMA SettledIsAnswered ==
    ASSUME IInv, NEW r \in Requests, Settled(r)
    PROVE  PostsOf(r) # {} \/ Excused(r)
<1>1. CASE request[r] = "error"
  BY <1>1 DEF IInv, RequestLedger, Excused
<1>2. CASE request[r] = "acked"
  <2>1. 1 \in Copies /\ <<r, 1>> \in Answers
    BY AnswerPairs, LimitsAssumption DEF Copies
  <2>2. RequestLedger(r) /\ copies[r] \in Nat /\ botRelapses[r] \in Nat /\ AnswerLedger(<<r, 1>>)
    BY <2>1 DEF IInv, TypeOK
  <2>3. copies[r] >= 1
    BY <1>2, <2>2 DEF RequestLedger
  <2>4. answer[<<r, 1>>] # "none"
    BY <2>1, <2>2, <2>3 DEF RequestLedger
  <2>5. CASE answer[<<r, 1>>] = "error"
    BY <2>5, <2>1, <2>2 DEF AnswerLedger, Excused
  <2>6. CASE answer[<<r, 1>>] = "acked"
    <3>1. posts[<<r, 1>>] > 0 \/ RoomOf[r] \notin rooms
      BY <2>6, <2>2 DEF AnswerLedger
    <3> QED
      BY <3>1, <2>1, RowsOnScreen DEF Excused
  <2> QED
    BY <2>1, <2>4, <2>5, <2>6 DEF Settled
<1> QED
  BY <1>1, <1>2 DEF Settled

(* The two facts in the form in which they also speak of the next state.   *)
RowsNamed     == \A a \in Answers : posts[a] \in 0 .. MaxInterruptions + 1
RestIsAnswered == \A r \in Requests : Settled(r) => PostsOf(r) # {} \/ Excused(r)

LEMMA AccountsBefore == IInv => RowsNamed /\ RestIsAnswered
  BY RowsStayNamed, SettledIsAnswered DEF RowsNamed, RestIsAnswered

LEMMA AccountsAfter == IInv' => RowsNamed' /\ RestIsAnswered'
  BY AccountsBefore, PTL

-----------------------------------------------------------------------------
(* The four state functions of the mapping, under the names they have in   *)
(* QuotePromise.                                                           *)
AskedOnes   == {r \in Requests : request[r] # "none"}
ShownPosts  == [r \in Requests |-> PostsOf(r)]
ExcusedOnes == {r \in Requests : Excused(r)}
SettledOnes == {r \in Requests : Settled(r)}

(* A step that answers, excuses and settles nothing is a stutter.          *)
LEMMA Idle ==
    ASSUME IInv, IInv', UNCHANGED <<rooms, posts, deadRequests, deadAnswers>>,
           \A r \in Requests : /\ request'[r] = "none" <=> request[r] = "none"
                               /\ request'[r] \in {"acked", "error"} <=>
                                      request[r] \in {"acked", "error"},
           \A a \in Answers : answer'[a] \in {"none", "acked", "error"} <=>
                                  answer[a] \in {"none", "acked", "error"}
    PROVE  UNCHANGED <<AskedOnes, ShownPosts, ExcusedOnes, SettledOnes>>
<1>1. \A r \in Requests : Excused(r)' <=> Excused(r)
  BY AnswerPairs DEF Excused, RoomExists
<1>2. \A r \in Requests : Settled(r)' <=> Settled(r)
  BY AnswerPairs DEF Settled
<1>3. \A r \in Requests : PostsOf(r)' = PostsOf(r)
  BY DEF PostsOf
<1> QED
  BY <1>1, <1>2, <1>3 DEF AskedOnes, ShownPosts, ExcusedOnes, SettledOnes

(* A step about one unsettled request: nothing else changes, an excuse is  *)
(* never withdrawn and at most one row is added.                           *)
LEMMA WorkOn ==
    ASSUME IInv, IInv', NEW r \in Requests, UNCHANGED rooms,
           request[r] # "none", request'[r] # "none", ~Settled(r),
           \A q \in Requests \ {r} :
               /\ request'[q] = request[q] /\ deadRequests'[q] = deadRequests[q]
               /\ \A n \in Copies : /\ answer'[<<q, n>>] = answer[<<q, n>>]
                                    /\ deadAnswers'[<<q, n>>] = deadAnswers[<<q, n>>]
               /\ \A n \in Copies : posts'[<<q, n>>] = posts[<<q, n>>],
           deadRequests[r] > 0 => deadRequests'[r] > 0,
           \A n \in Copies : deadAnswers[<<r, n>>] > 0 => deadAnswers'[<<r, n>>] > 0,
           \/ \A n \in Copies : posts'[<<r, n>>] = posts[<<r, n>>]
           \/ \E n \in Copies :
                  /\ posts'[<<r, n>>] = posts[<<r, n>>] + 1
                  /\ \A m \in Copies \ {n} : posts'[<<r, m>>] = posts[<<r, m>>]
    PROVE  Promise!Work(r)
<1>1. r \in AskedOnes \ SettledOnes /\ AskedOnes' = AskedOnes
  BY DEF AskedOnes, SettledOnes
<1>2. \/ ShownPosts' = ShownPosts
      \/ \E id \in PostIds \ ShownPosts[r] :
             ShownPosts' = [ShownPosts EXCEPT ![r] = @ \cup {id}]
  <2>1. \A q \in Requests \ {r} : PostsOf(q)' = PostsOf(q)
    BY DEF PostsOf, PostIds
  <2>2. CASE \A n \in Copies : posts'[<<r, n>>] = posts[<<r, n>>]
    <3>1. PostsOf(r)' = PostsOf(r)
      BY <2>2 DEF PostsOf, PostIds
    <3> QED
      BY <2>1, <3>1 DEF ShownPosts
  <2>3. ASSUME NEW n \in Copies,
               posts'[<<r, n>>] = posts[<<r, n>>] + 1,
               \A m \in Copies \ {n} : posts'[<<r, m>>] = posts[<<r, m>>]
        PROVE  \E id \in PostIds \ ShownPosts[r] :
                   ShownPosts' = [ShownPosts EXCEPT ![r] = @ \cup {id}]
    <3> DEFINE k == posts[<<r, n>>] + 1
    <3>1. <<r, n>> \in Answers /\ posts[<<r, n>>] \in Nat /\ k \in 1 .. MaxInterruptions + 1
      <4>1. posts'[<<r, n>>] \in 0 .. MaxInterruptions + 1
        BY AccountsAfter, AnswerPairs DEF RowsNamed
      <4> QED
        BY <4>1, <2>3, AnswerPairs, LimitsAssumption DEF IInv, TypeOK
    <3>2. <<n, k>> \in PostIds \ PostsOf(r)
      BY <3>1 DEF PostIds, PostsOf
    <3>3. PostsOf(r)' = PostsOf(r) \cup {<<n, k>>}
      <4>1. ASSUME NEW id \in PostIds PROVE id \in PostsOf(r)' <=> id \in PostsOf(r) \/ id = <<n, k>>
        <5>1. id[1] \in Copies /\ id[2] \in Int /\ id = <<id[1], id[2]>>
          BY DEF PostIds
        <5>2. CASE id[1] # n
          BY <5>1, <5>2, <2>3 DEF PostsOf
        <5>3. CASE id[1] = n
          <6>1. id[2] <= posts'[<<r, n>>] <=> id[2] <= posts[<<r, n>>] \/ id[2] = k
            BY <5>1, <3>1, <2>3
          <6>2. id = <<n, k>> <=> id[2] = k
            BY <5>1, <5>3
          <6> QED
            BY <6>1, <6>2, <5>3 DEF PostsOf
        <5> QED
          BY <5>2, <5>3
      <4>2. PostsOf(r)' \subseteq PostIds /\ PostsOf(r) \subseteq PostIds
        BY DEF PostsOf
      <4> QED
        BY <4>1, <4>2, <3>2
    <3>4. ShownPosts' = [ShownPosts EXCEPT ![r] = @ \cup {<<n, k>>}]
      BY <3>3, <2>1 DEF ShownPosts
    <3> QED
      BY <3>2, <3>4 DEF ShownPosts
  <2> QED
    BY <2>2, <2>3
<1>3. ExcusedOnes' \in {ExcusedOnes, ExcusedOnes \cup {r}}
  <2>1. \A q \in Requests \ {r} : Excused(q)' <=> Excused(q)
    BY DEF Excused
  <2>2. Excused(r) => Excused(r)'
    BY DEF Excused
  <2> QED
    BY <2>1, <2>2 DEF ExcusedOnes
<1>4. SettledOnes' \in {SettledOnes, SettledOnes \cup {r}}
  <2>1. \A q \in Requests \ {r} : Settled(q)' <=> Settled(q)
    BY DEF Settled
  <2> QED
    BY <2>1 DEF SettledOnes
<1>5. r \in SettledOnes' => ShownPosts'[r] # {} \/ r \in ExcusedOnes'
  <2>1. ASSUME Settled(r)' PROVE PostsOf(r)' # {} \/ Excused(r)'
    BY <2>1, AccountsAfter DEF RestIsAnswered
  <2> QED
    BY <2>1 DEF SettledOnes, ShownPosts, ExcusedOnes
<1> QED
  BY <1>1, <1>2, <1>3, <1>4, <1>5
  DEF Promise!Work, AskedOnes, ShownPosts, ExcusedOnes, SettledOnes

-----------------------------------------------------------------------------
(* The steps, one by one.                                                  *)

LEMMA InitPromised == Init => Promise!Init
<1> SUFFICES ASSUME Init PROVE Promise!Init
  OBVIOUS
<1>1. ASSUME NEW r \in Requests PROVE PostsOf(r) = {} /\ ~Excused(r) /\ ~Settled(r)
  <2>1. \A n \in Copies : <<r, n>> \in Answers /\ posts[<<r, n>>] = 0 /\ deadAnswers[<<r, n>>] = 0
    BY AnswerPairs DEF Init
  <2>2. PostsOf(r) = {}
    BY <2>1 DEF PostsOf, PostIds
  <2>3. request[r] = "none" /\ deadRequests[r] = 0 /\ RoomOf[r] \in rooms
    BY RoomsAssumption DEF Init
  <2>4. ~Excused(r)
    <3>1. \A n \in Copies : ~(deadAnswers[<<r, n>>] > 0)
      BY <2>1
    <3>2. ~(deadRequests[r] > 0)
      BY <2>3
    <3> QED
      BY <2>3, <3>1, <3>2, Zenon DEF Excused
  <2>5. ~Settled(r)
    BY <2>3 DEF Settled
  <2> QED
    BY <2>2, <2>4, <2>5
<1> QED
  BY <1>1 DEF Init, Promise!Init

LEMMA AskPromised ==
    ASSUME IInv, NothingUnasked, NEW r \in Requests, Ask(r)
    PROVE  Promise!Ask(r)
<1> USE DEF Ask, PublishRequest, webVars, IInv, TypeOK
<1>1. AskedOnes' = AskedOnes \cup {r} /\ r \notin AskedOnes
  BY DEF AskedOnes
<1>2. ASSUME NEW q \in Requests
      PROVE  /\ PostsOf(q)' = PostsOf(q)
             /\ Excused(q)' <=> Excused(q)
             /\ Settled(q)' <=> Settled(q)
  BY DEF PostsOf, Excused, Settled
<1> QED
  BY <1>1, <1>2 DEF Promise!Ask, AskedOnes

LEMMA RemoveRoomPromised ==
    ASSUME IInv, NEW room \in Rooms, RemoveRoom(room)
    PROVE  \E R \in SUBSET Requests : Promise!Excuse(R)
<1> DEFINE R == {r \in Requests : RoomOf[r] = room}
<1>1. ASSUME NEW q \in Requests
      PROVE  /\ PostsOf(q)' = PostsOf(q)
             /\ Excused(q)' <=> Excused(q) \/ q \in R
             /\ Settled(q)' <=> Settled(q)
  BY DEF RemoveRoom, botVars, webVars, PostsOf, Excused, Settled
<1>2. AskedOnes' = AskedOnes
  BY DEF RemoveRoom, botVars, AskedOnes
<1>3. Promise!Excuse(R)
  BY <1>1, <1>2 DEF Promise!Excuse, AskedOnes
<1> QED
  BY <1>3

(* What moves messages about, looks up, broadcasts and alerts is a stutter. *)
LEMMA BotIdlePromised ==
    ASSUME IInv, IInv', NEW r \in Requests,
           (\E b \in Bots : ReceiveRequest(b, r)) \/ LookUp(r)
    PROVE  UNCHANGED <<AskedOnes, ShownPosts, ExcusedOnes, SettledOnes>>
<1>1. /\ UNCHANGED <<rooms, posts, answer, deadRequests, deadAnswers>>
      /\ request[r] \in {"queued", "received"} /\ request'[r] \in {"received", "found"}
      /\ \A q \in Requests \ {r} : request'[q] = request[q]
  BY DEF ReceiveRequest, LookUp, webVars, IInv, TypeOK
<1> QED
  BY <1>1, Idle

LEMMA BotStopsPromised ==
    ASSUME IInv, IInv', NEW b \in Bots, BotStops(b)
    PROVE  UNCHANGED <<AskedOnes, ShownPosts, ExcusedOnes, SettledOnes>>
  BY Idle DEF BotStops, webVars, HeldBy, AtBot

LEMMA WebStopsPromised ==
    ASSUME IInv, IInv', WebStops
    PROVE  UNCHANGED <<AskedOnes, ShownPosts, ExcusedOnes, SettledOnes>>
  BY Idle DEF WebStops, botVars, HeldByWeb, AtWeb

LEMMA WebIdlePromised ==
    ASSUME IInv, IInv', NEW a \in Answers,
           ReceiveAnswer(a) \/ CheckRoom(a) \/ Broadcast(a) \/ Alert(a) \/ AnnounceFails(a)
    PROVE  UNCHANGED <<AskedOnes, ShownPosts, ExcusedOnes, SettledOnes>>
<1>1. /\ UNCHANGED <<rooms, posts, request, deadRequests, deadAnswers>>
      /\ answer[a] \in {"queued", "received", "saved", "shown"}
      /\ answer'[a] \in {"received", "checked", "refused", "shown", "done"}
      /\ \A c \in Answers \ {a} : answer'[c] = answer[c]
  BY DEF ReceiveAnswer, CheckRoom, Broadcast, Alert, AnnounceFails, MoveAnswer, botVars,
         IInv, TypeOK
<1> QED
  BY <1>1, Idle

(* What the bot does to a request it holds is work on it.                  *)
LEMMA BotWorkPromised ==
    ASSUME IInv, IInv', NothingUnasked, NEW r \in Requests,
           Respond(r) \/ RespondFails(r) \/ RespondUnconfirmed(r) \/ AckRequest(r)
    PROVE  Promise!Work(r)
<1>1. /\ request[r] \in {"found", "answered", "moved"} /\ request'[r] # "none"
      /\ \A q \in Requests \ {r} : request'[q] = request[q] /\ deadRequests'[q] = deadRequests[q]
      /\ deadRequests[r] > 0 => deadRequests'[r] > 0
      /\ UNCHANGED <<rooms, posts, deadAnswers>>
  BY DEF Respond, RespondFails, RespondUnconfirmed, AckRequest, RetryRequest, PublishAnswer,
         webVars, IInv, TypeOK
<1>2. CASE UNCHANGED answer
  BY <1>1, <1>2, WorkOn DEF Settled
<1>3. CASE Respond(r) \/ RespondUnconfirmed(r)
  <2>1. \A c \in Answers : c # <<r, copies[r] + 1>> => answer'[c] = answer[c]
    BY <1>3 DEF Respond, RespondUnconfirmed, PublishAnswer, IInv, TypeOK
  <2>2. \A q \in Requests \ {r} : \A n \in Copies : answer'[<<q, n>>] = answer[<<q, n>>]
    BY <2>1, AnswerPairs
  <2> QED
    BY <1>1, <2>2, WorkOn DEF Settled
<1> QED
  BY <1>2, <1>3 DEF RespondFails, AckRequest, webVars

(* What Chat.Web does to an answer it holds is work on its request.        *)
LEMMA WebWorkPromised ==
    ASSUME IInv, IInv', NothingUnasked, NEW a \in Answers,
           Save(a) \/ SaveFails(a) \/ SaveUnreported(a) \/ AckAnswer(a)
    PROVE  Promise!Work(a[1])
<1>1. a[1] \in Requests /\ a[2] \in Copies /\ a = <<a[1], a[2]>>
  BY AnswerPairs
<1>2. /\ answer[a] \in {"received", "checked", "done", "refused", "moved"}
      /\ \A c \in Answers \ {a} :
             answer'[c] = answer[c] /\ posts'[c] = posts[c] /\ deadAnswers'[c] = deadAnswers[c]
      /\ deadAnswers[a] > 0 => deadAnswers'[a] > 0
      /\ UNCHANGED <<rooms, request, deadRequests>>
      /\ posts'[a] = posts[a] \/ posts'[a] = posts[a] + 1
  <2>1. CASE Save(a) \/ AckAnswer(a)
    BY <2>1 DEF Save, AckAnswer, MoveAnswer, StorePost, botVars, IInv, TypeOK
  <2>2. CASE SaveFails(a)
    BY <2>2 DEF SaveFails, RetryAnswer, MoveAnswerAside, MoveAnswer, botVars, IInv, TypeOK
  <2>3. CASE SaveUnreported(a)
    BY <2>3 DEF SaveUnreported, RetryAnswer, MoveAnswerAside, MoveAnswer, StorePost,
                botVars, IInv, TypeOK
  <2> QED
    BY <2>1, <2>2, <2>3
<1>3. request[a[1]] # "none"
  BY <1>2, AnswersBelongToAsked
<1>4. ~Settled(a[1])
  BY <1>1, <1>2 DEF Settled
<1>5. \A q \in Requests \ {a[1]} : \A n \in Copies :
          /\ answer'[<<q, n>>] = answer[<<q, n>>]
          /\ posts'[<<q, n>>] = posts[<<q, n>>]
          /\ deadAnswers'[<<q, n>>] = deadAnswers[<<q, n>>]
  <2> SUFFICES ASSUME NEW q \in Requests \ {a[1]}, NEW n \in Copies
               PROVE  /\ answer'[<<q, n>>] = answer[<<q, n>>]
                      /\ posts'[<<q, n>>] = posts[<<q, n>>]
                      /\ deadAnswers'[<<q, n>>] = deadAnswers[<<q, n>>]
    OBVIOUS
  <2>1. <<q, n>> \in Answers \ {a}
    BY <1>1, AnswerPairs
  <2> QED
    BY <2>1, <1>2
<1>6. \A n \in Copies : deadAnswers[<<a[1], n>>] > 0 => deadAnswers'[<<a[1], n>>] > 0
  BY <1>1, <1>2, AnswerPairs
<1>7. \A m \in Copies \ {a[2]} : posts'[<<a[1], m>>] = posts[<<a[1], m>>]
  BY <1>1, <1>2, AnswerPairs
<1> QED
  BY <1>1, <1>2, <1>3, <1>4, <1>5, <1>6, <1>7, WorkOn

LEMMA StepPromised ==
    ASSUME IInv, NothingUnasked, [Next]_vars
    PROVE  [Promise!Next]_(Promise!vars)
<1>0. IInv'
  BY NextIInv
<1> DEFINE Stutter == UNCHANGED <<AskedOnes, ShownPosts, ExcusedOnes, SettledOnes>>
<1>a. Stutter => UNCHANGED Promise!vars
  BY DEF Promise!vars, AskedOnes, ShownPosts, ExcusedOnes, SettledOnes
<1>1. CASE \E r \in Requests : Ask(r)
  BY <1>1, AskPromised DEF Promise!Next
<1>2. CASE \E room \in Rooms : RemoveRoom(room)
  BY <1>2, RemoveRoomPromised DEF Promise!Next
<1>3. CASE \E r \in Requests : BotStep(r) \/ RespondUnconfirmed(r)
  <2> PICK r \in Requests : BotStep(r) \/ RespondUnconfirmed(r)
    BY <1>3
  <2>1. CASE (\E b \in Bots : ReceiveRequest(b, r)) \/ LookUp(r)
    BY <2>1, <1>0, <1>a, BotIdlePromised
  <2>2. CASE Respond(r) \/ RespondFails(r) \/ RespondUnconfirmed(r) \/ AckRequest(r)
    BY <2>2, <1>0, BotWorkPromised DEF Promise!Next
  <2> QED
    BY <2>1, <2>2 DEF BotStep
<1>4. CASE \E a \in Answers : WebStep(a) \/ SaveUnreported(a)
  <2> PICK a \in Answers : WebStep(a) \/ SaveUnreported(a)
    BY <1>4
  <2>1. CASE ReceiveAnswer(a) \/ CheckRoom(a) \/ Broadcast(a) \/ Alert(a) \/ AnnounceFails(a)
    BY <2>1, <1>0, <1>a, WebIdlePromised
  <2>2. CASE Save(a) \/ SaveFails(a) \/ SaveUnreported(a) \/ AckAnswer(a)
    BY <2>2, <1>0, WebWorkPromised, AnswerPairs DEF Promise!Next
  <2> QED
    BY <2>1, <2>2 DEF WebStep
<1>5. CASE (\E b \in Bots : BotStops(b)) \/ WebStops
  BY <1>5, <1>0, <1>a, BotStopsPromised, WebStopsPromised
<1>6. CASE UNCHANGED vars
  BY <1>6 DEF vars, botVars, webVars, Promise!vars, PostsOf, Excused, Settled
<1> QED
  BY <1>1, <1>2, <1>3, <1>4, <1>5, <1>6 DEF Next, Interruption

-----------------------------------------------------------------------------
(* The round trip keeps the promise made to whoever types /stock=: nothing *)
(* is posted that nobody asked for, a stored row never disappears, a       *)
(* request comes to rest only posted or with an excuse, and nothing        *)
(* happens about it afterwards, whichever hosts stop and whenever.         *)
THEOREM RoundTripKeepsPromise == Spec => KeepsPromise
<1>1. Init => NothingUnasked
  BY DEF Init, NothingUnasked
<1>2. IInv /\ NothingUnasked /\ [Next]_vars => [Promise!Next]_(Promise!vars)
  BY StepPromised
<1> QED
  BY <1>1, <1>2, InitPromised, NothingUnaskedKept, LedgersBalanced, PTL
  DEF Spec, KeepsPromise, Promise!Spec
=============================================================================
