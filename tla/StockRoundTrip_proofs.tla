----------------------- MODULE StockRoundTrip_proofs -----------------------
(***************************************************************************)
(* Proofs about the stock round trip, for any number of requests, bots,    *)
(* rooms, retries and interruptions.  Everything follows from the          *)
(* inductive invariant IInv: what was published and stored for a message   *)
(* is always balanced against the stage its delivery is in.                *)
(***************************************************************************)
EXTENDS StockRoundTrip, TLAPS

USE DEF Outcomes, RequestStages, AnswerStages

LEMMA AnswerPairs ==
    /\ \A r \in Requests : \A n \in Copies : <<r, n>> \in Answers
    /\ \A a \in Answers : a[1] \in Requests /\ a[2] \in Copies /\ a = <<a[1], a[2]>>
  BY DEF Answers

-----------------------------------------------------------------------------
(* Initially nothing was published or stored.                              *)
LEMMA InitIInv == Init => IInv
<1> SUFFICES ASSUME Init PROVE IInv
  OBVIOUS
<1>1. TypeOK
  BY LimitsAssumption DEF Init, TypeOK
<1>2. ASSUME NEW r \in Requests PROVE RequestLedger(r)
  BY <1>2, AnswerPairs, LimitsAssumption DEF Init, RequestLedger, Copies
<1>3. ASSUME NEW a \in Answers PROVE AnswerLedger(a)
  BY <1>3 DEF Init, AnswerLedger, Stored
<1> QED
  BY <1>1, <1>2, <1>3 DEF IInv

-----------------------------------------------------------------------------
(* What leaves a ledger balanced: the other side's steps.                  *)

(* A request's ledger depends on the answers only through which of them    *)
(* exist.                                                                  *)
LEMMA RequestLedgersKept ==
    ASSUME IInv,
           UNCHANGED <<copies, deadRequests, botRelapses>>,
           interruptions' \in Nat, interruptions' >= interruptions,
           \A r \in Requests :
               /\ request'[r] \in {"answered", "acked"} <=> request[r] \in {"answered", "acked"}
               /\ request'[r] \in {"moved", "error"} <=> request[r] \in {"moved", "error"},
           \A a \in Answers : answer'[a] = "none" <=> answer[a] = "none"
    PROVE  \A r \in Requests : RequestLedger(r)'
<1> SUFFICES ASSUME NEW r \in Requests PROVE RequestLedger(r)'
  OBVIOUS
<1>1. /\ RequestLedger(r) /\ botRelapses[r] \in Nat /\ copies[r] \in Nat
      /\ deadRequests[r] \in Nat /\ interruptions \in Nat
  BY LimitsAssumption DEF IInv, TypeOK
<1>2. \A n \in Copies : answer'[<<r, n>>] # "none" <=> n <= copies[r]
  BY <1>1, AnswerPairs DEF RequestLedger
<1>3. botRelapses[r] <= interruptions'
  BY <1>1 DEF RequestLedger
<1> QED
  BY <1>1, <1>2, <1>3 DEF RequestLedger

(* An answer's ledger does not depend on the bot, and a room that          *)
(* disappears only makes it easier to balance.                             *)
LEMMA AnswerLedgersKept ==
    ASSUME IInv, UNCHANGED webVars, rooms' \subseteq rooms,
           interruptions' \in Nat, interruptions' >= interruptions
    PROVE  \A a \in Answers : AnswerLedger(a)'
<1> SUFFICES ASSUME NEW a \in Answers PROVE AnswerLedger(a)'
  OBVIOUS
<1>1. AnswerLedger(a) /\ webRelapses[a] \in Nat /\ interruptions \in Nat
  BY LimitsAssumption DEF IInv, TypeOK
<1>2. webRelapses[a] <= interruptions'
  BY <1>1 DEF AnswerLedger
<1> QED
  BY <1>1, <1>2 DEF AnswerLedger, webVars

(* The same for the answers a step of Chat.Web does not touch.             *)
LEMMA OtherAnswerLedgersKept ==
    ASSUME IInv, NEW a \in Answers, UNCHANGED rooms,
           interruptions' \in Nat, interruptions' >= interruptions,
           answer'[a] = answer[a], outcome'[a] = outcome[a], posts'[a] = posts[a],
           pushes'[a] = pushes[a], alerts'[a] = alerts[a],
           deadAnswers'[a] = deadAnswers[a], webRelapses'[a] = webRelapses[a]
    PROVE  AnswerLedger(a)'
<1>1. AnswerLedger(a) /\ webRelapses[a] \in Nat /\ interruptions \in Nat
  BY LimitsAssumption DEF IInv, TypeOK
<1>2. webRelapses[a] <= interruptions'
  BY <1>1 DEF AnswerLedger
<1> QED
  BY <1>1, <1>2 DEF AnswerLedger

-----------------------------------------------------------------------------
(* Publishing an answer: the next copy is a fresh one and within Copies.   *)

LEMMA NextCopy ==
    ASSUME IInv, NEW r \in Requests, request[r] = "found",
           interruptions' \in interruptions .. MaxInterruptions,
           PublishAnswer(r)
    PROVE  /\ copies[r] + 1 \in Copies
           /\ copies'[r] = copies[r] + 1
           /\ copies' \in [Requests -> 0 .. MaxInterruptions + 1]
           /\ \A q \in Requests : q # r => copies'[q] = copies[q]
           /\ \A q \in Requests : \A n \in Copies : answer'[<<q, n>>] # "none" <=> n <= copies'[q]
<1> USE DEF IInv
<1>1. copies[r] <= botRelapses[r] /\ copies[r] <= interruptions /\ copies[r] \in Nat
  BY DEF RequestLedger, TypeOK
<1>2. copies[r] + 1 \in Copies
  BY <1>1, LimitsAssumption DEF TypeOK, Copies
<1>3. /\ copies'[r] = copies[r] + 1
      /\ \A q \in Requests : q # r => copies'[q] = copies[q]
      /\ copies' \in [Requests -> 0 .. MaxInterruptions + 1]
  BY <1>1, <1>2, LimitsAssumption DEF PublishAnswer, TypeOK, Copies
<1>4. ASSUME NEW q \in Requests, NEW n \in Copies
      PROVE  answer'[<<q, n>>] # "none" <=> n <= copies'[q]
  <2>1. <<q, n>> \in Answers /\ (answer[<<q, n>>] # "none" <=> n <= copies[q])
    BY AnswerPairs DEF RequestLedger
  <2>2. CASE q = r /\ n = copies[r] + 1
    BY <2>1, <2>2, <1>1, <1>3 DEF PublishAnswer, TypeOK
  <2>3. CASE ~(q = r /\ n = copies[r] + 1)
    <3>1. answer'[<<q, n>>] = answer[<<q, n>>]
      BY <2>1, <2>3 DEF PublishAnswer, TypeOK
    <3>2. CASE q # r
      BY <3>1, <3>2, <2>1, <1>3
    <3>3. CASE q = r
      <4>1. n # copies[r] + 1 /\ copies'[r] = copies[r] + 1 /\ n \in Nat /\ copies[r] \in Nat
        BY <3>3, <2>3, <1>1, <1>3 DEF Copies
      <4>2. n <= copies'[q] <=> n <= copies[q]
        BY <4>1, <3>3
      <4> QED
        BY <4>2, <3>1, <2>1
    <3> QED
      BY <3>2, <3>3
  <2> QED
    BY <2>2, <2>3
<1> QED
  BY <1>1, <1>2, <1>3, <1>4

LEMMA PublishedAnswerLedgers ==
    ASSUME IInv, NEW r \in Requests, request[r] = "found", PublishAnswer(r),
           UNCHANGED rooms, interruptions' \in interruptions .. MaxInterruptions
    PROVE  \A a \in Answers : AnswerLedger(a)'
<1> DEFINE a0 == <<r, copies[r] + 1>>
<1>1. a0 \in Answers /\ answer[a0] = "none"
  BY NextCopy, AnswerPairs DEF IInv, RequestLedger, TypeOK
<1> SUFFICES ASSUME NEW a \in Answers PROVE AnswerLedger(a)'
  OBVIOUS
<1>2. interruptions' \in Nat /\ interruptions' >= interruptions
  BY LimitsAssumption DEF IInv, TypeOK
<1>3. CASE a = a0
  <2>1. /\ AnswerLedger(a) /\ posts[a] = 0 /\ pushes[a] = 0 /\ alerts[a] = 0
        /\ deadAnswers[a] = webRelapses[a] /\ webRelapses[a] \in Nat /\ interruptions \in Nat
    BY <1>1, <1>3, LimitsAssumption DEF IInv, AnswerLedger, TypeOK, Stored
  <2>2. answer'[a] = "queued" /\ UNCHANGED <<posts, pushes, alerts, deadAnswers, webRelapses>>
    BY <1>1, <1>3 DEF PublishAnswer, IInv, TypeOK
  <2> QED
    BY <2>1, <2>2, <1>2 DEF AnswerLedger, Stored
<1>4. CASE a # a0
  <2>1. answer'[a] = answer[a] /\ outcome'[a] = outcome[a]
    BY <1>4 DEF PublishAnswer, IInv, TypeOK
  <2> QED
    BY <2>1, <1>2, OtherAnswerLedgersKept DEF PublishAnswer
<1> QED
  BY <1>3, <1>4

-----------------------------------------------------------------------------
(* The steps of asking, and of Chat.Bot.                                   *)

LEMMA AskIInv == ASSUME IInv, NEW r \in Requests, Ask(r) PROVE IInv'
<1>1. TypeOK'
  BY DEF IInv, TypeOK, Ask, PublishRequest, webVars
<1>2. \A q \in Requests : RequestLedger(q)'
  BY RequestLedgersKept, LimitsAssumption DEF IInv, TypeOK, Ask, PublishRequest, webVars
<1>3. \A a \in Answers : AnswerLedger(a)'
  BY AnswerLedgersKept, LimitsAssumption DEF IInv, TypeOK, Ask
<1> QED
  BY <1>1, <1>2, <1>3 DEF IInv

LEMMA RemoveRoomIInv == ASSUME IInv, NEW room \in Rooms, RemoveRoom(room) PROVE IInv'
<1>1. TypeOK'
  BY DEF IInv, TypeOK, RemoveRoom, webVars, botVars
<1>2. \A q \in Requests : RequestLedger(q)'
  BY RequestLedgersKept, LimitsAssumption DEF IInv, TypeOK, RemoveRoom, webVars, botVars
<1>3. \A a \in Answers : AnswerLedger(a)'
  BY AnswerLedgersKept, LimitsAssumption DEF IInv, TypeOK, RemoveRoom
<1> QED
  BY <1>1, <1>2, <1>3 DEF IInv

LEMMA ReceiveRequestIInv ==
    ASSUME IInv, NEW b \in Bots, NEW r \in Requests, ReceiveRequest(b, r) PROVE IInv'
<1>1. TypeOK'
  BY DEF IInv, TypeOK, ReceiveRequest, webVars
<1>2. \A q \in Requests : RequestLedger(q)'
  BY RequestLedgersKept, LimitsAssumption DEF IInv, TypeOK, ReceiveRequest, webVars
<1>3. \A a \in Answers : AnswerLedger(a)'
  BY AnswerLedgersKept, LimitsAssumption DEF IInv, TypeOK, ReceiveRequest
<1> QED
  BY <1>1, <1>2, <1>3 DEF IInv

LEMMA LookUpIInv == ASSUME IInv, NEW r \in Requests, LookUp(r) PROVE IInv'
<1>1. TypeOK'
  BY DEF IInv, TypeOK, LookUp, webVars
<1>2. \A q \in Requests : RequestLedger(q)'
  BY RequestLedgersKept, LimitsAssumption DEF IInv, TypeOK, LookUp, webVars
<1>3. \A a \in Answers : AnswerLedger(a)'
  BY AnswerLedgersKept, LimitsAssumption DEF IInv, TypeOK, LookUp
<1> QED
  BY <1>1, <1>2, <1>3 DEF IInv

LEMMA RespondIInv == ASSUME IInv, NEW r \in Requests, Respond(r) PROVE IInv'
<1>1. interruptions' \in interruptions .. MaxInterruptions /\ UNCHANGED rooms
  BY LimitsAssumption DEF IInv, TypeOK, Respond
<1>2. request[r] = "found" /\ PublishAnswer(r)
  BY DEF Respond
<1>3. TypeOK'
  <2>1. /\ copies' \in [Requests -> 0 .. MaxInterruptions + 1]
        /\ answer' \in [Answers -> AnswerStages]
        /\ outcome' \in [Answers -> Outcomes \cup {None}]
        /\ UNCHANGED <<answerTry, posts, pushes, alerts, deadAnswers, webRelapses>>
    BY <1>1, <1>2, NextCopy DEF IInv, TypeOK, PublishAnswer
  <2> QED
    BY <2>1 DEF IInv, TypeOK, Respond
<1>4. ASSUME NEW q \in Requests PROVE RequestLedger(q)'
  <2>1. /\ copies'[r] = copies[r] + 1
        /\ q # r => copies'[q] = copies[q]
        /\ \A n \in Copies : answer'[<<q, n>>] # "none" <=> n <= copies'[q]
    BY <1>1, <1>2, NextCopy
  <2>2. /\ request'[r] = "answered"
        /\ q # r => request'[q] = request[q]
        /\ UNCHANGED <<deadRequests, botRelapses, interruptions>>
    BY DEF IInv, TypeOK, Respond
  <2>3. /\ RequestLedger(q) /\ request[r] = "found" /\ interruptions \in Nat
        /\ copies[q] \in Nat /\ deadRequests[q] \in Nat /\ botRelapses[q] \in Nat
    BY <1>2, LimitsAssumption DEF IInv, TypeOK
  <2>4. CASE q = r
    BY <1>1, <2>1, <2>2, <2>3, <2>4 DEF RequestLedger
  <2>5. CASE q # r
    BY <1>1, <2>1, <2>2, <2>3, <2>5 DEF RequestLedger
  <2> QED
    BY <2>4, <2>5
<1>5. \A a \in Answers : AnswerLedger(a)'
  BY <1>1, <1>2, PublishedAnswerLedgers
<1> QED
  BY <1>3, <1>4, <1>5 DEF IInv

LEMMA RespondFailsIInv == ASSUME IInv, NEW r \in Requests, RespondFails(r) PROVE IInv'
<1>1. TypeOK'
  BY LimitsAssumption DEF IInv, TypeOK, RespondFails, RetryRequest, webVars
<1>2. \A q \in Requests : RequestLedger(q)'
  <2>1. CASE request'[r] = "moved"
    <3>1. /\ deadRequests'[r] = deadRequests[r] + 1
          /\ \A p \in Requests \ {r} :
                 request'[p] = request[p] /\ deadRequests'[p] = deadRequests[p]
          /\ request[r] = "found"
          /\ UNCHANGED <<copies, botRelapses, interruptions, answer>>
      BY <2>1 DEF IInv, TypeOK, RespondFails, RetryRequest, webVars
    <3> QED
      BY <2>1, <3>1 DEF IInv, TypeOK, RequestLedger
  <2>2. CASE request'[r] # "moved"
    BY <2>2, RequestLedgersKept, LimitsAssumption
    DEF IInv, TypeOK, RespondFails, RetryRequest, webVars
  <2> QED
    BY <2>1, <2>2
<1>3. \A a \in Answers : AnswerLedger(a)'
  BY AnswerLedgersKept, LimitsAssumption DEF IInv, TypeOK, RespondFails
<1> QED
  BY <1>1, <1>2, <1>3 DEF IInv

LEMMA RespondUnconfirmedIInv ==
    ASSUME IInv, NEW r \in Requests, RespondUnconfirmed(r) PROVE IInv'
<1>1. /\ interruptions' \in interruptions .. MaxInterruptions
      /\ interruptions' = interruptions + 1
      /\ UNCHANGED rooms
  BY LimitsAssumption DEF IInv, TypeOK, RespondUnconfirmed, Interrupted
<1>2. request[r] = "found" /\ PublishAnswer(r) /\ RetryRequest(r)
  BY DEF RespondUnconfirmed
<1>3. TypeOK'
  <2>1. /\ request' \in [Requests -> RequestStages]
        /\ holder' \in [Requests -> Bots \cup {None}]
        /\ requestTry' \in [Requests -> 0 .. RetryLimit]
        /\ found' \in [Requests -> Outcomes \cup {None}]
        /\ deadRequests' \in [Requests -> Nat]
    BY <1>2, LimitsAssumption DEF IInv, TypeOK, RetryRequest
  <2>2. /\ copies' \in [Requests -> 0 .. MaxInterruptions + 1]
        /\ answer' \in [Answers -> AnswerStages]
        /\ outcome' \in [Answers -> Outcomes \cup {None}]
        /\ UNCHANGED <<answerTry, posts, pushes, alerts, deadAnswers, webRelapses>>
    BY <1>1, <1>2, NextCopy DEF IInv, TypeOK, PublishAnswer
  <2>3. botRelapses' \in [Requests -> Nat] /\ interruptions' \in 0 .. MaxInterruptions
    BY <1>1, LimitsAssumption DEF IInv, TypeOK, RespondUnconfirmed
  <2> QED
    BY <1>1, <2>1, <2>2, <2>3 DEF IInv, TypeOK
<1>4. ASSUME NEW q \in Requests PROVE RequestLedger(q)'
  <2>1. /\ copies'[r] = copies[r] + 1
        /\ q # r => copies'[q] = copies[q]
        /\ \A n \in Copies : answer'[<<q, n>>] # "none" <=> n <= copies'[q]
    BY <1>1, <1>2, NextCopy
  <2>2. /\ \/ request'[r] = "received" /\ deadRequests'[r] = deadRequests[r]
           \/ request'[r] = "moved" /\ deadRequests'[r] = deadRequests[r] + 1
        /\ q # r => request'[q] = request[q] /\ deadRequests'[q] = deadRequests[q]
        /\ botRelapses'[r] = botRelapses[r] + 1
        /\ q # r => botRelapses'[q] = botRelapses[q]
    BY DEF IInv, TypeOK, RespondUnconfirmed, RetryRequest
  <2>3. /\ RequestLedger(q) /\ request[r] = "found" /\ interruptions \in Nat
        /\ copies[q] \in Nat /\ deadRequests[q] \in Nat /\ botRelapses[q] \in Nat
    BY <1>2, LimitsAssumption DEF IInv, TypeOK
  <2>4. CASE q = r
    BY <1>1, <2>1, <2>2, <2>3, <2>4 DEF RequestLedger
  <2>5. CASE q # r
    BY <1>1, <2>1, <2>2, <2>3, <2>5 DEF RequestLedger
  <2> QED
    BY <2>4, <2>5
<1>5. \A a \in Answers : AnswerLedger(a)'
  BY <1>1, <1>2, PublishedAnswerLedgers
<1> QED
  BY <1>3, <1>4, <1>5 DEF IInv

LEMMA AckRequestIInv == ASSUME IInv, NEW r \in Requests, AckRequest(r) PROVE IInv'
<1>1. TypeOK'
  BY LimitsAssumption DEF IInv, TypeOK, AckRequest, webVars
<1>2. \A q \in Requests : RequestLedger(q)'
  BY RequestLedgersKept, LimitsAssumption DEF IInv, TypeOK, AckRequest, webVars
<1>3. \A a \in Answers : AnswerLedger(a)'
  BY AnswerLedgersKept, LimitsAssumption DEF IInv, TypeOK, AckRequest
<1> QED
  BY <1>1, <1>2, <1>3 DEF IInv

LEMMA BotStopsIInv == ASSUME IInv, NEW b \in Bots, BotStops(b) PROVE IInv'
<1>1. interruptions' \in 0 .. MaxInterruptions /\ interruptions' = interruptions + 1
  BY LimitsAssumption DEF IInv, TypeOK, BotStops, Interrupted
<1>2. TypeOK'
  BY <1>1, LimitsAssumption DEF IInv, TypeOK, BotStops, webVars
<1>3. ASSUME NEW r \in Requests PROVE RequestLedger(r)'
  <2>1. /\ RequestLedger(r) /\ botRelapses[r] \in Nat /\ copies[r] \in Nat
        /\ deadRequests[r] \in Nat /\ interruptions \in Nat
    BY LimitsAssumption DEF IInv, TypeOK
  <2>2. UNCHANGED <<copies, deadRequests, answer>>
    BY DEF BotStops, webVars
  <2>3. CASE r \in HeldBy(b) /\ request[r] \in {"answered", "moved"}
    BY <1>1, <2>1, <2>2, <2>3 DEF BotStops, RequestLedger
  <2>4. CASE r \in HeldBy(b) /\ request[r] \notin {"answered", "moved"}
    BY <1>1, <2>1, <2>2, <2>4 DEF BotStops, RequestLedger, HeldBy, AtBot
  <2>5. CASE r \notin HeldBy(b)
    BY <1>1, <2>1, <2>2, <2>5 DEF BotStops, RequestLedger
  <2> QED
    BY <2>3, <2>4, <2>5
<1>4. \A a \in Answers : AnswerLedger(a)'
  BY <1>1, AnswerLedgersKept, LimitsAssumption DEF IInv, TypeOK, BotStops
<1> QED
  BY <1>2, <1>3, <1>4 DEF IInv

-----------------------------------------------------------------------------
(* The steps of Chat.Web.  Each moves one answer, and of the request's     *)
(* ledger only notices that no answer appears or disappears.               *)

LEMMA WebStepIInv ==
    ASSUME IInv, NEW a \in Answers, answer[a] # "none",
           UNCHANGED <<rooms, botVars, outcome>>,
           NEW stage \in AnswerStages \ {"none"}, MoveAnswer(a, stage),
           answerTry' \in [Answers -> 0 .. RetryLimit],
           posts' \in [Answers -> Nat], pushes' \in [Answers -> Nat],
           alerts' \in [Answers -> Nat], deadAnswers' \in [Answers -> Nat],
           webRelapses' \in [Answers -> Nat],
           \A c \in Answers : c # a =>
               /\ posts'[c] = posts[c] /\ pushes'[c] = pushes[c] /\ alerts'[c] = alerts[c]
               /\ deadAnswers'[c] = deadAnswers[c] /\ webRelapses'[c] = webRelapses[c],
           interruptions' \in interruptions .. MaxInterruptions,
           AnswerLedger(a)'
    PROVE  IInv'
<1>1. interruptions' \in 0 .. MaxInterruptions /\ interruptions' \in Nat
      /\ interruptions' >= interruptions
  BY LimitsAssumption DEF IInv, TypeOK
<1>2. TypeOK'
  BY <1>1 DEF IInv, TypeOK, MoveAnswer, botVars
<1>3. \A c \in Answers : answer'[c] = "none" <=> answer[c] = "none"
  BY DEF IInv, TypeOK, MoveAnswer
<1>4. \A q \in Requests : RequestLedger(q)'
  BY <1>1, <1>3, RequestLedgersKept DEF botVars
<1>5. ASSUME NEW c \in Answers, c # a PROVE AnswerLedger(c)'
  <2>1. answer'[c] = answer[c] /\ outcome'[c] = outcome[c]
    BY <1>5 DEF IInv, TypeOK, MoveAnswer
  <2> QED
    BY <1>1, <1>5, <2>1, OtherAnswerLedgersKept
<1> QED
  BY <1>2, <1>4, <1>5 DEF IInv

LEMMA ReceiveAnswerIInv == ASSUME IInv, NEW a \in Answers, ReceiveAnswer(a) PROVE IInv'
<1>1. AnswerLedger(a)'
  BY DEF IInv, TypeOK, ReceiveAnswer, MoveAnswer, AnswerLedger, Stored
<1>2. interruptions' \in interruptions .. MaxInterruptions
  BY LimitsAssumption DEF IInv, TypeOK, ReceiveAnswer
<1> QED
  BY <1>1, <1>2, WebStepIInv DEF IInv, TypeOK, ReceiveAnswer

LEMMA CheckRoomIInv == ASSUME IInv, NEW a \in Answers, CheckRoom(a) PROVE IInv'
<1>1. AnswerLedger(a)'
  BY DEF IInv, TypeOK, CheckRoom, RoomExists, MoveAnswer, AnswerLedger, Stored
<1>2. interruptions' \in interruptions .. MaxInterruptions
  BY LimitsAssumption DEF IInv, TypeOK, CheckRoom
<1> QED
  BY <1>1, <1>2, WebStepIInv DEF IInv, TypeOK, CheckRoom

LEMMA SaveIInv == ASSUME IInv, NEW a \in Answers, Save(a) PROVE IInv'
<1>1. AnswerLedger(a)'
  BY DEF IInv, TypeOK, Save, StorePost, MoveAnswer, AnswerLedger, Stored
<1>2. interruptions' \in interruptions .. MaxInterruptions
  BY LimitsAssumption DEF IInv, TypeOK, Save
<1>3. /\ posts' \in [Answers -> Nat]
      /\ \A c \in Answers : c # a => posts'[c] = posts[c]
  BY DEF IInv, TypeOK, Save, StorePost
<1> QED
  BY <1>1, <1>2, <1>3, WebStepIInv DEF IInv, TypeOK, Save

LEMMA SaveFailsIInv == ASSUME IInv, NEW a \in Answers, SaveFails(a) PROVE IInv'
<1>1. AnswerLedger(a)'
  BY DEF IInv, TypeOK, SaveFails, RetryAnswer, MoveAnswerAside, MoveAnswer, AnswerLedger, Stored
<1>2. interruptions' \in interruptions .. MaxInterruptions
  BY LimitsAssumption DEF IInv, TypeOK, SaveFails
<1>3. /\ answerTry' \in [Answers -> 0 .. RetryLimit]
      /\ deadAnswers' \in [Answers -> Nat]
      /\ \A c \in Answers : c # a => deadAnswers'[c] = deadAnswers[c]
  BY LimitsAssumption DEF IInv, TypeOK, SaveFails, RetryAnswer, MoveAnswerAside
<1> QED
  BY <1>1, <1>2, <1>3, WebStepIInv DEF IInv, TypeOK, SaveFails, RetryAnswer, MoveAnswerAside

LEMMA SaveUnreportedIInv == ASSUME IInv, NEW a \in Answers, SaveUnreported(a) PROVE IInv'
<1>1. /\ interruptions' = interruptions + 1
      /\ interruptions' \in interruptions .. MaxInterruptions
  BY LimitsAssumption DEF IInv, TypeOK, SaveUnreported, Interrupted
<1>2. /\ answerTry' \in [Answers -> 0 .. RetryLimit]
      /\ posts' \in [Answers -> Nat]
      /\ webRelapses' \in [Answers -> Nat] /\ deadAnswers' \in [Answers -> Nat]
      /\ \A c \in Answers : c # a =>
             /\ posts'[c] = posts[c] /\ webRelapses'[c] = webRelapses[c]
             /\ deadAnswers'[c] = deadAnswers[c]
  BY LimitsAssumption DEF IInv, TypeOK, SaveUnreported, RetryAnswer, MoveAnswerAside, StorePost
<1>3. AnswerLedger(a)'
  <2>1. /\ posts'[a] = posts[a] + 1
        /\ webRelapses'[a] = webRelapses[a] + 1
        /\ \/ answer'[a] = "received" /\ deadAnswers'[a] = deadAnswers[a]
           \/ answer'[a] = "moved" /\ deadAnswers'[a] = deadAnswers[a] + 1
        /\ UNCHANGED <<pushes, alerts, outcome>>
    BY DEF IInv, TypeOK, SaveUnreported, RetryAnswer, MoveAnswerAside, StorePost, MoveAnswer
  <2>2. AnswerLedger(a) /\ answer[a] = "checked"
    BY DEF IInv, SaveUnreported
  <2>3. /\ posts[a] \in Nat /\ webRelapses[a] \in Nat /\ pushes[a] \in Nat
        /\ deadAnswers[a] \in Nat /\ interruptions \in Nat
    BY LimitsAssumption DEF IInv, TypeOK
  <2> QED
    BY <1>1, <2>1, <2>2, <2>3 DEF AnswerLedger, Stored
<1> QED
  BY <1>1, <1>2, <1>3, WebStepIInv DEF IInv, TypeOK, SaveUnreported, RetryAnswer, MoveAnswerAside

LEMMA BroadcastIInv == ASSUME IInv, NEW a \in Answers, Broadcast(a) PROVE IInv'
<1>1. AnswerLedger(a)'
  BY DEF IInv, TypeOK, Broadcast, MoveAnswer, AnswerLedger, Stored
<1>2. interruptions' \in interruptions .. MaxInterruptions
  BY LimitsAssumption DEF IInv, TypeOK, Broadcast
<1>3. /\ pushes' \in [Answers -> Nat]
      /\ \A c \in Answers : c # a => pushes'[c] = pushes[c]
  BY DEF IInv, TypeOK, Broadcast
<1> QED
  BY <1>1, <1>2, <1>3, WebStepIInv DEF IInv, TypeOK, Broadcast

LEMMA AlertIInv == ASSUME IInv, NEW a \in Answers, Alert(a) PROVE IInv'
<1>1. AnswerLedger(a)'
  BY DEF IInv, TypeOK, Alert, MoveAnswer, AnswerLedger, Stored
<1>2. interruptions' \in interruptions .. MaxInterruptions
  BY LimitsAssumption DEF IInv, TypeOK, Alert
<1>3. /\ alerts' \in [Answers -> Nat]
      /\ \A c \in Answers : c # a => alerts'[c] = alerts[c]
  BY DEF IInv, TypeOK, Alert
<1> QED
  BY <1>1, <1>2, <1>3, WebStepIInv DEF IInv, TypeOK, Alert

LEMMA AnnounceFailsIInv == ASSUME IInv, NEW a \in Answers, AnnounceFails(a) PROVE IInv'
<1>1. AnswerLedger(a)'
  BY DEF IInv, TypeOK, AnnounceFails, MoveAnswer, AnswerLedger, Stored
<1>2. interruptions' \in interruptions .. MaxInterruptions
  BY LimitsAssumption DEF IInv, TypeOK, AnnounceFails
<1> QED
  BY <1>1, <1>2, WebStepIInv DEF IInv, TypeOK, AnnounceFails

LEMMA AckAnswerIInv == ASSUME IInv, NEW a \in Answers, AckAnswer(a) PROVE IInv'
<1>1. AnswerLedger(a)'
  BY DEF IInv, TypeOK, AckAnswer, MoveAnswer, AnswerLedger, Stored
<1>2. interruptions' \in interruptions .. MaxInterruptions
  BY LimitsAssumption DEF IInv, TypeOK, AckAnswer
<1>3. answerTry' \in [Answers -> 0 .. RetryLimit]
  BY LimitsAssumption DEF IInv, TypeOK, AckAnswer
<1> QED
  BY <1>1, <1>2, <1>3, WebStepIInv DEF IInv, TypeOK, AckAnswer

LEMMA WebStopsIInv == ASSUME IInv, WebStops PROVE IInv'
<1>1. /\ interruptions' = interruptions + 1 /\ interruptions' \in 0 .. MaxInterruptions
      /\ interruptions' \in Nat /\ interruptions' >= interruptions
  BY LimitsAssumption DEF IInv, TypeOK, WebStops, Interrupted
<1>2. TypeOK'
  BY <1>1, LimitsAssumption DEF IInv, TypeOK, WebStops, botVars
<1>3. \A c \in Answers : answer'[c] = "none" <=> answer[c] = "none"
  BY DEF WebStops, HeldByWeb, AtWeb
<1>4. \A r \in Requests : RequestLedger(r)'
  BY <1>1, <1>3, RequestLedgersKept DEF WebStops, botVars
<1>5. ASSUME NEW a \in Answers PROVE AnswerLedger(a)'
  <2>1. /\ AnswerLedger(a) /\ posts[a] \in Nat /\ webRelapses[a] \in Nat
        /\ pushes[a] \in Nat /\ deadAnswers[a] \in Nat /\ interruptions \in Nat
    BY LimitsAssumption DEF IInv, TypeOK
  <2>2. UNCHANGED <<rooms, outcome, posts, pushes, alerts, deadAnswers>>
    BY DEF WebStops
  <2>3. CASE answer[a] \in Stored \cup {"moved"}
    <3>1. answer'[a] = "queued" /\ webRelapses'[a] = webRelapses[a] + 1
      BY <2>3 DEF WebStops, HeldByWeb, AtWeb, Stored
    <3> QED
      BY <1>1, <2>1, <2>2, <2>3, <3>1 DEF AnswerLedger, Stored
  <2>4. CASE answer[a] \in AtWeb \ (Stored \cup {"moved"})
    <3>1. answer'[a] = "queued" /\ webRelapses'[a] = webRelapses[a]
      BY <2>4 DEF WebStops, HeldByWeb, AtWeb, Stored
    <3> QED
      BY <1>1, <2>1, <2>2, <2>4, <3>1 DEF AnswerLedger, AtWeb, Stored
  <2>5. CASE answer[a] \notin AtWeb
    <3>1. answer'[a] = answer[a] /\ webRelapses'[a] = webRelapses[a]
      BY <2>5 DEF WebStops, HeldByWeb, AtWeb, Stored
    <3> QED
      BY <1>1, <2>1, <2>2, <2>5, <3>1 DEF AnswerLedger, AtWeb, Stored
  <2> QED
    BY <2>3, <2>4, <2>5 DEF AtWeb, Stored
<1> QED
  BY <1>2, <1>4, <1>5 DEF IInv

-----------------------------------------------------------------------------
(* The inductive invariant, and what follows from it.                      *)

LEMMA NextIInv == IInv /\ [Next]_vars => IInv'
<1> SUFFICES ASSUME IInv, [Next]_vars PROVE IInv'
  OBVIOUS
<1>1. CASE UNCHANGED vars
  <2>1. TypeOK'
    BY <1>1 DEF IInv, TypeOK, vars, botVars, webVars
  <2>2. \A r \in Requests : RequestLedger(r)'
    BY <1>1, RequestLedgersKept, LimitsAssumption DEF IInv, TypeOK, vars, botVars, webVars
  <2>3. \A a \in Answers : AnswerLedger(a)'
    BY <1>1, AnswerLedgersKept, LimitsAssumption DEF IInv, TypeOK, vars
  <2> QED
    BY <2>1, <2>2, <2>3 DEF IInv
<1>2. ASSUME NEW r \in Requests, Ask(r) PROVE IInv'
  BY <1>2, AskIInv
<1>3. ASSUME NEW room \in Rooms, RemoveRoom(room) PROVE IInv'
  BY <1>3, RemoveRoomIInv
<1>4. ASSUME NEW r \in Requests, BotStep(r) PROVE IInv'
  BY <1>4, ReceiveRequestIInv, LookUpIInv, RespondIInv, RespondFailsIInv, AckRequestIInv
     DEF BotStep
<1>5. ASSUME NEW a \in Answers, WebStep(a) PROVE IInv'
  BY <1>5, ReceiveAnswerIInv, CheckRoomIInv, SaveIInv, SaveFailsIInv, BroadcastIInv,
     AlertIInv, AnnounceFailsIInv, AckAnswerIInv
     DEF WebStep
<1>6. CASE Interruption
  BY <1>6, RespondUnconfirmedIInv, BotStopsIInv, SaveUnreportedIInv, WebStopsIInv
     DEF Interruption
<1> QED
  BY <1>1, <1>2, <1>3, <1>4, <1>5, <1>6 DEF Next

(* The ledgers of every request and answer stay balanced.                  *)
THEOREM LedgersBalanced == Spec => []IInv
  BY InitIInv, NextIInv, PTL DEF Spec

(* Every variable keeps its type.  In particular there are never more      *)
(* answers to a request than Copies has room for, so that the bound on     *)
(* interruptions bounds nothing else.                                      *)
THEOREM TypeCorrect == Spec => []TypeOK
<1>1. IInv => TypeOK
  BY DEF IInv
<1> QED
  BY <1>1, LedgersBalanced, PTL

(* Every request Chat.Bot acknowledges has been answered: publishing comes *)
(* before the acknowledgement, and a refused publish is not swallowed.     *)
THEOREM NoRequestIsLost == Spec => []RequestAckedOnlyIfAnswered
<1>1. IInv => RequestAckedOnlyIfAnswered
  <2> SUFFICES ASSUME IInv, NEW r \in Requests, request[r] = "acked" PROVE Answered(r)
    BY DEF RequestAckedOnlyIfAnswered
  <2>1. copies[r] >= 1 /\ 1 \in Copies
    BY LimitsAssumption DEF IInv, TypeOK, RequestLedger, Copies
  <2>2. answer[<<r, 1>>] # "none" /\ <<r, 1>> \in Answers
    BY <2>1, AnswerPairs DEF IInv, TypeOK, RequestLedger
  <2> QED
    BY <2>2 DEF Answered
<1> QED
  BY <1>1, LedgersBalanced, PTL

(* Every answer Chat.Web acknowledges is stored, unless its room is gone.  *)
THEOREM NoAnswerIsLost == Spec => []AnswerAckedOnlyIfPosted
<1>1. IInv => AnswerAckedOnlyIfPosted
  BY DEF IInv, AnswerLedger, AnswerAckedOnlyIfPosted
<1> QED
  BY <1>1, LedgersBalanced, PTL

(* Answers and rows are duplicated by interrupted deliveries only, one for *)
(* each; failed broadcasts, alerts, saves and publishes never do it.       *)
THEOREM DuplicatesAreAccounted == Spec => [](ExtraAnswersAccounted /\ ExtraPostsAccounted)
<1>1. IInv => ExtraAnswersAccounted
  BY DEF IInv, TypeOK, RequestLedger, ExtraAnswersAccounted
<1>2. IInv => ExtraPostsAccounted
  <2> SUFFICES ASSUME IInv, NEW a \in Answers PROVE posts[a] <= webRelapses[a] + 1
    BY DEF ExtraPostsAccounted
  <2>1. /\ AnswerLedger(a) /\ posts[a] \in Nat /\ webRelapses[a] \in Nat
        /\ deadAnswers[a] \in Nat
    BY DEF IInv, TypeOK
  <2> QED
    BY <2>1 DEF AnswerLedger
<1> QED
  BY <1>1, <1>2, LedgersBalanced, PTL

(* What lies in an _error queue was not completed by any delivery that was *)
(* not interrupted, the stop between the move and its acknowledgement      *)
(* included.                                                               *)
THEOREM DeadLettersUndone == Spec => []DeadLettersAreUndone
<1>1. IInv => DeadLettersAreUndone
  <2> SUFFICES ASSUME IInv PROVE DeadLettersAreUndone
    OBVIOUS
  <2>1. ASSUME NEW r \in Requests, deadRequests[r] > 0 PROVE copies[r] <= botRelapses[r]
    BY <2>1 DEF IInv, TypeOK, RequestLedger
  <2>2. ASSUME NEW a \in Answers, deadAnswers[a] > 0 PROVE posts[a] <= webRelapses[a]
    <3>1. /\ AnswerLedger(a) /\ posts[a] \in Nat /\ webRelapses[a] \in Nat
          /\ deadAnswers[a] \in Nat
      BY DEF IInv, TypeOK
    <3> QED
      BY <2>2, <3>1 DEF AnswerLedger
  <2> QED
    BY <2>1, <2>2 DEF DeadLettersAreUndone
<1> QED
  BY <1>1, LedgersBalanced, PTL

(* What the room sees is stored, and an outage alert never comes without   *)
(* the post that it explains.                                              *)
THEOREM AnnouncedInOrder == Spec => [](PushedOnlyIfStored /\ AlertOnlyAfterOutagePost)
<1>1. IInv => PushedOnlyIfStored
  BY DEF IInv, AnswerLedger, PushedOnlyIfStored
<1>2. IInv => AlertOnlyAfterOutagePost
  BY DEF IInv, AnswerLedger, AlertOnlyAfterOutagePost
<1> QED
  BY <1>1, <1>2, LedgersBalanced, PTL
=============================================================================
