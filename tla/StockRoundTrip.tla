--------------------------- MODULE StockRoundTrip ---------------------------
(***************************************************************************)
(* The journey of a /stock= command: Chat.Web publishes a                  *)
(* StockQuoteRequested, one of the competing Chat.Bot instances looks the  *)
(* quote up and publishes a StockQuoteResolved, and Chat.Web stores it as  *)
(* a post of the bot, pushes it to the room and, on an outage, alerts the  *)
(* participant who asked.                                                  *)
(*                                                                         *)
(* The two durable queues are modelled by the state each message is in     *)
(* there.  A message handed to a consumer stays unacknowledged until its   *)
(* handler returns; an exception retries it in place, RetryLimit times,    *)
(* and then a copy of it is published to the _error queue and only then    *)
(* the message acknowledged; a host that stops hands every message it held *)
(* back to the queue, the one it had just moved aside included.  A host    *)
(* that stops is up again at once: being down for a while is the same as   *)
(* taking no step.                                                         *)
(***************************************************************************)
EXTENDS Integers, FiniteSets

CONSTANTS
    Requests,          \* the StockQuoteRequested messages, by RequestId
    Bots,              \* the running instances of Chat.Bot
    Rooms,             \* the chat rooms
    RoomOf,            \* RoomOf[r]: the room r was typed in
    None,              \* no bot, no outcome
    PrefetchCount,     \* messages a receive endpoint holds unacknowledged
    RetryLimit,        \* in-place retries before a message is moved aside
    MaxInterruptions   \* bound: host stops and lost confirmations in a behaviour

ASSUME RoomsAssumption == RoomOf \in [Requests -> Rooms]
ASSUME NoneAssumption == None \notin Bots
ASSUME LimitsAssumption == /\ PrefetchCount \in Nat \ {0}
                           /\ RetryLimit \in Nat
                           /\ MaxInterruptions \in Nat

Outcomes == {"Quoted", "SymbolNotFound", "LookupFailed"}

(* A request is answered once more than the number of times the bot is     *)
(* interrupted, at most: StockRoundTrip_proofs shows that this range of    *)
(* copies is never outgrown.                                               *)
Copies  == 1 .. MaxInterruptions + 1
Answers == Requests \X Copies

VARIABLES
    rooms,          \* the rooms that exist
    request,        \* where each StockQuoteRequested stands
    holder,         \* the bot instance a request is being handled by
    requestTry,     \* retries already spent on this delivery of the request
    found,          \* outcome of the lookup in progress
    copies,         \* StockQuoteResolved messages published for the request
    answer,         \* where each StockQuoteResolved stands
    outcome,        \* its Outcome
    answerTry,      \* retries already spent on this delivery of the answer
    posts,          \* rows stored on behalf of the answer
    pushes,         \* broadcasts of such a row to the room's group
    alerts,         \* outage alerts raised for the answer
    deadRequests,   \* copies of the request in stock-quote-requests_error
    deadAnswers,    \* copies of the answer in stock-quote-responses_error
    botRelapses,    \* deliveries of the request that were redelivered or retried
                    \* although they had published an answer or moved a dead letter
    webRelapses,    \* deliveries of the answer that were redelivered or retried
                    \* although they had stored a row or moved a dead letter
    interruptions   \* host stops and lost confirmations so far

botVars == <<request, holder, requestTry, found, copies, deadRequests, botRelapses>>
webVars == <<answer, outcome, answerTry, posts, pushes, alerts, deadAnswers, webRelapses>>
vars    == <<rooms, botVars, webVars, interruptions>>

RequestStages == {"none", "queued", "received", "found", "answered", "moved", "acked", "error"}
AnswerStages  == {"none", "queued", "received", "checked", "saved", "shown",
                  "done", "refused", "moved", "acked", "error"}

(* The stages in which a consumer holds the message unacknowledged; in     *)
(* "moved" its copy already lies in the _error queue.                      *)
AtBot == {"received", "found", "answered", "moved"}
AtWeb == {"received", "checked", "saved", "shown", "done", "refused", "moved"}

(* The stages of a delivery to Chat.Web that has stored its row.           *)
Stored == {"saved", "shown", "done"}

TypeOK ==
    /\ rooms \subseteq Rooms
    /\ request \in [Requests -> RequestStages]
    /\ holder \in [Requests -> Bots \cup {None}]
    /\ requestTry \in [Requests -> 0 .. RetryLimit]
    /\ found \in [Requests -> Outcomes \cup {None}]
    /\ copies \in [Requests -> 0 .. MaxInterruptions + 1]
    /\ answer \in [Answers -> AnswerStages]
    /\ outcome \in [Answers -> Outcomes \cup {None}]
    /\ answerTry \in [Answers -> 0 .. RetryLimit]
    /\ posts \in [Answers -> Nat]
    /\ pushes \in [Answers -> Nat]
    /\ alerts \in [Answers -> Nat]
    /\ deadRequests \in [Requests -> Nat]
    /\ deadAnswers \in [Answers -> Nat]
    /\ botRelapses \in [Requests -> Nat]
    /\ webRelapses \in [Answers -> Nat]
    /\ interruptions \in 0 .. MaxInterruptions

Init ==
    /\ rooms = Rooms
    /\ request = [r \in Requests |-> "none"]
    /\ holder = [r \in Requests |-> None]
    /\ requestTry = [r \in Requests |-> 0]
    /\ found = [r \in Requests |-> None]
    /\ copies = [r \in Requests |-> 0]
    /\ answer = [a \in Answers |-> "none"]
    /\ outcome = [a \in Answers |-> None]
    /\ answerTry = [a \in Answers |-> 0]
    /\ posts = [a \in Answers |-> 0]
    /\ pushes = [a \in Answers |-> 0]
    /\ alerts = [a \in Answers |-> 0]
    /\ deadRequests = [r \in Requests |-> 0]
    /\ deadAnswers = [a \in Answers |-> 0]
    /\ botRelapses = [r \in Requests |-> 0]
    /\ webRelapses = [a \in Answers |-> 0]
    /\ interruptions = 0

(* Only host stops and lost confirmations are counted: everything else     *)
(* that can fail is bounded by RetryLimit.                                 *)
Interrupted == /\ interruptions < MaxInterruptions
               /\ interruptions' = interruptions + 1

-----------------------------------------------------------------------------
(* Asking: the stock branch of PostMessageHandler, and the one message     *)
(* RequestStockQuoteHandler publishes in it.                               *)

RoomExists(r) == RoomOf[r] \in rooms

PublishRequest(r) ==
    /\ request' = [request EXCEPT ![r] = "queued"]
    /\ UNCHANGED <<holder, requestTry, found, copies, deadRequests, botRelapses>>

Ask(r) ==
    /\ request[r] = "none"
    /\ RoomExists(r)
    /\ PublishRequest(r)
    /\ UNCHANGED <<rooms, webVars, interruptions>>

(* No code path removes a room, but the handlers answer for one that is    *)
(* gone: somebody else deleted its row.                                    *)
RemoveRoom(room) ==
    /\ room \in rooms
    /\ rooms' = rooms \ {room}
    /\ UNCHANGED <<botVars, webVars, interruptions>>

-----------------------------------------------------------------------------
(* Chat.Bot.                                                               *)

HeldBy(b) == {r \in Requests : request[r] \in AtBot /\ holder[r] = b}

ReceiveRequest(b, r) ==
    /\ request[r] = "queued"
    /\ Cardinality(HeldBy(b)) < PrefetchCount
    /\ request' = [request EXCEPT ![r] = "received"]
    /\ holder' = [holder EXCEPT ![r] = b]
    /\ UNCHANGED <<rooms, requestTry, found, copies, deadRequests, botRelapses,
                   webVars, interruptions>>

(* The provider returns an outcome for every way the lookup can end; an    *)
(* exception, or a quote without a price, becomes LookupFailed.            *)
LookUp(r) ==
    /\ request[r] = "received"
    /\ \E o \in Outcomes : found' = [found EXCEPT ![r] = o]
    /\ request' = [request EXCEPT ![r] = "found"]
    /\ UNCHANGED <<rooms, holder, requestTry, copies, deadRequests, botRelapses,
                   webVars, interruptions>>

PublishAnswer(r) ==
    LET a == <<r, copies[r] + 1>> IN
    /\ copies' = [copies EXCEPT ![r] = @ + 1]
    /\ answer' = [answer EXCEPT ![a] = "queued"]
    /\ outcome' = [outcome EXCEPT ![a] = found[r]]
    /\ UNCHANGED <<answerTry, posts, pushes, alerts, deadAnswers, webRelapses>>

Respond(r) ==
    /\ request[r] = "found"
    /\ PublishAnswer(r)
    /\ request' = [request EXCEPT ![r] = "answered"]
    /\ UNCHANGED <<rooms, holder, requestTry, found, deadRequests, botRelapses, interruptions>>

(* Mutant of RetryRequest: no limit, a poison message is requeued for ever. *)
RetryWithoutLimit(r) ==
    /\ found' = [found EXCEPT ![r] = None]
    /\ request' = [request EXCEPT ![r] = "received"]
    /\ UNCHANGED <<requestTry, holder, deadRequests>>

(* An exception out of the consumer: the whole delivery is tried again, or *)
(* a copy is published to stock-quote-requests_error, the message itself   *)
(* being acknowledged after that, by AckRequest.                           *)
RetryRequest(r) ==
    /\ found' = [found EXCEPT ![r] = None]
    /\ IF requestTry[r] < RetryLimit
       THEN /\ request' = [request EXCEPT ![r] = "received"]
            /\ requestTry' = [requestTry EXCEPT ![r] = @ + 1]
            /\ UNCHANGED deadRequests
       ELSE /\ request' = [request EXCEPT ![r] = "moved"]
            /\ deadRequests' = [deadRequests EXCEPT ![r] = @ + 1]
            /\ UNCHANGED requestTry
    /\ UNCHANGED holder

(* Mutants of RespondFails: the refused publish is swallowed, or the        *)
(* handler fails after it has published.                                   *)
RespondFailureSwallowed(r) ==
    /\ request[r] = "found"
    /\ request' = [request EXCEPT ![r] = "answered"]
    /\ UNCHANGED <<rooms, holder, requestTry, found, copies, deadRequests, botRelapses,
                   webVars, interruptions>>

RespondThenFail(r) ==
    /\ request[r] = "found"
    /\ PublishAnswer(r)
    /\ RetryRequest(r)
    /\ UNCHANGED <<rooms, botRelapses, interruptions>>

RespondFails(r) ==
    /\ request[r] = "found"
    /\ RetryRequest(r)
    /\ UNCHANGED <<rooms, copies, botRelapses, webVars, interruptions>>

(* The broker took the answer and its confirmation was lost.               *)
RespondUnconfirmed(r) ==
    /\ request[r] = "found"
    /\ Interrupted
    /\ PublishAnswer(r)
    /\ RetryRequest(r)
    /\ botRelapses' = [botRelapses EXCEPT ![r] = @ + 1]
    /\ UNCHANGED rooms

(* The delivery is over: the message is acknowledged, answered or with a   *)
(* copy of it in the _error queue.                                         *)
AckRequest(r) ==
    /\ request[r] \in {"answered", "moved"}
    /\ request' = [request EXCEPT ![r] = IF @ = "answered" THEN "acked" ELSE "error"]
    /\ holder' = [holder EXCEPT ![r] = None]
    /\ requestTry' = [requestTry EXCEPT ![r] = 0]
    /\ found' = [found EXCEPT ![r] = None]
    /\ UNCHANGED <<rooms, copies, deadRequests, botRelapses, webVars, interruptions>>

(* The instance stops or is killed: what it had not acknowledged is        *)
(* delivered again, to any instance, with its retries anew.                *)
BotStops(b) ==
    LET held == HeldBy(b) IN
    /\ Interrupted
    /\ request' = [r \in Requests |-> IF r \in held THEN "queued" ELSE request[r]]
    /\ holder' = [r \in Requests |-> IF r \in held THEN None ELSE holder[r]]
    /\ requestTry' = [r \in Requests |-> IF r \in held THEN 0 ELSE requestTry[r]]
    /\ found' = [r \in Requests |-> IF r \in held THEN None ELSE found[r]]
    /\ botRelapses' = [r \in Requests |->
           IF r \in held /\ request[r] \in {"answered", "moved"}
           THEN botRelapses[r] + 1 ELSE botRelapses[r]]
    /\ UNCHANGED <<rooms, copies, deadRequests, webVars>>

-----------------------------------------------------------------------------
(* Chat.Web: StockQuoteResponseConsumer and PostBotMessageHandler.  There  *)
(* is one instance of it.                                                  *)

HeldByWeb == {a \in Answers : answer[a] \in AtWeb}

MoveAnswer(a, stage) == answer' = [answer EXCEPT ![a] = stage]

ReceiveAnswer(a) ==
    /\ answer[a] = "queued"
    /\ Cardinality(HeldByWeb) < PrefetchCount
    /\ MoveAnswer(a, "received")
    /\ UNCHANGED <<rooms, botVars, outcome, answerTry, posts, pushes, alerts,
                   deadAnswers, webRelapses, interruptions>>

(* ExistsAsync, long before the row is saved; NotFound is a failed Result. *)
(* MessageContent.Create and Message.PostByBot return failed Results too,  *)
(* but for nothing that reaches them here: the bot's text is a sentence    *)
(* around a short code and a price, never blank and far within the length  *)
(* of a message, the room has just been found, and the clock is set.       *)
CheckRoom(a) ==
    /\ answer[a] = "received"
    /\ MoveAnswer(a, IF RoomExists(a[1]) THEN "checked" ELSE "refused")
    /\ UNCHANGED <<rooms, botVars, outcome, answerTry, posts, pushes, alerts,
                   deadAnswers, webRelapses, interruptions>>

StorePost(a) == posts' = [posts EXCEPT ![a] = @ + 1]

Save(a) ==
    /\ answer[a] = "checked"
    /\ StorePost(a)
    /\ MoveAnswer(a, "saved")
    /\ UNCHANGED <<rooms, botVars, outcome, answerTry, pushes, alerts,
                   deadAnswers, webRelapses, interruptions>>

(* A copy goes to stock-quote-responses_error; AckAnswer follows.          *)
MoveAnswerAside(a) ==
    /\ MoveAnswer(a, "moved")
    /\ deadAnswers' = [deadAnswers EXCEPT ![a] = @ + 1]

(* Mutant of RetryAnswer: one retry too many.                              *)
RetryOnceMore(a) ==
    IF answerTry[a] <= RetryLimit
    THEN /\ MoveAnswer(a, "received")
         /\ answerTry' = [answerTry EXCEPT ![a] = @ + 1]
         /\ UNCHANGED deadAnswers
    ELSE /\ MoveAnswerAside(a)
         /\ UNCHANGED answerTry

RetryAnswer(a) ==
    IF answerTry[a] < RetryLimit
    THEN /\ MoveAnswer(a, "received")
         /\ answerTry' = [answerTry EXCEPT ![a] = @ + 1]
         /\ UNCHANGED deadAnswers
    ELSE /\ MoveAnswerAside(a)
         /\ UNCHANGED answerTry

(* Mutant of SaveFails: the exception is caught like a failed broadcast.   *)
SaveFailureSwallowed(a) ==
    /\ answer[a] \in {"received", "checked"}
    /\ MoveAnswer(a, "done")
    /\ UNCHANGED <<rooms, botVars, outcome, answerTry, posts, pushes, alerts,
                   deadAnswers, webRelapses, interruptions>>

(* The database refuses the query or the insert.                           *)
SaveFails(a) ==
    /\ answer[a] \in {"received", "checked"}
    /\ RetryAnswer(a)
    /\ UNCHANGED <<rooms, botVars, outcome, posts, pushes, alerts,
                   webRelapses, interruptions>>

(* SaveChangesAsync commits and then fails to report it.                   *)
SaveUnreported(a) ==
    /\ answer[a] = "checked"
    /\ Interrupted
    /\ StorePost(a)
    /\ RetryAnswer(a)
    /\ webRelapses' = [webRelapses EXCEPT ![a] = @ + 1]
    /\ UNCHANGED <<rooms, botVars, outcome, pushes, alerts>>

(* Mutant of Broadcast: the room is told before the row is stored.         *)
BroadcastBeforeSave(a) ==
    /\ answer[a] \in {"checked", "saved"}
    /\ pushes' = [pushes EXCEPT ![a] = @ + 1]
    /\ IF answer[a] = "checked" THEN UNCHANGED answer ELSE MoveAnswer(a, "done")
    /\ UNCHANGED <<rooms, botVars, outcome, answerTry, posts, alerts,
                   deadAnswers, webRelapses, interruptions>>

(* AnnounceAsync: the room first, and then, if the lookup failed, the      *)
(* participant who asked.  Whatever fails in it is a failed Result, which  *)
(* the consumer acknowledges.                                              *)
Broadcast(a) ==
    /\ answer[a] = "saved"
    /\ pushes' = [pushes EXCEPT ![a] = @ + 1]
    /\ MoveAnswer(a, IF outcome[a] = "LookupFailed" THEN "shown" ELSE "done")
    /\ UNCHANGED <<rooms, botVars, outcome, answerTry, posts, alerts,
                   deadAnswers, webRelapses, interruptions>>

(* Mutant of Alert: the participant is alerted before the room is told.    *)
AlertFirst(a) ==
    /\ answer[a] \in {"saved", "shown"}
    /\ outcome[a] = "LookupFailed"
    /\ alerts' = [alerts EXCEPT ![a] = @ + 1]
    /\ MoveAnswer(a, "done")
    /\ UNCHANGED <<rooms, botVars, outcome, answerTry, posts, pushes,
                   deadAnswers, webRelapses, interruptions>>

Alert(a) ==
    /\ answer[a] = "shown"
    /\ alerts' = [alerts EXCEPT ![a] = @ + 1]
    /\ MoveAnswer(a, "done")
    /\ UNCHANGED <<rooms, botVars, outcome, answerTry, posts, pushes,
                   deadAnswers, webRelapses, interruptions>>

(* Mutants of AnnounceFails: the failure is thrown, so that the delivery   *)
(* is retried; or the answer is moved aside although it is stored.         *)
AnnounceFailureThrown(a) ==
    /\ answer[a] \in {"saved", "shown"}
    /\ RetryAnswer(a)
    /\ UNCHANGED <<rooms, botVars, outcome, posts, pushes, alerts,
                   webRelapses, interruptions>>

AnnounceFailureDeadLettered(a) ==
    /\ answer[a] \in {"saved", "shown"}
    /\ MoveAnswerAside(a)
    /\ UNCHANGED <<rooms, botVars, outcome, answerTry, posts, pushes, alerts,
                   webRelapses, interruptions>>

AnnounceFails(a) ==
    /\ answer[a] \in {"saved", "shown"}
    /\ MoveAnswer(a, "done")
    /\ UNCHANGED <<rooms, botVars, outcome, answerTry, posts, pushes, alerts,
                   deadAnswers, webRelapses, interruptions>>

AckAnswer(a) ==
    /\ answer[a] \in {"done", "refused", "moved"}
    /\ MoveAnswer(a, IF answer[a] = "moved" THEN "error" ELSE "acked")
    /\ answerTry' = [answerTry EXCEPT ![a] = 0]
    /\ UNCHANGED <<rooms, botVars, outcome, posts, pushes, alerts,
                   deadAnswers, webRelapses, interruptions>>

(* Mutant of WebStops: deliveries were acknowledged on receipt, and what   *)
(* the host was working on dies with it.                                   *)
WebStopsAfterAutoAck ==
    /\ Interrupted
    /\ answer' = [a \in Answers |-> IF a \in HeldByWeb THEN "acked" ELSE answer[a]]
    /\ UNCHANGED <<rooms, botVars, answerTry, outcome, posts, pushes, alerts,
                   deadAnswers, webRelapses>>

WebStops ==
    /\ Interrupted
    /\ answer' = [a \in Answers |-> IF a \in HeldByWeb THEN "queued" ELSE answer[a]]
    /\ answerTry' = [a \in Answers |-> IF a \in HeldByWeb THEN 0 ELSE answerTry[a]]
    /\ webRelapses' = [a \in Answers |->
           IF answer[a] \in Stored \cup {"moved"} THEN webRelapses[a] + 1 ELSE webRelapses[a]]
    /\ UNCHANGED <<rooms, botVars, outcome, posts, pushes, alerts, deadAnswers>>

-----------------------------------------------------------------------------
BotStep(r) ==
    \/ \E b \in Bots : ReceiveRequest(b, r)
    \/ LookUp(r) \/ Respond(r) \/ RespondFails(r) \/ AckRequest(r)

WebStep(a) ==
    \/ ReceiveAnswer(a) \/ CheckRoom(a) \/ Save(a) \/ SaveFails(a)
    \/ Broadcast(a) \/ Alert(a) \/ AnnounceFails(a) \/ AckAnswer(a)

Interruption ==
    \/ \E r \in Requests : RespondUnconfirmed(r)
    \/ \E b \in Bots : BotStops(b)
    \/ \E a \in Answers : SaveUnreported(a)
    \/ WebStops

Next ==
    \/ \E r \in Requests : Ask(r)
    \/ \E room \in Rooms : RemoveRoom(room)
    \/ \E r \in Requests : BotStep(r)
    \/ \E a \in Answers : WebStep(a)
    \/ Interruption

(* The bus hands every queued message to a consumer in the end, and every  *)
(* handler returns: the lookup has a time budget and the saves a bounded   *)
(* number of retries.  Nobody has to ask, and nothing has to fail.         *)
Fairness ==
    /\ \A r \in Requests : WF_vars(BotStep(r))
    /\ \A a \in Answers : WF_vars(WebStep(a))

Spec     == Init /\ [][Next]_vars
FairSpec == Spec /\ Fairness

-----------------------------------------------------------------------------
(* Properties.                                                             *)

Answered(r) == \E a \in Answers : a[1] = r /\ answer[a] # "none"

(* Every request Chat.Web publishes is answered (StockQuoteRequestConsumer *)
(* remarks): one that is off the request queue, and was not dead-lettered, *)
(* has put an answer on the response queue.                                *)
RequestAckedOnlyIfAnswered ==
    \A r \in Requests : request[r] = "acked" => Answered(r)

(* No answer vanishes between the queue and the store: Chat.Web            *)
(* acknowledges one only when a row of it is stored, or when its room no   *)
(* longer exists.  A broadcast that failed is no reason to have lost it.   *)
AnswerAckedOnlyIfPosted ==
    \A a \in Answers :
        answer[a] = "acked" => posts[a] > 0 \/ RoomOf[a[1]] \notin rooms

(* Where a second answer to one request comes from: each one after the     *)
(* first is paid for by a delivery that was interrupted after publishing.  *)
(* Retries of a refused publish never add one.                             *)
ExtraAnswersAccounted ==
    \A r \in Requests : copies[r] <= botRelapses[r] + 1

(* Where a second row of one answer comes from: each one after the first   *)
(* is paid for by a delivery that was interrupted after its commit.  A     *)
(* failed broadcast or alert and a refused save never add one, whatever    *)
(* their number (PostBotMessageHandler.AnnounceAsync).                     *)
ExtraPostsAccounted ==
    \A a \in Answers : posts[a] <= webRelapses[a] + 1

(* Nothing is pushed to a room that is not stored (no phantom post), and a *)
(* stored row is pushed at most once.                                      *)
PushedOnlyIfStored ==
    \A a \in Answers : pushes[a] <= posts[a]

(* The banner explains a line already on the screen: it is raised for a    *)
(* failed lookup only, and never more often than the answer was pushed.    *)
AlertOnlyAfterOutagePost ==
    \A a \in Answers :
        /\ alerts[a] <= pushes[a]
        /\ alerts[a] > 0 => outcome[a] = "LookupFailed"

(* What lies in an _error queue is undone work: an operator who sends it   *)
(* through again repeats nothing but what an interruption left behind,     *)
(* also when the host stopped between the copy to _error and the           *)
(* acknowledgement, and the message it took back was then done after all.  *)
DeadLettersAreUndone ==
    /\ \A r \in Requests : deadRequests[r] > 0 => copies[r] <= botRelapses[r]
    /\ \A a \in Answers : deadAnswers[a] > 0 => posts[a] <= webRelapses[a]

(* The ledgers that make these invariants inductive.  For a request: every *)
(* answer and every dead letter but the one of its last delivery is of an  *)
(* interrupted one, and exactly the first copies[r] answers exist.         *)
RequestLedger(r) ==
    /\ botRelapses[r] <= interruptions
    /\ copies[r] + deadRequests[r] = botRelapses[r] +
           (IF request[r] \in {"answered", "moved", "acked", "error"} THEN 1 ELSE 0)
    /\ request[r] \in {"answered", "acked"} => copies[r] > 0
    /\ request[r] \in {"moved", "error"} => deadRequests[r] > 0
    /\ \A n \in Copies : answer[<<r, n>>] # "none" <=> n <= copies[r]

(* For an answer: every row and every dead letter but the one of the       *)
(* delivery that holds it, or completed it, is of an interrupted one;      *)
(* pushes trail rows and alerts trail pushes.                              *)
AnswerLedger(a) ==
    /\ webRelapses[a] <= interruptions
    /\ answer[a] # "acked" => posts[a] + deadAnswers[a] = webRelapses[a] +
           (IF answer[a] \in Stored \cup {"moved", "error"} THEN 1 ELSE 0)
    /\ answer[a] = "acked" =>
           /\ posts[a] + deadAnswers[a] \in {webRelapses[a], webRelapses[a] + 1}
           /\ posts[a] > 0 \/ RoomOf[a[1]] \notin rooms
    /\ answer[a] = "refused" => RoomOf[a[1]] \notin rooms
    /\ answer[a] \in Stored => posts[a] > 0
    /\ answer[a] \in {"moved", "error"} => deadAnswers[a] > 0
    /\ pushes[a] <= posts[a]
    /\ answer[a] = "saved" => pushes[a] < posts[a]
    /\ alerts[a] <= pushes[a]
    /\ alerts[a] > 0 => outcome[a] = "LookupFailed"
    /\ answer[a] = "shown" => outcome[a] = "LookupFailed" /\ alerts[a] < pushes[a]
    /\ answer[a] = "none" => posts[a] = 0

(* The inductive invariant of the round trip.                              *)
IInv ==
    /\ TypeOK
    /\ \A r \in Requests : RequestLedger(r)
    /\ \A a \in Answers : AnswerLedger(a)

(* ARCHITECTURE, "Idempotency of the bot's answer": the only step that can *)
(* duplicate a row is a failure after the commit.  So a request with two   *)
(* rows has an answer whose delivery was interrupted after its commit.     *)
OnlyPostCommitFailureDuplicates ==
    \A a1, a2 \in Answers :
        (a1[1] = a2[1] /\ a1 # a2 /\ posts[a1] > 0 /\ posts[a2] > 0) =>
            webRelapses[a1] + webRelapses[a2] > 0

-----------------------------------------------------------------------------
(* What a participant was promised.                                        *)

Settled(r) ==
    /\ request[r] \in {"acked", "error"}
    /\ \A n \in Copies : answer[<<r, n>>] \in {"none", "acked", "error"}

Excused(r) ==
    \/ RoomOf[r] \notin rooms
    \/ deadRequests[r] > 0
    \/ \E n \in Copies : deadAnswers[<<r, n>>] > 0

PostIds == Copies \X (1 .. MaxInterruptions + 1)

PostsOf(r) == {id \in PostIds : id[2] <= posts[<<r, id[1]>>]}

Promise == INSTANCE QuotePromise
    WITH asked   <- {r \in Requests : request[r] # "none"},
         shown   <- [r \in Requests |-> PostsOf(r)],
         excused <- {r \in Requests : Excused(r)},
         settled <- {r \in Requests : Settled(r)}

(* The round trip keeps the promise of QuotePromise.                       *)
KeepsPromise == Promise!Spec

(* Every command comes to rest, however the hosts are interrupted: posted, *)
(* dead-lettered or without a room.                                        *)
EveryRequestSettles == Promise!EveryAskSettles

=============================================================================
