---------------------------- MODULE QuoteLookup ----------------------------
(***************************************************************************)
(* One lookup by Chat.Bot of a stock code ChatInput has validated: the     *)
(* adapter (StooqClient or FinnhubClient), the resilience pipeline around  *)
(* its HTTP call, and the parser of what the provider answers.             *)
(*                                                                         *)
(* Time passes in ticks and timers are punctual.  The pipeline's total     *)
(* time-out covers the attempts and the waits between them; HttpClient     *)
(* buffers the body of a response after the pipeline has returned it, with *)
(* HttpClient.Timeout infinite.  The circuit breaker is shared by all      *)
(* lookups, so that it may be open at any attempt.                         *)
(***************************************************************************)
EXTENDS ChatInput

CONSTANTS
    Providers,      \* the configurations of a bot: Stocks:Provider, Finnhub:ApiKey
    Budget,         \* TimeoutSeconds, in ticks
    MaxAttempts,    \* StockQuoteHttpDefaults.MaxAttemptsPerLookup
    Backoff,        \* the longest wait before each retry, in ticks
    Bodies          \* what a provider may answer with

Ticks == 0 .. Budget

(* What may stand for a price in the answer of Finnhub.                    *)
Prices == {"absent", "text", "-1", "0", "1", "2"}

(* OperationCanceledException and its subclasses, and every other.         *)
Exceptions == {"cancellation", "failure"}

ASSUME ProviderAssumption == Providers \subseteq {"Stooq", "Finnhub", "Finnhub without key"}
ASSUME BudgetAssumption == Budget \in Nat /\ MaxAttempts \in Nat \ {0}
ASSUME BodyAssumption ==
    \A b \in Bodies : /\ b.kind = "csv" => b.lines \in Seq(Seq(STRING))
                      /\ b.kind = "json" => b.c \in Prices /\ b.pc \in Prices
ASSUME BackoffAssumption == Backoff \in [1 .. MaxAttempts -> Ticks]

(* Bound: a stalled body is followed for two ticks beyond the budget.      *)
MaxTicks == Budget + 2

VARIABLES
    provider,   \* the configuration of the bot that looks the code up
    stage,      \* where the lookup is
    attempt,    \* the attempts begun
    elapsed,    \* ticks since it began
    since,      \* ticks since the attempt or the wait began
    pause,      \* the length of the wait
    deferred,   \* the provider has asked for a wait (Retry-After)
    body,       \* the body read
    answer,     \* the StockQuoteLookup returned
    cause,      \* what ended it
    raised,     \* the exception that ended it, if one did
    stopping    \* the caller has cancelled

clock      == <<attempt, elapsed, since, pause, deferred>>
lookupVars == <<provider, stage, clock, body, answer, cause, raised, stopping>>
vars       == <<inputVars, lookupVars>>

NoBody == [kind |-> "none"]
Quoted(price) == [outcome |-> "Quoted", price |-> price]
NoQuote(outcome) == [outcome |-> outcome, price |-> "none"]
LookupFailed   == NoQuote("LookupFailed")
SymbolNotFound == NoQuote("SymbolNotFound")
Pending        == NoQuote("none")

LookupTypeOK ==
    /\ provider \in Providers \cup {"none"}
    /\ stage \in {"idle", "trying", "waiting", "reading", "ended", "thrown"}
    /\ attempt \in 0 .. MaxAttempts
    /\ elapsed \in 0 .. MaxTicks /\ since \in 0 .. MaxTicks
    /\ pause \in 0 .. Budget + 1
    /\ deferred \in BOOLEAN /\ stopping \in BOOLEAN
    /\ body \in Bodies \cup {NoBody}
    /\ answer.outcome \in {"none", "Quoted", "SymbolNotFound", "LookupFailed"}
    /\ cause \in {"none", "key", "status", "body", "failure", "breaker", "total", "stop"}
    /\ raised \in Exceptions \cup {"none"}

TypeOK == InputTypeOK /\ LookupTypeOK

Init ==
    /\ InputInit
    /\ provider = "none" /\ stage = "idle"
    /\ attempt = 0 /\ elapsed = 0 /\ since = 0 /\ pause = 0
    /\ deferred = FALSE /\ stopping = FALSE
    /\ body = NoBody /\ answer = Pending /\ cause = "none" /\ raised = "none"

-----------------------------------------------------------------------------
(* The budget (ConfigureQuoteResilience).                                  *)

(* Mutants: one retry too many, and an attempt that may spend the whole    *)
(* budget.                                                                 *)
RetriesAsAttempts == MaxAttempts
UndividedDue == stage = "trying" /\ since >= Budget

AttemptTimeout == Budget \div MaxAttempts
MaxRetryAttempts == MaxAttempts - 1
Guarded == {"trying", "waiting"}

AttemptDue == stage = "trying" /\ since >= AttemptTimeout
WaitDue    == stage = "waiting" /\ since >= pause
TotalDue   == stage \in Guarded /\ elapsed >= Budget

Tick ==
    /\ stage \in {"trying", "waiting", "reading"}
    /\ ~AttemptDue /\ ~WaitDue /\ ~TotalDue
    /\ elapsed < MaxTicks /\ since < MaxTicks
    /\ elapsed' = elapsed + 1 /\ since' = since + 1
    /\ UNCHANGED <<inputVars, provider, stage, attempt, pause, deferred, body, answer, cause, raised, stopping>>

-----------------------------------------------------------------------------
(* Ends.  The clock of an ended lookup no longer matters, but what it      *)
(* counted does.                                                           *)

Finish(result, why) ==
    /\ stage' = "ended" /\ answer' = result /\ cause' = why
    /\ elapsed' = 0 /\ since' = 0 /\ pause' = 0
    /\ UNCHANGED <<inputVars, provider, attempt, deferred, stopping>>

(* Mutant of IsCallerCancellation: whoever has cancelled.                  *)
AnyCancellation(exception) == exception = "cancellation"

IsCallerCancellation(exception) == exception = "cancellation" /\ stopping

(* The catch of the adapters: everything but the caller's cancellation     *)
(* becomes a failed lookup.                                                *)
Raise(exception, why) ==
    /\ raised' = exception /\ body' = body
    /\ \/ /\ ~IsCallerCancellation(exception)
          /\ Finish(LookupFailed, why)
       \/ /\ IsCallerCancellation(exception)
          /\ stage' = "thrown" /\ cause' = why
          /\ UNCHANGED <<inputVars, provider, clock, answer, stopping>>

-----------------------------------------------------------------------------
(* The pipeline.                                                           *)

(* The consumer hands the code on; what was typed is forgotten.            *)
Begin ==
    /\ at = "validated"
    /\ provider' \in Providers
    /\ at' = "asked" /\ typed' = <<>> /\ text' = <<>> /\ echoed' = FALSE
    /\ UNCHANGED <<box, refusedBy>>

Call ==
    /\ Begin
    /\ provider' # "Finnhub without key"
    /\ stage' = "trying" /\ attempt' = 1
    /\ UNCHANGED <<elapsed, since, pause, deferred, body, answer, cause, raised, stopping>>

(* Without an API key Finnhub is not called.                               *)
NoKey ==
    /\ Begin
    /\ provider' = "Finnhub without key"
    /\ stage' = "ended" /\ answer' = LookupFailed /\ cause' = "key"
    /\ UNCHANGED <<clock, body, raised, stopping>>

(* What a further attempt may cure: a wait, while retries are left.        *)
Wait(delays, asked) ==
    /\ attempt <= MaxRetryAttempts
    /\ stage' = "waiting" /\ since' = 0
    /\ pause' \in delays
    /\ deferred' = (deferred \/ asked)
    /\ UNCHANGED <<inputVars, provider, attempt, elapsed, body, answer, cause, raised, stopping>>

Retry ==
    \/ Wait(0 .. Backoff[attempt], FALSE)
    \/ attempt > MaxRetryAttempts /\ Raise("failure", "failure")

AttemptTimesOut == AttemptDue /\ Retry

TransportFails == stage = "trying" /\ Retry

(* 408, 429 or 5xx; Retry-After replaces the backoff and may be longer     *)
(* than any budget.  The last one is handed on like any other response.    *)
Transient ==
    /\ stage = "trying"
    /\ \/ Wait(0 .. Backoff[attempt], FALSE)
       \/ Wait(1 .. Budget + 1, TRUE)

TryAgain ==
    /\ WaitDue
    /\ stage' = "trying" /\ attempt' = attempt + 1 /\ since' = 0 /\ pause' = 0
    /\ UNCHANGED <<inputVars, provider, elapsed, deferred, body, answer, cause, raised, stopping>>

(* An open circuit is not retried.                                         *)
BreakerRejects == stage = "trying" /\ since = 0 /\ Raise("failure", "breaker")

TotalTimesOut == TotalDue /\ Raise("failure", "total")

(* The pipeline is done with a response when its headers are here; the     *)
(* adapter gets it when HttpClient has read the body too.                  *)
HeadersArrive ==
    /\ stage = "trying"
    /\ stage' = "reading"
    /\ UNCHANGED <<inputVars, provider, clock, body, answer, cause, raised, stopping>>

-----------------------------------------------------------------------------
(* The body.                                                               *)

(* Mutant of ParseCsv: the price is expected in the last field.            *)
ParseCsvByPosition(lines) ==
    LET row == Last(lines) IN
    IF Len(lines) < 2 \/ "Close" \notin ToSet(lines[1]) \/ Len(row) # Len(lines[1]) THEN LookupFailed
    ELSE IF Last(row) = "N/D" THEN SymbolNotFound
    ELSE IF Last(row) \in {"1", "2"} THEN Quoted(Last(row)) ELSE LookupFailed

(* StooqCsvParser.Parse: the Close column of the last line.                *)
ParseCsv(lines) ==
    LET row    == Last(lines)
        column == SelectInSeq(lines[1], LAMBDA field : field = "Close")
        price  == row[column]
    IN  IF Len(lines) < 2 \/ column = 0 \/ Len(row) # Len(lines[1]) THEN LookupFailed
        ELSE IF price = "N/D" THEN SymbolNotFound
        ELSE IF price \in {"1", "2"} THEN Quoted(price) ELSE LookupFailed

(* FinnhubQuoteParser.Parse.                                               *)
ParseJson(c, pc) ==
    IF c \in {"1", "2"} THEN Quoted(c)
    ELSE IF c \in {"0", "-1"} /\ pc = "0" THEN SymbolNotFound
    ELSE LookupFailed

(* A page of HTML, a refusal in plain words or nothing is no quote.        *)
ParseBody(b) ==
    IF provider = "Stooq" /\ b.kind = "csv" THEN ParseCsv(b.lines)
    ELSE IF provider = "Finnhub" /\ b.kind = "json" THEN ParseJson(b.c, b.pc)
    ELSE LookupFailed

ReadBody ==
    /\ stage = "reading"
    /\ body' \in Bodies
    /\ Finish(ParseBody(body'), "body")
    /\ UNCHANGED raised

(* No success status: the provider refuses, whatever its words.            *)
Refused == stage = "reading" /\ Finish(LookupFailed, "status") /\ UNCHANGED <<body, raised>>

(* The connection breaks, the body is longer than MaxResponseBytes, or     *)
(* HttpClient cancels the request by itself.                               *)
BodyFails == stage = "reading" /\ \E exception \in Exceptions : Raise(exception, "body")

-----------------------------------------------------------------------------
(* The bot stops, or the delivery is abandoned.                            *)

Stop ==
    /\ stage \in {"trying", "waiting", "reading"} /\ ~stopping
    /\ stopping' = TRUE
    /\ UNCHANGED <<inputVars, provider, stage, clock, body, answer, cause, raised>>

(* Whatever is awaited gives up when the token is signalled.               *)
Cancelled ==
    /\ stage \in {"trying", "waiting", "reading"} /\ stopping
    /\ Raise("cancellation", "stop")

-----------------------------------------------------------------------------
PipelineStep ==
    \/ Tick \/ AttemptTimesOut \/ TransportFails \/ Transient \/ TryAgain
    \/ BreakerRejects \/ TotalTimesOut \/ HeadersArrive

Next ==
    \/ InputNext /\ UNCHANGED lookupVars
    \/ Call \/ NoKey
    \/ PipelineStep
    \/ ReadBody \/ Refused \/ BodyFails
    \/ Stop \/ Cancelled

Spec == Init /\ [][Next]_vars

-----------------------------------------------------------------------------
(* Properties.                                                             *)

(* DependencyInjection: the attempt's share of the budget leaves room for  *)
(* the retries.  A lookup that fails by what another attempt might have    *)
(* cured, or by running out of time, has begun all its attempts, unless    *)
(* the provider itself asked for a wait.                                   *)
EveryAttemptIsMade ==
    stage = "ended" /\ cause \in {"failure", "total"} /\ ~deferred => attempt = MaxAttempts

(* What that asks of the configuration: whenever a retry is due, after the *)
(* longest attempts and waits so far, some of the budget is left.          *)
WaitsFit(waited) ==
    /\ waited[0] = 0
    /\ \A n \in 1 .. MaxAttempts - 1 :
           /\ waited[n] = waited[n - 1] + Backoff[n]
           /\ n * AttemptTimeout + waited[n] < Budget

BackoffFits == \E waited \in [0 .. MaxAttempts -> Ticks] : WaitsFit(waited)

(* IStockQuoteProvider: a lookup never throws, whatever the provider does; *)
(* only the caller's own cancellation propagates.  Nor does a stopping bot *)
(* take its own cancellation for the provider being down.                  *)
ThrowsOnlyOnStop ==
    /\ stage = "thrown" => raised = "cancellation" /\ stopping
    /\ stage = "ended" => ~(raised = "cancellation" /\ stopping)

(* What the body says, without parsing: the newest row puts this under the *)
(* heading "Close", or the object has these prices.                        *)
RowSays(b, value) ==
    /\ provider = "Stooq" /\ b.kind = "csv" /\ Len(b.lines) > 1
    /\ LET header == Head(b.lines) row == Last(b.lines) IN
       /\ DOMAIN row = DOMAIN header
       /\ \E i \in DOMAIN header :
              /\ header[i] = "Close" /\ row[i] = value
              /\ \A j \in 1 .. i - 1 : header[j] # "Close"

ObjectSays(b, c, pc) == provider = "Finnhub" /\ b.kind = "json" /\ b.c \in c /\ b.pc \in pc

(* FinnhubQuoteParser says of itself that "not found" is every number zero *)
(* and a zero price that of Finnhub; a price below zero with a previous    *)
(* close of zero is taken for it too, although Finnhub has not said so.    *)
BelowZero(b) == ObjectSays(b, {"-1"}, {"0"})

(* The room is told a price only when the provider gave just that, as the  *)
(* newest one, and "not found" only when the provider said so, with the    *)
(* exception above; and neither is kept from it.                           *)
AnswersAreEarned ==
    stage = "ended" /\ body # NoBody =>
        /\ \A p \in {"1", "2"} :
               (answer = Quoted(p)) <=> RowSays(body, p) \/ ObjectSays(body, {p}, Prices)
        /\ ~BelowZero(body) =>
               ((answer = SymbolNotFound) <=> RowSays(body, "N/D") \/ ObjectSays(body, {"0"}, {"0"}))
        /\ BelowZero(body) => answer = SymbolNotFound

(* StooqOptions: the total budget of one lookup bounds how long a          *)
(* participant waits.                                                      *)
EndsWithinBudget == stage \in {"trying", "waiting", "reading"} => elapsed <= Budget

=============================================================================
