------------------------- MODULE QuoteLookup_proofs -------------------------
(***************************************************************************)
(* Theorems about one lookup, for any budget, any number of attempts, any  *)
(* waits and any bodies.                                                   *)
(***************************************************************************)
EXTENDS ChatInput_proofs

Waiting == {"trying", "waiting", "reading"}

(* Until the consumer hands a code on, nothing has been spent.             *)
IdleIsFresh ==
    at # "asked" => /\ stage = "idle" /\ attempt = 0 /\ elapsed = 0 /\ since = 0
                    /\ ~deferred

(* Only an exception that has ended the lookup has been raised.            *)
RaisedAtTheEnd == stage \notin {"ended", "thrown"} => raised = "none"

(* Timers are punctual, and an attempt has begun while one is waited for.  *)
Punctual ==
    /\ stage \in Waiting => attempt \in 1 .. MaxAttempts
    /\ stage = "trying" => since <= AttemptTimeout
    /\ stage = "waiting" => since <= pause /\ attempt <= MaxRetryAttempts

LookupInv ==
    /\ LookupTypeOK
    /\ IdleIsFresh
    /\ Punctual
    /\ RaisedAtTheEnd
    /\ ThrowsOnlyOnStop

(* The time spent, unless the provider has asked for a wait: whole shares  *)
(* for the attempts that are over, the longest waits, and the present one. *)
Pace(waited) ==
    ~deferred =>
        /\ stage = "trying" => elapsed + AttemptTimeout
                                   <= attempt * AttemptTimeout + waited[attempt - 1] + since
        /\ stage = "waiting" => /\ pause <= Backoff[attempt]
                                /\ elapsed <= attempt * AttemptTimeout + waited[attempt - 1] + since

-----------------------------------------------------------------------------
(* The constants.                                                          *)

LEMMA Constants ==
    /\ Budget \in Nat /\ MaxAttempts \in Nat \ {0}
    /\ AttemptTimeout \in Nat /\ AttemptTimeout <= Budget
    /\ MaxRetryAttempts = MaxAttempts - 1
    /\ \A n \in 1 .. MaxAttempts : Backoff[n] \in 0 .. Budget
    /\ MaxTicks = Budget + 2
<1>1. Budget \in Nat /\ MaxAttempts \in Nat /\ MaxAttempts > 0
  BY BudgetAssumption
<1>2. Budget \div MaxAttempts \in Nat /\ Budget \div MaxAttempts <= Budget
  BY <1>1
<1>3. Backoff \in [1 .. MaxAttempts -> 0 .. Budget]
  BY BackoffAssumption DEF Ticks
<1> QED BY <1>1, <1>2, <1>3 DEF AttemptTimeout, MaxRetryAttempts, MaxTicks

(* Whatever a body is, the parsers return one of three outcomes.           *)
LEMMA ParsersAnswer ==
    ASSUME NEW b PROVE ParseBody(b).outcome \in {"Quoted", "SymbolNotFound", "LookupFailed"}
<1>1. \A price : Quoted(price).outcome = "Quoted"
  BY DEF Quoted
<1>2. LookupFailed.outcome = "LookupFailed" /\ SymbolNotFound.outcome = "SymbolNotFound"
  BY DEF LookupFailed, SymbolNotFound, NoQuote
<1>3. ASSUME NEW lines PROVE ParseCsv(lines).outcome \in {"Quoted", "SymbolNotFound", "LookupFailed"}
  BY <1>1, <1>2, Zenon DEF ParseCsv
<1>4. ASSUME NEW c, NEW pc PROVE ParseJson(c, pc).outcome \in {"Quoted", "SymbolNotFound", "LookupFailed"}
  BY <1>1, <1>2 DEF ParseJson
<1> QED BY <1>2, <1>3, <1>4 DEF ParseBody

-----------------------------------------------------------------------------
(* The invariant.                                                          *)

LEMMA InitInv == Init => LookupInv
<1> SUFFICES ASSUME Init PROVE LookupInv
  OBVIOUS
<1>1. answer.outcome = "none"
  BY DEF Init, Pending, NoQuote
<1>2. 0 \in 0 .. MaxAttempts /\ 0 \in 0 .. MaxTicks /\ 0 \in 0 .. Budget + 1
  BY Constants
<1>3. LookupTypeOK
  BY <1>1, <1>2, Zenon DEF Init, LookupTypeOK
<1>4. IdleIsFresh /\ Punctual /\ RaisedAtTheEnd /\ ThrowsOnlyOnStop
  BY DEF Init, IdleIsFresh, Punctual, Waiting, RaisedAtTheEnd, ThrowsOnlyOnStop
<1> QED BY <1>3, <1>4 DEF LookupInv

(* Before the lookup only the text moves, and afterwards it does not.      *)
LEMMA InputSteps == InputNext => at # "asked" /\ at' # "asked"
BY DEF InputNext, Submit, HandleLine, HandleName, Revalidate, Refuse, Accept

LEMMA BeginSteps ==
    ASSUME LookupInv, Call \/ NoKey PROVE LookupInv'
<1>1. /\ at' = "asked" /\ provider' \in Providers
      /\ stage = "idle" /\ attempt = 0 /\ elapsed = 0 /\ since = 0 /\ raised = "none"
  BY DEF Call, NoKey, Begin, LookupInv, IdleIsFresh, RaisedAtTheEnd
<1>2. LookupFailed.outcome = "LookupFailed"
  BY DEF LookupFailed, NoQuote
<1>3. CASE Call
  <2>1. /\ 1 \in 1 .. MaxAttempts /\ 1 \in 0 .. MaxAttempts
        /\ 0 <= AttemptTimeout /\ 0 <= Budget
    BY Constants
  <2>2. LookupTypeOK'
    BY <1>1, <1>3, <2>1 DEF Call, LookupInv, LookupTypeOK
  <2>3. (IdleIsFresh /\ Punctual /\ RaisedAtTheEnd /\ ThrowsOnlyOnStop)'
    BY <1>1, <1>3, <2>1 DEF Call, IdleIsFresh, Punctual, Waiting, RaisedAtTheEnd, ThrowsOnlyOnStop
  <2> QED BY <2>2, <2>3 DEF LookupInv
<1>4. CASE NoKey
  <2>1. LookupTypeOK'
    BY <1>1, <1>2, <1>4, Constants DEF NoKey, LookupInv, LookupTypeOK, clock
  <2>2. (IdleIsFresh /\ Punctual /\ RaisedAtTheEnd /\ ThrowsOnlyOnStop)'
    BY <1>1, <1>4 DEF NoKey, IdleIsFresh, Punctual, Waiting, RaisedAtTheEnd, ThrowsOnlyOnStop
  <2> QED BY <2>1, <2>2 DEF LookupInv
<1> QED BY <1>3, <1>4

LEMMA TickStep ==
    ASSUME LookupInv, Tick PROVE LookupInv'
BY Constants
   DEF LookupInv, LookupTypeOK, IdleIsFresh, Punctual, Waiting, RaisedAtTheEnd, ThrowsOnlyOnStop, Tick, AttemptDue, WaitDue, TotalDue, Guarded, inputVars

(* A lookup that ends well or badly, with an outcome, has not thrown.      *)
LEMMA FinishSteps ==
    ASSUME LookupInv, stage \in Waiting, NEW result, NEW why, Finish(result, why),
           result.outcome \in {"Quoted", "SymbolNotFound", "LookupFailed"},
           why \in {"status", "body", "failure", "breaker", "total", "stop"},
           body' \in Bodies \cup {NoBody},
           raised' \in Exceptions \cup {"none"}, ~(raised' = "cancellation" /\ stopping)
    PROVE  LookupInv'
BY Constants
   DEF LookupInv, LookupTypeOK, IdleIsFresh, Punctual, Waiting, RaisedAtTheEnd, ThrowsOnlyOnStop, Finish, inputVars

(* The filter of the adapters, whatever is raised.                         *)
LEMMA RaiseSteps ==
    ASSUME LookupInv, stage \in Waiting, NEW exception \in Exceptions, NEW why, Raise(exception, why),
           why \in {"status", "body", "failure", "breaker", "total", "stop"}
    PROVE  LookupInv'
<1>1. LookupFailed.outcome = "LookupFailed"
  BY DEF LookupFailed, NoQuote
<1>2. body' = body /\ body \in Bodies \cup {NoBody} /\ raised' = exception
  BY DEF Raise, LookupInv, LookupTypeOK
<1>3. CASE ~IsCallerCancellation(exception)
  <2>1. Finish(LookupFailed, why)
    BY <1>3 DEF Raise
  <2>2. ~(raised' = "cancellation" /\ stopping)
    BY <1>2, <1>3 DEF IsCallerCancellation
  <2> QED BY <1>1, <1>2, <2>1, <2>2, FinishSteps
<1>4. CASE IsCallerCancellation(exception)
  BY <1>2, <1>4, Constants
     DEF Raise, IsCallerCancellation, LookupInv, LookupTypeOK, IdleIsFresh, Punctual, Waiting,
         RaisedAtTheEnd, ThrowsOnlyOnStop, inputVars, clock
<1> QED BY <1>3, <1>4

LEMMA WaitSteps ==
    ASSUME LookupInv, stage = "trying", NEW delays, NEW asked \in BOOLEAN, Wait(delays, asked),
           delays \subseteq 0 .. Budget + 1
    PROVE  LookupInv'
BY Constants
   DEF LookupInv, LookupTypeOK, IdleIsFresh, Punctual, Waiting, RaisedAtTheEnd, ThrowsOnlyOnStop, Wait, inputVars

LEMMA RetrySteps ==
    ASSUME LookupInv, stage = "trying", Retry PROVE LookupInv'
<1>1. CASE Wait(0 .. Backoff[attempt], FALSE)
  <2>1. 0 .. Backoff[attempt] \subseteq 0 .. Budget + 1
    BY Constants DEF LookupInv, Punctual, Waiting
  <2> QED BY <1>1, <2>1, WaitSteps
<1>2. CASE Raise("failure", "failure")
  BY <1>2, RaiseSteps DEF Waiting, Exceptions
<1> QED BY <1>1, <1>2 DEF Retry

LEMMA PipelineSteps ==
    ASSUME LookupInv, PipelineStep PROVE LookupInv'
<1>1. CASE Tick
  BY <1>1, TickStep
<1>2. CASE AttemptTimesOut
  BY <1>2, RetrySteps DEF AttemptTimesOut, AttemptDue
<1>3. CASE TransportFails
  BY <1>3, RetrySteps DEF TransportFails
<1>4. CASE Transient
  <2>1. /\ 0 .. Backoff[attempt] \subseteq 0 .. Budget + 1
        /\ 1 .. Budget + 1 \subseteq 0 .. Budget + 1
    BY <1>4, Constants DEF Transient, LookupInv, Punctual, Waiting
  <2> QED BY <1>4, <2>1, WaitSteps DEF Transient
<1>5. CASE TryAgain
  BY <1>5, Constants
     DEF LookupInv, LookupTypeOK, IdleIsFresh, Punctual, Waiting, RaisedAtTheEnd, ThrowsOnlyOnStop, TryAgain, WaitDue, inputVars
<1>6. CASE BreakerRejects
  BY <1>6, RaiseSteps DEF BreakerRejects, Waiting, Exceptions
<1>7. CASE TotalTimesOut
  BY <1>7, RaiseSteps DEF TotalTimesOut, TotalDue, Guarded, Waiting, Exceptions
<1>8. CASE HeadersArrive
  BY <1>8, Constants
     DEF LookupInv, LookupTypeOK, IdleIsFresh, Punctual, Waiting, RaisedAtTheEnd, ThrowsOnlyOnStop, HeadersArrive, inputVars, clock
<1> QED BY <1>1, <1>2, <1>3, <1>4, <1>5, <1>6, <1>7, <1>8 DEF PipelineStep

LEMMA BodySteps ==
    ASSUME LookupInv, ReadBody \/ Refused \/ BodyFails PROVE LookupInv'
<1>1. CASE ReadBody
  <2>1. ParseBody(body').outcome \in {"Quoted", "SymbolNotFound", "LookupFailed"}
    BY ParsersAnswer
  <2>2. raised' \in Exceptions \cup {"none"} /\ ~(raised' = "cancellation" /\ stopping)
    BY <1>1 DEF ReadBody, LookupInv, RaisedAtTheEnd
  <2> QED BY <1>1, <2>1, <2>2, FinishSteps DEF ReadBody, Waiting
<1>2. CASE Refused
  <2>1. LookupFailed.outcome = "LookupFailed" /\ body' \in Bodies \cup {NoBody}
    BY <1>2 DEF LookupFailed, NoQuote, Refused, LookupInv, LookupTypeOK
  <2>2. raised' \in Exceptions \cup {"none"} /\ ~(raised' = "cancellation" /\ stopping)
    BY <1>2 DEF Refused, LookupInv, RaisedAtTheEnd
  <2> QED BY <1>2, <2>1, <2>2, FinishSteps DEF Refused, Waiting
<1>3. CASE BodyFails
  BY <1>3, RaiseSteps DEF BodyFails, Waiting
<1> QED BY <1>1, <1>2, <1>3

LEMMA StopSteps ==
    ASSUME LookupInv, Stop \/ Cancelled PROVE LookupInv'
<1>1. CASE Stop
  BY <1>1, Constants
     DEF LookupInv, LookupTypeOK, IdleIsFresh, Punctual, Waiting, RaisedAtTheEnd, ThrowsOnlyOnStop, Stop, inputVars, clock
<1>2. CASE Cancelled
  BY <1>2, RaiseSteps DEF Cancelled, Waiting, Exceptions
<1> QED BY <1>1, <1>2

LEMMA IdleSteps ==
    ASSUME LookupInv, (InputNext /\ UNCHANGED lookupVars) \/ UNCHANGED vars PROVE LookupInv'
BY InputSteps
   DEF LookupInv, LookupTypeOK, IdleIsFresh, Punctual, RaisedAtTheEnd, ThrowsOnlyOnStop,
       lookupVars, clock, vars, inputVars

(* The types of the lookup, its punctual timers, its one budget and its    *)
(* exceptions (ConfigureQuoteResilience, StooqClient, FinnhubClient).      *)
THEOREM LookupInvariant == Spec => []LookupInv
<1>1. LookupInv /\ [Next]_vars => LookupInv'
  BY IdleSteps, BeginSteps, PipelineSteps, BodySteps, StopSteps DEF Next
<1> QED BY InitInv, <1>1, PTL DEF Spec

(* The types of the whole state, from the typed line to the answer.        *)
THEOREM TypesAreKept == Spec => []TypeOK
<1>1. InputInv /\ LookupInv => TypeOK
  BY DEF InputInv, LookupInv, TypeOK
<1> QED BY <1>1, InputInvariant, LookupInvariant, PTL

(* IStockQuoteProvider: nothing but the caller's cancellation is thrown.   *)
THEOREM OnlyCancellationThrows == Spec => []ThrowsOnlyOnStop
<1>1. LookupInv => ThrowsOnlyOnStop
  BY DEF LookupInv
<1> QED BY <1>1, LookupInvariant, PTL

-----------------------------------------------------------------------------
(* Every attempt is made.                                                  *)

LEMMA Shares ==
    \A n \in Nat : /\ n * AttemptTimeout \in Nat
                  /\ (n + 1) * AttemptTimeout = n * AttemptTimeout + AttemptTimeout
                  /\ 1 * AttemptTimeout = AttemptTimeout
<1> SUFFICES ASSUME NEW n \in Nat
             PROVE  /\ n * AttemptTimeout \in Nat
                    /\ (n + 1) * AttemptTimeout = n * AttemptTimeout + AttemptTimeout
                    /\ 1 * AttemptTimeout = AttemptTimeout
  OBVIOUS
<1>1. AttemptTimeout \in Nat
  BY Constants
<1>2. \A t \in Nat : n * t \in Nat /\ (n + 1) * t = n * t + t /\ 1 * t = t
  OBVIOUS
<1> QED BY <1>1, <1>2

(* While retries are left, there is time left for them.                    *)
LEMMA TimeIsLeft ==
    ASSUME NEW waited \in [0 .. MaxAttempts -> Ticks], WaitsFit(waited),
           LookupInv, Pace(waited), ~deferred, stage \in {"trying", "waiting"},
           attempt # MaxAttempts
    PROVE  elapsed < Budget
<1>1. /\ attempt \in Nat /\ attempt \in 1 .. MaxAttempts - 1 /\ attempt - 1 \in 0 .. MaxAttempts
      /\ elapsed \in Nat /\ since \in Nat /\ pause \in Nat
  BY Constants DEF LookupInv, LookupTypeOK, Punctual, Waiting
<1>2. /\ waited[attempt] \in Nat /\ waited[attempt - 1] \in Nat /\ Backoff[attempt] \in Nat
      /\ Budget \in Nat /\ AttemptTimeout \in Nat
  BY <1>1, Constants DEF Ticks
<1>3. /\ waited[attempt] = waited[attempt - 1] + Backoff[attempt]
      /\ attempt * AttemptTimeout + waited[attempt] < Budget
  BY <1>1 DEF WaitsFit
<1>4. attempt * AttemptTimeout \in Nat
  BY <1>1, Shares
<1>5. CASE stage = "trying"
  <2>1. /\ since <= AttemptTimeout
        /\ elapsed + AttemptTimeout <= attempt * AttemptTimeout + waited[attempt - 1] + since
    BY <1>5 DEF Pace, LookupInv, Punctual
  <2> QED BY <1>1, <1>2, <1>3, <1>4, <2>1
<1>6. CASE stage = "waiting"
  <2>1. /\ since <= pause /\ pause <= Backoff[attempt]
        /\ elapsed <= attempt * AttemptTimeout + waited[attempt - 1] + since
    BY <1>6 DEF Pace, LookupInv, Punctual
  <2> QED BY <1>1, <1>2, <1>3, <1>4, <2>1
<1> QED BY <1>5, <1>6

LEMMA PaceHolds ==
    ASSUME NEW waited \in [0 .. MaxAttempts -> Ticks], WaitsFit(waited),
           LookupInv, Pace(waited), Next
    PROVE  Pace(waited)'
<1>1. /\ AttemptTimeout \in Nat /\ Budget \in Nat /\ MaxAttempts \in Nat
      /\ MaxRetryAttempts = MaxAttempts - 1
  BY Constants
<1>2. CASE InputNext /\ UNCHANGED lookupVars
  BY <1>2 DEF Pace, lookupVars, clock
<1>3. CASE Call
  <2>1. elapsed' = 0 /\ since' = 0 /\ attempt' = 1 /\ stage' = "trying"
    BY <1>3 DEF Call, Begin, LookupInv, IdleIsFresh
  <2>2. waited[1 - 1] = 0 /\ 1 * AttemptTimeout = AttemptTimeout
    BY Shares DEF WaitsFit
  <2> QED BY <1>1, <2>1, <2>2 DEF Pace
<1>4. CASE NoKey
  BY <1>4 DEF NoKey, Pace
<1>5. CASE Tick
  <2>1. elapsed \in Nat /\ since \in Nat
    BY <1>5, <1>1, Constants DEF LookupInv, LookupTypeOK
  <2>2. stage \in {"trying", "waiting"} =>
            attempt * AttemptTimeout \in Nat /\ waited[attempt - 1] \in Nat
    BY <1>1, Shares DEF LookupInv, Punctual, Waiting, Ticks
  <2> QED BY <1>1, <1>5, <2>1, <2>2 DEF Tick, Pace
<1>6. ASSUME NEW delays, NEW asked \in BOOLEAN, Wait(delays, asked), stage = "trying",
             asked \/ delays = 0 .. Backoff[attempt]
      PROVE  Pace(waited)'
  <2> SUFFICES ASSUME ~deferred' PROVE Pace(waited)'
    BY DEF Pace
  <2>1. ~deferred /\ ~asked
    BY <1>6 DEF Wait, LookupInv, LookupTypeOK
  <2>2. /\ stage' = "waiting" /\ since' = 0 /\ attempt' = attempt /\ elapsed' = elapsed
        /\ pause' \in 0 .. Backoff[attempt]
    BY <1>6, <2>1 DEF Wait
  <2>3. /\ elapsed \in Nat /\ since \in Nat /\ attempt \in Nat /\ attempt \in 1 .. MaxAttempts
        /\ attempt - 1 \in 0 .. MaxAttempts
    BY <1>1, <1>6, Constants DEF LookupInv, LookupTypeOK, Punctual, Waiting
  <2>4. waited[attempt - 1] \in Nat /\ attempt * AttemptTimeout \in Nat /\ Backoff[attempt] \in Nat
    BY <1>1, <2>3, Shares, Constants DEF Ticks
  <2>5. /\ since <= AttemptTimeout
        /\ elapsed + AttemptTimeout <= attempt * AttemptTimeout + waited[attempt - 1] + since
    BY <1>6, <2>1 DEF Pace, LookupInv, Punctual
  <2>6. elapsed <= attempt * AttemptTimeout + waited[attempt - 1] + 0
    BY <1>1, <2>3, <2>4, <2>5
  <2> QED BY <2>2, <2>4, <2>6 DEF Pace
<1>7. ASSUME NEW exception, NEW why, Raise(exception, why) PROVE Pace(waited)'
  BY <1>7 DEF Raise, Finish, Pace
<1>8. CASE AttemptTimesOut \/ TransportFails
  <2>1. stage = "trying" /\ (Wait(0 .. Backoff[attempt], FALSE) \/ Raise("failure", "failure"))
    BY <1>8 DEF AttemptTimesOut, AttemptDue, TransportFails, Retry
  <2> QED BY <2>1, <1>6, <1>7
<1>9. CASE Transient
  BY <1>9, <1>6 DEF Transient
<1>10. CASE TryAgain
  <2> SUFFICES ASSUME ~deferred' PROVE Pace(waited)'
    BY DEF Pace
  <2>1. /\ ~deferred /\ stage = "waiting" /\ stage' = "trying"
        /\ attempt' = attempt + 1 /\ since' = 0 /\ elapsed' = elapsed
    BY <1>10 DEF TryAgain, WaitDue
  <2>2. /\ elapsed \in Nat /\ since \in Nat /\ pause \in Nat /\ attempt \in Nat
        /\ attempt \in 1 .. MaxAttempts - 1 /\ attempt - 1 \in 0 .. MaxAttempts
    BY <1>1, <2>1, Constants DEF LookupInv, LookupTypeOK, Punctual, Waiting
  <2>3. /\ waited[attempt - 1] \in Nat /\ waited[attempt] \in Nat
        /\ attempt * AttemptTimeout \in Nat /\ Backoff[attempt] \in Nat
        /\ (attempt + 1) * AttemptTimeout = attempt * AttemptTimeout + AttemptTimeout
    BY <1>1, <2>2, Shares, Constants DEF Ticks
  <2>4. waited[attempt] = waited[attempt - 1] + Backoff[attempt]
    BY <2>2 DEF WaitsFit
  <2>5. /\ since <= pause /\ pause <= Backoff[attempt]
        /\ elapsed <= attempt * AttemptTimeout + waited[attempt - 1] + since
    BY <2>1 DEF Pace, LookupInv, Punctual
  <2>6. elapsed + AttemptTimeout <= (attempt + 1) * AttemptTimeout + waited[attempt] + 0
    BY <1>1, <2>2, <2>3, <2>4, <2>5
  <2>7. attempt' - 1 = attempt
    BY <2>1, <2>2
  <2> QED BY <2>1, <2>6, <2>7 DEF Pace
<1>11. CASE BreakerRejects \/ TotalTimesOut \/ BodyFails
  BY <1>11, <1>7 DEF BreakerRejects, TotalTimesOut, BodyFails
<1>12. CASE HeadersArrive
  BY <1>12 DEF HeadersArrive, Pace
<1>13. CASE ReadBody \/ Refused
  BY <1>13 DEF ReadBody, Refused, Finish, Pace
<1>14. CASE Stop
  BY <1>14 DEF Stop, Pace, clock
<1>15. CASE Cancelled
  BY <1>15, <1>7 DEF Cancelled
<1> QED BY <1>2, <1>3, <1>4, <1>5, <1>8, <1>9, <1>10, <1>11, <1>12, <1>13, <1>14, <1>15
        DEF Next, PipelineStep

LEMMA AttemptsHold ==
    ASSUME NEW waited \in [0 .. MaxAttempts -> Ticks], WaitsFit(waited),
           LookupInv, Pace(waited), EveryAttemptIsMade, Next
    PROVE  EveryAttemptIsMade'
<1>1. CASE InputNext /\ UNCHANGED lookupVars
  BY <1>1 DEF EveryAttemptIsMade, lookupVars, clock
<1>2. CASE Call \/ NoKey
  BY <1>2 DEF Call, NoKey, EveryAttemptIsMade
<1>3. CASE Tick \/ TryAgain \/ HeadersArrive \/ Stop
  BY <1>3 DEF Tick, TryAgain, HeadersArrive, Stop, EveryAttemptIsMade
<1>4. CASE AttemptTimesOut \/ TransportFails
  <2>1. CASE Wait(0 .. Backoff[attempt], FALSE)
    BY <2>1 DEF Wait, EveryAttemptIsMade
  <2>2. CASE attempt > MaxRetryAttempts /\ Raise("failure", "failure")
    <3>1. stage = "trying"
      BY <1>4 DEF AttemptTimesOut, AttemptDue, TransportFails
    <3>2. attempt = MaxAttempts
      BY <2>2, <3>1, Constants DEF LookupInv, Punctual, Waiting
    <3> QED BY <2>2, <3>2 DEF Raise, Finish, EveryAttemptIsMade
  <2> QED BY <1>4, <2>1, <2>2 DEF AttemptTimesOut, TransportFails, Retry
<1>5. CASE Transient
  BY <1>5 DEF Transient, Wait, EveryAttemptIsMade
<1>6. CASE BreakerRejects \/ ReadBody \/ Refused \/ BodyFails \/ Cancelled
  BY <1>6 DEF BreakerRejects, ReadBody, Refused, BodyFails, Cancelled, Raise, Finish, EveryAttemptIsMade
<1>7. CASE TotalTimesOut
  <2>1. stage \in {"trying", "waiting"} /\ ~(elapsed < Budget)
    BY <1>7, Constants DEF TotalTimesOut, TotalDue, Guarded, LookupInv, LookupTypeOK
  <2>2. ~deferred => attempt = MaxAttempts
    BY <2>1, TimeIsLeft
  <2> QED BY <1>7, <2>2 DEF TotalTimesOut, Raise, Finish, EveryAttemptIsMade
<1> QED BY <1>1, <1>2, <1>3, <1>4, <1>5, <1>6, <1>7 DEF Next, PipelineStep

(* The attempt's share of the budget leaves room for the retries: when the *)
(* waits fit, a lookup that fails by what another attempt might have cured *)
(* has made all its attempts, unless the provider asked for a wait.        *)
THEOREM AttemptsAreMade == BackoffFits => (Spec => []EveryAttemptIsMade)
<1> SUFFICES ASSUME BackoffFits PROVE Spec => []EveryAttemptIsMade
  OBVIOUS
<1> PICK waited \in [0 .. MaxAttempts -> Ticks] : WaitsFit(waited)
  BY DEF BackoffFits
<1>1. Init => Pace(waited) /\ EveryAttemptIsMade
  BY DEF Init, Pace, EveryAttemptIsMade
<1>2. /\ LookupInv /\ Pace(waited) /\ EveryAttemptIsMade
      /\ [Next]_vars
      => (Pace(waited) /\ EveryAttemptIsMade)'
  <2> SUFFICES ASSUME LookupInv, Pace(waited), EveryAttemptIsMade, [Next]_vars
               PROVE  (Pace(waited) /\ EveryAttemptIsMade)'
    OBVIOUS
  <2>1. CASE Next
    BY <2>1, PaceHolds, AttemptsHold
  <2>2. CASE UNCHANGED vars
    BY <2>2 DEF Pace, EveryAttemptIsMade, vars, lookupVars, clock
  <2> QED BY <2>1, <2>2
<1> QED BY <1>1, <1>2, LookupInvariant, PTL DEF Spec

-----------------------------------------------------------------------------
(* The answer.                                                             *)

(* RowSays, of the lines alone: the last one has the value under "Close".  *)
Newest(lines, value) ==
    LET header == Head(lines) row == Last(lines) IN
    /\ DOMAIN row = DOMAIN header
    /\ \E i \in DOMAIN header :
           /\ header[i] = "Close" /\ row[i] = value
           /\ \A j \in 1 .. i - 1 : header[j] # "Close"

(* No two answers are the same.                                            *)
LEMMA Outcomes ==
    /\ \A p, q : Quoted(p) = Quoted(q) <=> p = q
    /\ \A p : Quoted(p) # SymbolNotFound /\ Quoted(p) # LookupFailed
    /\ SymbolNotFound # LookupFailed
BY DEF Quoted, SymbolNotFound, LookupFailed, NoQuote

(* The parser finds the first "Close" of the heading, if there is one.     *)
LEMMA CloseColumn ==
    ASSUME NEW s \in Seq(STRING)
    PROVE  \E column \in 0 .. Len(s) :
               /\ column = SelectInSeq(s, LAMBDA field : field = "Close")
               /\ \/ column = 0 /\ \A i \in 1 .. Len(s) : s[i] # "Close"
                  \/ /\ column \in 1 .. Len(s) /\ s[column] = "Close"
                     /\ \A i \in 1 .. Len(s) : s[i] = "Close" => column <= i
<1> DEFINE I == {i \in 1 .. Len(s) : s[i] = "Close"}
           column == SelectInSeq(s, LAMBDA field : field = "Close")
<1>1. column = IF I # {} THEN Min(I) ELSE 0
  BY DEF SelectInSeq
<1>2. Len(s) \in Nat /\ column = SelectInSeq(s, LAMBDA field : field = "Close")
  OBVIOUS
<1> HIDE DEF column
<1>3. CASE I = {}
  <2>1. column = 0 /\ \A i \in 1 .. Len(s) : s[i] # "Close"
    BY <1>1, <1>3
  <2>2. column \in 0 .. Len(s)
    BY <1>2, <2>1
  <2> QED BY <1>2, <2>1, <2>2, Zenon
<1>4. CASE I # {}
  <2>1. I \in SUBSET Nat
    BY DEF I
  <2>2. \E n \in I : \A k \in I : n <= k
    BY <1>4, <2>1, LeastOf
  <2>3. Min(I) \in I /\ \A k \in I : Min(I) <= k
    BY <2>2, Zenon DEF Min
  <2>4. /\ column \in 1 .. Len(s) /\ s[column] = "Close"
        /\ \A i \in 1 .. Len(s) : s[i] = "Close" => column <= i
    BY <1>1, <1>4, <2>3
  <2>5. column \in 0 .. Len(s)
    BY <1>2, <2>4
  <2> QED BY <1>2, <2>4, <2>5, Zenon
<1> QED BY <1>3, <1>4

(* StooqCsvParser: a price is what the newest row has under "Close".       *)
LEMMA CsvAnswers ==
    ASSUME NEW lines \in Seq(Seq(STRING))
    PROVE  /\ \A p \in {"1", "2"} :
                  ParseCsv(lines) = Quoted(p) <=> Len(lines) > 1 /\ Newest(lines, p)
           /\ ParseCsv(lines) = SymbolNotFound <=> Len(lines) > 1 /\ Newest(lines, "N/D")
<1>1. CASE ~(Len(lines) > 1)
  <2>1. Len(lines) < 2
    BY <1>1
  <2>2. ParseCsv(lines) = LookupFailed
    BY <2>1, Zenon DEF ParseCsv
  <2> QED BY <1>1, <2>2, Outcomes
<1>2. CASE Len(lines) > 1
  <2> DEFINE header == lines[1]
             row == Last(lines)
  <2>1. header \in Seq(STRING) /\ row \in Seq(STRING) /\ Head(lines) = header /\ ~(Len(lines) < 2)
    BY <1>2 DEF Last
  <2> HIDE DEF header, row
  <2>2. PICK column \in 0 .. Len(header) :
            /\ column = SelectInSeq(header, LAMBDA field : field = "Close")
            /\ \/ column = 0 /\ \A i \in 1 .. Len(header) : header[i] # "Close"
               \/ /\ column \in 1 .. Len(header) /\ header[column] = "Close"
                  /\ \A i \in 1 .. Len(header) : header[i] = "Close" => column <= i
    BY <2>1, CloseColumn
  <2>3. ParseCsv(lines) =
            IF column = 0 \/ Len(row) # Len(header) THEN LookupFailed
            ELSE IF row[column] = "N/D" THEN SymbolNotFound
            ELSE IF row[column] \in {"1", "2"} THEN Quoted(row[column]) ELSE LookupFailed
    <3>1. column = SelectInSeq(header, LAMBDA field : field = "Close")
      BY <2>2, Zenon
    <3> QED BY <2>1, <3>1, Zenon DEF ParseCsv, header, row
  <2>4. /\ Len(header) \in Nat /\ DOMAIN header = 1 .. Len(header)
        /\ Len(row) \in Nat /\ DOMAIN row = 1 .. Len(row)
    BY <2>1
  <2>5. DOMAIN row = DOMAIN header <=> Len(row) = Len(header)
    <3>1. ASSUME NEW m \in Nat, NEW n \in Nat, m < n PROVE 1 .. m # 1 .. n
      <4>1. n \in 1 .. n /\ n \notin 1 .. m
        BY <3>1
      <4> QED BY <4>1, Zenon
    <3>2. \A m, n \in Nat : 1 .. m = 1 .. n <=> m = n
      <4>1. \A m, n \in Nat : m = n \/ m < n \/ n < m
        OBVIOUS
      <4> QED BY <3>1, <4>1, Zenon
    <3> QED BY <2>4, <3>2, Zenon
  <2>6. ASSUME NEW value
        PROVE  Newest(lines, value) <=> column # 0 /\ Len(row) = Len(header) /\ row[column] = value
    <3>1. Newest(lines, value) <=>
              /\ Len(row) = Len(header)
              /\ \E i \in 1 .. Len(header) :
                     /\ header[i] = "Close" /\ row[i] = value
                     /\ \A j \in 1 .. i - 1 : header[j] # "Close"
      BY <2>1, <2>4, <2>5, Zenon DEF Newest, row
    <3>2. ASSUME column # 0, row[column] = value
          PROVE  \E i \in 1 .. Len(header) :
                     /\ header[i] = "Close" /\ row[i] = value
                     /\ \A j \in 1 .. i - 1 : header[j] # "Close"
      <4>1. column \in 1 .. Len(header) /\ header[column] = "Close"
        BY <2>2, <3>2
      <4>2. ASSUME NEW j \in 1 .. column - 1 PROVE header[j] # "Close"
        <5>1. j \in 1 .. Len(header) /\ ~(column <= j)
          BY <2>4, <4>1
        <5> QED BY <2>2, <3>2, <5>1
      <4> QED BY <3>2, <4>1, <4>2
    <3>3. ASSUME NEW i \in 1 .. Len(header), header[i] = "Close", row[i] = value,
                 \A j \in 1 .. i - 1 : header[j] # "Close"
          PROVE  column # 0 /\ row[column] = value
      <4>1. column \in 1 .. Len(header) /\ header[column] = "Close" /\ column <= i
        BY <2>2, <3>3
      <4>2. ~(column \in 1 .. i - 1)
        BY <3>3, <4>1
      <4>3. column = i /\ column # 0
        BY <2>4, <4>1, <4>2
      <4> QED BY <3>3, <4>3
    <3> QED BY <3>1, <3>2, <3>3, Zenon
  <2>7. "1" # "N/D" /\ "2" # "N/D"
    OBVIOUS
  <2>8. ASSUME NEW p \in {"1", "2"} PROVE ParseCsv(lines) = Quoted(p) <=> Newest(lines, p)
    <3>1. p # "N/D" /\ p \in {"1", "2"}
      BY <2>7
    <3>2. CASE column # 0 /\ Len(row) = Len(header) /\ row[column] = p
      <4>1. ParseCsv(lines) = Quoted(p)
        BY <2>3, <3>1, <3>2, Zenon
      <4> QED BY <2>6, <3>2, <4>1
    <3>3. CASE ~(column # 0 /\ Len(row) = Len(header) /\ row[column] = p)
      <4>1. ParseCsv(lines) # Quoted(p)
        BY <2>3, <3>3, Outcomes, Zenon
      <4> QED BY <2>6, <3>3, <4>1
    <3> QED BY <3>2, <3>3
  <2>9. ParseCsv(lines) = SymbolNotFound <=> Newest(lines, "N/D")
    BY <2>3, <2>6, Outcomes, Zenon
  <2> QED BY <1>2, <2>8, <2>9
<1> QED BY <1>1, <1>2

(* What the parsers make of a body is what the body says.                  *)
LEMMA BodyAnswers ==
    ASSUME NEW b \in Bodies
    PROVE  /\ \A p \in {"1", "2"} :
                  ParseBody(b) = Quoted(p) <=> RowSays(b, p) \/ ObjectSays(b, {p}, Prices)
           /\ ParseBody(b) = SymbolNotFound
                  <=> RowSays(b, "N/D") \/ ObjectSays(b, {"0"}, {"0"}) \/ BelowZero(b)
<1>1. ASSUME NEW value PROVE RowSays(b, value) <=>
          /\ provider = "Stooq" /\ b.kind = "csv"
          /\ Len(b.lines) > 1 /\ Newest(b.lines, value)
  BY Zenon DEF RowSays, Newest
<1>2. "Stooq" # "Finnhub" /\ "csv" # "json"
  OBVIOUS
<1>3. CASE provider = "Stooq" /\ b.kind = "csv"
  <2>1. b.lines \in Seq(Seq(STRING)) /\ ParseBody(b) = ParseCsv(b.lines)
    BY <1>3, BodyAssumption, Zenon DEF ParseBody
  <2>2. \A c, pc : ~ObjectSays(b, c, pc)
    BY <1>2, <1>3, Zenon DEF ObjectSays
  <2>3. \A value : RowSays(b, value) <=> Len(b.lines) > 1 /\ Newest(b.lines, value)
    BY <1>1, <1>3, Zenon
  <2> QED BY <2>1, <2>2, <2>3, CsvAnswers, Zenon DEF BelowZero
<1>4. CASE provider = "Finnhub" /\ b.kind = "json"
  <2>1. ParseBody(b) = ParseJson(b.c, b.pc) /\ b.pc \in Prices
    BY <1>2, <1>4, BodyAssumption, Zenon DEF ParseBody
  <2>2. \A value : ~RowSays(b, value)
    BY <1>1, <1>2, <1>4, Zenon
  <2>3. \A c, pc : ObjectSays(b, c, pc) <=> b.c \in c /\ b.pc \in pc
    BY <1>4, Zenon DEF ObjectSays
  <2>4. ASSUME NEW p \in {"1", "2"} PROVE ParseBody(b) = Quoted(p) <=> b.c = p
    <3>1. CASE b.c \in {"1", "2"}
      BY <2>1, <3>1, Outcomes, Zenon DEF ParseJson
    <3>2. CASE b.c \notin {"1", "2"}
      BY <2>1, <2>4, <3>2, Outcomes, Zenon DEF ParseJson
    <3> QED BY <3>1, <3>2
  <2>5. ParseBody(b) = SymbolNotFound <=> b.c \in {"0", "-1"} /\ b.pc = "0"
    <3>1. b.c \in {"1", "2"} => b.c \notin {"0", "-1"}
      OBVIOUS
    <3>2. CASE b.c \in {"1", "2"}
      BY <2>1, <3>1, <3>2, Outcomes, Zenon DEF ParseJson
    <3>3. CASE b.c \notin {"1", "2"}
      BY <2>1, <3>3, Outcomes, Zenon DEF ParseJson
    <3> QED BY <3>2, <3>3
  <2>6. BelowZero(b) <=> b.c = "-1" /\ b.pc = "0"
    <3>1. BelowZero(b) <=> b.c \in {"-1"} /\ b.pc \in {"0"}
      BY <2>3, Zenon DEF BelowZero
    <3> QED BY <3>1
  <2> QED BY <2>1, <2>2, <2>3, <2>4, <2>5, <2>6
<1>5. CASE ~(provider = "Stooq" /\ b.kind = "csv") /\ ~(provider = "Finnhub" /\ b.kind = "json")
  <2>1. ParseBody(b) = LookupFailed
    BY <1>5, Zenon DEF ParseBody
  <2>2. (\A value : ~RowSays(b, value)) /\ (\A c, pc : ~ObjectSays(b, c, pc))
    BY <1>1, <1>5, Zenon DEF ObjectSays
  <2> QED BY <2>1, <2>2, Outcomes, Zenon DEF BelowZero
<1> QED BY <1>3, <1>4, <1>5

(* A body is read at the end, and the answer is what was made of it.       *)
AnswerInv ==
    /\ stage # "ended" => body = NoBody
    /\ stage = "ended" /\ body # NoBody => body \in Bodies /\ answer = ParseBody(body)

LEMMA AnswerSteps ==
    ASSUME LookupInv, AnswerInv, [Next]_vars PROVE AnswerInv'
<1>1. CASE (InputNext /\ UNCHANGED lookupVars) \/ UNCHANGED vars
  BY <1>1 DEF AnswerInv, ParseBody, vars, lookupVars
<1>2. CASE Call \/ NoKey
  <2>1. body' = body /\ stage = "idle"
    BY <1>2 DEF Call, NoKey, Begin, LookupInv, IdleIsFresh
  <2> QED BY <2>1 DEF AnswerInv
<1>3. ASSUME NEW exception, NEW why, stage # "ended", Raise(exception, why) PROVE AnswerInv'
  BY <1>3 DEF Raise, AnswerInv
<1>4. CASE \/ AttemptTimesOut \/ TransportFails \/ Transient \/ BreakerRejects \/ TotalTimesOut
           \/ BodyFails \/ Cancelled
  <2>1. stage # "ended"
    BY <1>4
       DEF AttemptTimesOut, AttemptDue, TransportFails, Transient, BreakerRejects, TotalTimesOut,
           TotalDue, Guarded, BodyFails, Cancelled
  <2>2. ASSUME NEW delays, NEW asked, Wait(delays, asked) PROVE AnswerInv'
    BY <2>1, <2>2 DEF Wait, AnswerInv
  <2>3. CASE Retry
    BY <2>1, <2>2, <2>3, <1>3 DEF Retry
  <2>4. CASE Transient
    BY <2>2, <2>4 DEF Transient
  <2> QED BY <1>3, <1>4, <2>1, <2>3, <2>4
          DEF AttemptTimesOut, TransportFails, BreakerRejects, TotalTimesOut, BodyFails, Cancelled
<1>5. CASE Tick \/ TryAgain \/ HeadersArrive \/ Stop
  BY <1>5 DEF Tick, TryAgain, WaitDue, HeadersArrive, Stop, AnswerInv
<1>6. CASE ReadBody
  BY <1>6 DEF ReadBody, Finish, ParseBody, AnswerInv
<1>7. CASE Refused
  BY <1>7 DEF Refused, AnswerInv
<1> QED BY <1>1, <1>2, <1>4, <1>5, <1>6, <1>7 DEF Next, PipelineStep

(* A room is told a price only when the newest row, or the object, of the  *)
(* provider's answer gave just that; it is told "not found" when the row   *)
(* says N/D or price and previous close are zero, and besides only for a   *)
(* price below zero (StooqCsvParser, FinnhubQuoteParser).                  *)
THEOREM AnswersComeFromTheProvider == Spec => []AnswersAreEarned
<1>1. Init => AnswerInv
  BY DEF Init, AnswerInv
<1>2. LookupInv /\ AnswerInv /\ [Next]_vars => AnswerInv'
  BY AnswerSteps
<1>3. AnswerInv => AnswersAreEarned
  <2> SUFFICES ASSUME AnswerInv, stage = "ended", body # NoBody
               PROVE  /\ \A p \in {"1", "2"} :
                          (answer = Quoted(p)) <=> RowSays(body, p) \/ ObjectSays(body, {p}, Prices)
                      /\ (answer = SymbolNotFound)
                             <=> RowSays(body, "N/D") \/ ObjectSays(body, {"0"}, {"0"}) \/ BelowZero(body)
    BY Zenon DEF AnswersAreEarned
  <2>1. body \in Bodies /\ answer = ParseBody(body)
    BY DEF AnswerInv
  <2> QED BY <2>1, BodyAnswers, Zenon
<1> QED BY <1>1, <1>2, <1>3, LookupInvariant, PTL DEF Spec

=============================================================================
