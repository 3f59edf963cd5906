# A formal model of the chat and its stock bot

This directory specifies the parts of the application that are hard to test: the
journey of a `/stock=` command through two processes and two queues, a chat
window that switches rooms and loses its connection while posts keep arriving,
rooms that are seeded, created and announced by processes that race, the lines
people type, and the lookup that has to end in time whatever a provider does.
The specifications are TLA+; TLC checks them on small instances and TLAPS proves
the theorems listed below for every value of the constants. All of it is
translated from the source; the map from each definition to the lines it models
is in `PROJECT.json`.

## The system

| Component | State it keeps | Operations | Talks to |
| --- | --- | --- | --- |
| `Chat.Web`, posting (`PostMessageHandler`, `RequestStockQuoteHandler`) | none of its own; rows in `Messages` | post a line, or publish a `StockQuoteRequested` | SQL Server, RabbitMQ, SignalR groups |
| `Chat.Bot` (`StockQuoteRequestConsumer`, `ResolveStockQuoteHandler`) | none; several instances compete for one queue | look a quote up, publish a `StockQuoteResolved` | RabbitMQ, Stooq or Finnhub |
| `Chat.Web`, answering (`StockQuoteResponseConsumer`, `PostBotMessageHandler`) | rows in `Messages` | check the room, save, push, alert | RabbitMQ, SQL Server, SignalR |
| Broker (`AddMessaging`) | two durable queues and their `_error` queues | deliver, retry in place, move aside, redeliver | both hosts |
| `ChatHub` and the SignalR connection | groups, `Context.Items` | `JoinRoom`, `SendMessage`, `CreateRoom` | the browser, the handlers |
| `chat.js` | `roomId`, `rendered`, the list, the status line, pending invocations | start, switch, send, render, reconnect | the hub |
| Room directory (`CreateRoomHandler`, `ChatDbSeeder`, `ListRooms`) | rows in `ChatRooms`, unique by name | create, seed, list, announce | SQL Server, every window |
| Chat input (`ChatCommandParser`, `PostMessageValidator`, `StockCode`, `RoomName`, `MessageContent`) | none | trim, parse, validate, normalise; twice for a stock code | both forms of the page, the handlers, the bot |
| Quote providers (`StooqClient`, `FinnhubClient`, their parsers, `ConfigureQuoteResilience`) | the attempt, its timers, the body; a circuit breaker shared by all lookups | fetch with attempts, waits and time-outs; parse | Stooq, Finnhub |
| Identity, health checks, persistence mapping | - | configuration | - |

What is hard about it:

* **At-least-once delivery.** A consumer that stops, or whose confirmation is
  lost, after its effect and before its acknowledgement does the work twice.
  Nothing in the code deduplicates; what can be guaranteed is where duplicates
  come from and that nothing is lost.
* **Failure after the commit.** A broadcast that fails must not undo, repeat or
  hide the row it announces.
* **Subscribe, read, reply.** A join is three steps during which posts are saved
  and pushed, the window switches again, or the connection drops.
* **Reconnects.** A new connection is in no group and its window has missed
  whatever was sent.
* **Look up, then insert.** Seeds and creations check a name in one step and
  insert it in another, and each ends with an announcement that can fail.
* **Stamped early, saved later.** The timestamp that orders a history is taken
  before the save, and the push comes after it.
* **Two opinions of one line.** The page decides whether to echo a line, the
  server whether it is a command, the validator how long it is and the bot
  whether the code is one; each trims for itself, and JavaScript and .NET do not
  agree on what white space is.
* **One budget, many timers.** A lookup has a total time-out, a time-out per
  attempt, waits between attempts and a `Retry-After` the provider chooses; its
  body is read after all of them.
* **Silence.** The server tells the window nothing of a command that went well;
  whoever waits is answered by a push of another process, or by the history of
  a later join.

## The modules

| Module | What it is |
| --- | --- |
| `QuotePromise` | what a participant who types `/stock=` was promised, without queues or processes |
| `StockRoundTrip` | the round trip: handlers, queues, retries, host stops; refines `QuotePromise` |
| `MCStockRoundTrip` | its instances for TLC |
| `StockRoundTrip_proofs` | its theorems |
| `RoundTripRefinement_proofs` | that it implements `QuotePromise` |
| `ChatWindow` | one window, its connection, `JoinRoom`/`SendMessage` and the posts around it |
| `MCChatWindow` | its instances for TLC |
| `ChatWindow_proofs` | which room the connection listens to |
| `ChatHistory_proofs` | what the list shows: no repeats, no gap |
| `Conversation` | a command typed in that window: `ChatWindow` with an abridged round trip behind it |
| `MCConversation` | its instances for TLC |
| `Conversation_proofs` | its theorems, from those about the window |
| `RoomDirectory` | seeding, creating and announcing rooms, and the pickers of the windows |
| `MCRoomDirectory` | its instances for TLC |
| `RoomDirectory_proofs` | its theorems |
| `ChatInput` | a line or a room name, from the box to what the handlers make of it |
| `QuoteLookup` | one lookup of the code `ChatInput` lets through: pipeline, adapter and parsers |
| `MCQuoteLookup` | the instances of both for TLC |
| `ChatInput_proofs` | the theorems about lines and names of any length |
| `QuoteLookup_proofs` | the theorems about the budget, the outcome and the answer of a lookup |

How they fit together:

* `StockRoundTrip` is shown to implement `QuotePromise`, with queues, bots and
  interruptions. `Conversation` extends `ChatWindow` with a command and its
  answers and has the round trip abridged to what is shown of it there: answers
  come only to a request that was published, and it comes to rest with an answer
  stored or with an excuse. The abridgement is made by hand; no refinement links
  the two modules, and what `Conversation` says of the round trip is no evidence
  about it. An answer is a post of the bot and takes the way of every post in
  `ChatWindow`.
* `QuoteLookup` extends `ChatInput`: a lookup begins with a line that has passed
  every stage before it. It is the inside of `StockRoundTrip`'s `LookUp`, which
  assumes that a lookup ends and never throws unless the bot stops.
* `ChatWindow` and `RoomDirectory` share no state but the connection: which rooms
  exist never changes what a join does to the list, and what a list shows never
  changes which rooms are offered.

### StockRoundTrip

`request[r]` and `answer[a]` say where a message stands: `queued`, one stage for
each point at which its handler can be interrupted, `moved` (a copy of it is in
the `_error` queue, the message itself not yet acknowledged), and at the end
`acked`, or `error` if it was acknowledged after the move. `deadRequests` and
`deadAnswers` count the copies in the `_error` queues; there is one too many when
a host stops between the move and the acknowledgement, and the message comes back.
An answer is `<<r, n>>`, the n-th one published for `r`. `holder` names the bot
that has the message, `requestTry`/`answerTry` count the in-place retries of this
delivery. `posts`, `pushes` and `alerts` count what the answer has left behind.
`botRelapses` and `webRelapses` are history variables: they count the deliveries
that were lost after they had published, stored or moved a dead letter.

| Code | Actions |
| --- | --- |
| `PostMessageHandler.RequestQuoteAsync`, `RequestStockQuoteHandler` | `Ask` |
| `StockQuoteRequestConsumer`, `ResolveStockQuoteHandler` | `ReceiveRequest`, `LookUp`, `Respond`, `AckRequest` |
| `StockQuoteResponseConsumer`, `PostBotMessageHandler` | `ReceiveAnswer`, `CheckRoom`, `Save`, `Broadcast`, `Alert`, `AnnounceFails`, `AckAnswer` |
| `UseMessageRetry` and the `_error` queues | `RespondFails`, `SaveFails` (through `RetryRequest`, `RetryAnswer`, `MoveAnswerAside`), then `AckRequest`, `AckAnswer` |
| a host stops; a confirmation or a commit's report is lost | `BotStops`, `WebStops`, `RespondUnconfirmed`, `SaveUnreported` |
| a room's row is deleted by somebody else | `RemoveRoom` |

### ChatWindow

A post is the order of its timestamp (ties are broken by id, so the order is
total) and goes from `stamped` to `stored` to `announced`, or ends `refused` or
`unannounced` (the broadcast threw). `calls` is the connection's queue of hub
invocations: SignalR runs them one at a time, the first one is running and
`step` says how far a join has come. `wire` is what the hub has sent and the
script has not handled; it is a queue, because SignalR writes to one connection
in order. `Drop` empties both, forgets the groups and rejects the calls the
script was awaiting. `missed` is a history variable.

| Code | Actions |
| --- | --- |
| `PostAsync`, and the same write path of the bot's answers | `OthersPost`/`BeginSend`, `Commit`, `Refuse`, `Broadcast`, `BroadcastFails` |
| `ChatHub.SendMessage` | `BeginSend`, `EndSend` |
| `ChatHub.JoinRoom` | `JoinLeave`, `JoinEnter`, `JoinRead`, `JoinReply`, `JoinFails` |
| `render`, the continuation of `joinRoom` | `Deliver` |
| submit, `switchRoom`, `start`/`onreconnected`, `onreconnecting`, `onclose` | `Send`, `SwitchRoom`, `Connect`, `Drop`, `GiveUp` |

### RoomDirectory

`rows` are the rows of `ChatRooms`. A room is identified by the instance or the
window that inserts it, and `nameOf` gives its name; names are equal if the
column's collation says so. `boot[i]` is how far `SeedAsync` has come in
instance `i`, `create[w]` how far `CreateRoomHandler` has come for window `w`.
`page[w]` is the window (`listing` is between the two queries of `OnGetAsync`),
`picker[w]` the options of its select, `told[w]` what its participant read.
`away` and `unannounced` are history variables. Windows are connected to one
instance, `Front`, because SignalR has no backplane here (ARCHITECTURE, section
4); other instances start and seed beside it.

| Code | Actions |
| --- | --- |
| `ChatDbSeeder.SeedAsync` | `LookUpDefault`, `SeedDefault`, `SeedRejected`, `Recheck`, `StartFails`, `Restart` |
| `Chat.cshtml.cs`, `GetDefaultRoomHandler`, `ListRoomsHandler` | `OpenPage`, `ListRooms`, `Reload` |
| `start`/`onreconnected`, `onreconnecting`, a stop of the host | `Connect`, `Drop`, `FrontStops` |
| the new-room form, `ChatHub.CreateRoom`, `CreateRoomHandler` | `Create`, `CreateOffline`, `FindByName`, `LookUpFails`, `SaveRoom`, `SaveRejected`, `Reply` |
| `SignalRChatRoomNotifier`, `ReceiveRoom` | `Announce`, `AnnounceFails` (through `Reach`) |

The switch to the created room that follows `Reply` is `ChatWindow`'s `SwitchRoom`.

### ChatInput

`typed` is what stands in the box (`box` says in which), `text` what the last
stage handed on, `at` how far it has come, `refusedBy` who refused it, and
`echoed` whether the window has shown it as "you typed". A character is a
symbol: `"space"` is white space for both trims, `"bom"` only for JavaScript's and
`"nel"` only for .NET's; the word "stock" is one symbol, in two casings.

| Code | Definitions |
| --- | --- |
| the submit handlers of both forms in `chat.js` | `Submit`, `Echoes` |
| `PostMessageValidator`, run by `ValidationBehavior` | `Validates`, `Refuse` |
| `ChatCommandParser.Parse`, `MessageContent.Create`, `StockCode.Create` | `Parse`, `ParseCommand`, `MessageContent`, `StockCode` |
| `PostMessageHandler.Handle`, from the check of the room on | `HandleLine` |
| `CreateRoomHandler.Handle` up to its query, `RoomName.Create` | `HandleName`, `RoomName`, `NeedsCollapsing`, `CollapseWhitespace` |
| `StockQuoteRequestConsumer.Consume`, before the lookup | `Revalidate` |

### QuoteLookup

`stage` is where the lookup stands: `trying` (an attempt is out), `waiting`
(between attempts), `reading` (the pipeline has returned a response, the adapter
has not got it yet), `ended` with an `answer`, or `thrown`. `elapsed`, `since`
and `pause` are in ticks; `Tick` does not happen while a timer is due, so timers
are punctual. `deferred` remembers that the provider asked for a wait, `raised` which
kind of exception ended the lookup: a cancellation (`OperationCanceledException`,
which a time-out of `HttpClient` is too) or any other failure. Every exception goes through
`Raise`, the adapter's filter: it is thrown on if `IsCallerCancellation` says so
and is a failed lookup otherwise.

| Code | Actions |
| --- | --- |
| the consumer's call, `FinnhubClient` without a key | `Call`, `NoKey` |
| `ConfigureQuoteResilience` and the standard resilience handler | `AttemptTimesOut`, `TransportFails`, `Transient` (through `Retry`, `Wait`), `TryAgain`, `BreakerRejects`, `TotalTimesOut`, `HeadersArrive` |
| `StooqClient.GetQuoteAsync`, `FinnhubClient.GetQuoteAsync` | `Refused`, `ReadBody`, `BodyFails`, `Cancelled`, `Raise`, `IsCallerCancellation` |
| `StooqCsvParser`, `FinnhubQuoteParser` | `ParseBody` (`ParseCsv`, `ParseJson`) |
| the host stops, the delivery is abandoned | `Stop` |

### Conversation

`command` says how far the command has come, `answers` are the posts made in
answer to it, `outages` those that report a failed lookup, `alerted` those whose
alert was attempted. `banner` is the answer the outage banner is about, `local`
the lines only this window has ("you typed", "not sent"). `due` is a history
variable: the posts of the room that were stored when the window last asked to
join it. The publish and the end of the call that made it are two steps, so that
an answer can be under way, or shown, before the window hears of the call's end;
a call that ends in an error after a publish is one whose confirmation was lost.

| Code | Actions |
| --- | --- |
| the submit handler with a command, its `catch` | `TypeCommand`, `DropHere` |
| `PostMessageHandler.RequestQuoteAsync` | `AskAccepted`, `AskRefused` (`PublishRequest`) |
| `ChatHub.SendMessage`, the end of the call | `EndAsk` |
| `PostBotMessageHandler` | `Answer`, `ChatWindow`'s post actions, `Alert`, `AlertFails` |
| `StockQuoteResponseConsumer` at rest, the `_error` queues | `Settle`, `DeadLetter` |
| `connection.on`, `renderLocal`, `showAlert`, `alertDismiss`, `switchRoom`, `onreconnected` | `DeliverHere`, `Dismiss`, `SwitchHere`, `ConnectHere` |
| the rest of the window and its connection | the actions of `ChatWindow` |

## The runs

| Run | Instance | Shows |
| --- | --- | --- |
| `RoundTripInterleaving` | 2 requests, 2 bots, prefetch 1, 1 retry, 1 interruption | a request is acknowledged only if answered, an answer only if stored (or its room is gone); nothing is pushed unstored; the banner follows the post |
| `RoundTripPromise` | 1 request, 2 bots, the code's 3 retries and prefetch 10, 1 interruption, fairness | the inductive invariant; `StockRoundTrip` implements `QuotePromise` and every command comes to rest; duplicates are paid for by the interruption, a dead letter is undone work but for what an interruption left |
| `RoundTripDuplicates` | 1 request, 2 bots, 1 interruption | *violated*: see Findings |
| `WindowSwitching` | 2 rooms, 2 posts, history of 1, 2 switches, 1 drop, fairness | the inductive invariant; a window at rest listens to the room it shows, and to no other; it has missed nothing of it and shows nothing twice; "Joining…" always ends |
| `WindowOtherRoom`, `WindowRejoin`, `WindowNotSent` | the smallest instances that show it | *violated*: see Findings |
| `RoomsRacing` | 2 instances, 2 windows, 2 names, 2 failures, fairness | the inductive invariant; one room to a name; a serving instance has its default room; pickers hold only stored rooms and miss none without a reason; every creation ends with an answer |
| `RoomsOffered` | the same with 1 failure | *violated*: see Findings |
| `CommandToQuote` | every line of up to 6 symbols, every name of up to 5; 3 provider configurations; every body below | a command is never a post and an echo means a command; validator, parser and bot agree; tickers are safe and names canonical; the budget admits every attempt; only the caller's own cancellation throws; a price is told only if the provider gave it |
| `LookupBudget` | one line, one provider | *violated*: see Findings |
| `Conversation` | 2 rooms, 1 command, 2 posts, history of 1, 1 switch, drop or post of another, fairness | the inductive invariant; the banner comes with its line; what was stored is read back; a command does not end in silence |

Deadlock is not checked: each of these systems comes to rest when everything
asked for is settled and nobody types. Each property has a mutant, a plausible
bug in one definition, under which its run fails; they are listed in
`PROJECT.json` and stand beside the definition they change.

**Bounds.** `MaxInterruptions` bounds host stops and lost confirmations. One
interruption already reaches every stage of every delivery, so that two answers
of one request or two rows of one answer exist; more only add entries to the
same ledgers, and the theorems hold for any number. Two
requests suffice for interference, because handlers share nothing but a prefetch
window. `RetryLimit` is 1 where only the existence of a last retry matters and 3,
the code's value, where termination is checked. `HistoryLimit` is 1 for
the code's 50: what matters is that it can be exceeded, which `MaxPosts` one
above it allows. Two switches allow leaving a room and coming back before the
first join is answered, one drop allows a reconnect in every state of both.

Two instances and two windows make every race for a name (seed and seed,
creation and creation, creation and a room that is announced meanwhile); a second
name lets both creations succeed. Two failures allow a stop or a drop after
another one. Each window creates once: a second creation is another window's.

The lines of `CommandToQuote` are all sequences over three kinds of white space,
a letter, the command word, `/` and `=`. The shortest stock command has four
symbols; six allow padding on both sides, inside the command, and two words or
separators. `MaxContentLength` is 5, `MaxCodeLength` 1 and `MaxNameLength` 3
(500, 20 and 60 in the code), so that both sides of each boundary are typed,
padded or not. A body is an empty response, words, a page, an object with every
pair of prices, or a table of up to two sessions under one of four headings.
The budget is 10 ticks and three attempts share it, 3 ticks each; the waits are
at most 1 and 2 ticks, and `BackoffFits` holds: some of the budget is left
whenever a retry is due. `MaxTicks` follows a stalled body two ticks beyond the
budget. In the code the waits are jittered around 250 ms and double, below a
second together: with a `TimeoutSeconds` of 3 or more `BackoffFits` holds, with
1 or 2, which the options accept, the third attempt is not guaranteed.

`MaxDisturbances` allows `Conversation` one switch, one lost connection or one
post of somebody else; more of them in one life of a window are
`WindowSwitching`'s, and the theorems hold for any number. Two posts are an
answer and its duplicate, of which the later pushes the other out of the history
while the window switches or reconnects, or an answer and the other's post.

**Fairness.** `StockRoundTrip` assumes that a queued message is eventually
handed to a consumer and that a handler returns. For saves that is a bounded
retry policy; for lookups it is the total time-out, which covers the requests
but not a body that stalls (`LookupBudget`). Such a lookup ends when the broker
gives up waiting for the acknowledgement and redelivers, which is an
interruption of the model. `EveryRequestSettles` therefore says that every
message comes to rest *if* each lookup ends; it is checked with one request under
the code's prefetch count of 10, and is no evidence about what stalled lookups do
to the requests queued behind a full prefetch window. Nobody has to ask, and
failures need not happen, but as many as the bounds admit may.
`ChatWindow` assumes that handlers end, that the hub runs its calls, that what
it sends is handled or the connection drops, and that SignalR's automatic
reconnect, a finite list of delays, connects or gives up. `RoomDirectory` assumes
only that `CreateRoomHandler` goes on: its queries and saves have time-outs.
`Conversation` assumes that the system as a whole does not stop while it has
work to do, for the reasons just given: one weak fairness over everything that
happens without the participant, other people or a fault. It is enough because
none of those steps can be repeated for ever. `QuoteLookup` has no liveness
property and assumes nothing.

## Findings

* **Two rows without any failure at Chat.Web** (`RoundTripDuplicates`).
  ARCHITECTURE names two windows in which a row is duplicated, both in Chat.Web.
  There is a third, in the bot. TLC's shortest trace is a publish of the answer
  that the broker takes and whose confirmation is lost: the retry in place looks
  up and answers again, and each answer is stored once, no delivery to Chat.Web
  having failed. A bot that stops between `RespondAsync` and its acknowledgement
  does the same. `RequestId` travels with both answers and is not used.
* **A post of another room** (`WindowOtherRoom`). `render` does not know which
  room a post belongs to. A post already on its way, or the whole reply of a
  join that was overtaken by a second switch, lands in the list of the new room.
* **A rejoin with a hole** (`WindowRejoin`). The history that "fills whatever it
  missed" ends at `LatestMessagesCount`; the old list stays above it.
* **"The message could not be sent"** (`WindowNotSent`), although it was stored:
  `PostMessageHandler` lets a failed broadcast out of the handler after the
  commit, and a connection lost before the completion has the same effect.
  `CreateRoomHandler` announces inside the invocation in the same way, so that
  "The room could not be created" can be said of a room that exists; the model
  reaches it (`told[w] = "failed"` with `w \in rows`), no run is spent on it.
* **A lookup outside its budget** (`LookupBudget`). The time-outs of the pipeline
  end when the headers arrive; `HttpClient` reads the body afterwards, with its
  own time-out infinite. A body that stalls holds the lookup beyond
  `TimeoutSeconds`.
* **A room that an open window never offers** (`RoomsOffered`). `ReceiveRoom`
  reaches the connections of the moment. In TLC's trace one window's page is
  rendered, another window creates a room, which is stored, announced and replied,
  and then the first window connects: it lacks the room and never asks. Nothing
  has failed. The same happens to a window that is reconnecting.

Seen in the models, with no run of their own: `render` appends, so that a post
pushed before the history of its join arrives stands above older ones; a line
that begins with U+0085 and a command is a command for the server and not for
the page, which does not echo it; and `FinnhubQuoteParser`, which promises
`SymbolNotFound` "when every number is zero" (line 53, and line 17), returns it
for any price that is not above zero if the previous close is zero (lines 74 to
84), so that for a price below zero the room is told that the symbol does not
exist. `AnswersAreEarned` names this case, `BelowZero`, as its exception.

## What is proved

Every invariant and every safety property of the passing runs is a theorem. All
theorems hold for every value of the constants, under the assumptions named in
the modules: a room for every request; limits that are natural numbers, positive
where nothing would fit otherwise; lines and names that are sequences of
characters; waits within the budget; tables of fields and prices as bodies. TLC
evaluates these assumptions in the runs.

`StockRoundTrip_proofs`. The properties are not inductive: that an acknowledged
answer has a row depends on what its handler had done in which stage. `IInv` is
a ledger for each message. A request has as many answers as deliveries that were
interrupted after publishing, plus one if the present delivery has published,
and exactly the first `copies[r]` answer ids are in use. An answer has as many
rows as deliveries interrupted after the commit, plus one if the present
delivery has committed; pushes trail rows and alerts trail pushes.
`LedgersBalanced` proves it inductive, one lemma per action; `TypeCorrect`,
`NoRequestIsLost`, `NoAnswerIsLost`, `DuplicatesAreAccounted`,
`DeadLettersUndone` and `AnnouncedInOrder` follow from it. A dead letter is one
more entry of the ledger: answers and dead letters together, or rows and dead
letters, are what interrupted deliveries left and the one of the last.
`TypeCorrect` is what justifies the range of `Copies`: answers never outgrow it.

`RoundTripRefinement_proofs`. `RoundTripKeepsPromise` is the refinement of
`QuotePromise`, step by step. Under the mapping a request is *asked* when it has
been published, *shown* are the rows its answers have left behind, *excused* and
*settled* are read off the ledgers. Most steps leave all of them alone or move a
message whose ledger shows that nothing changes for the participant;
those that do something are typing the command, the commit of a row, the last
acknowledgement or dead letter of a request, and the loss of a room, and an
action of the promise matches each.

`ChatWindow_proofs`. `FollowsShownRoom` talks about a window at rest; on the way
there the room to be listened to is that of the last join in `calls`.
`Subscription` says so (`Destination`) and relates the group to the remembered
room at each step of a join (`Membership`). `BookkeepingConsistent` proves it
inductive together with the types of the hub's state, `WindowFollowsShownRoom`
draws the conclusion.

`ChatHistory_proofs`. `NoGap`, too, talks about a window at rest. On the way there
an announced post of the shown room may be in the list, in a push or a history
on the `wire`, in the history the running join has read, or pushed out by newer
posts (`Reaches`); it may be none of these only while a join that will still read
is ahead (`JoinAhead`), or when the window is going to learn that it has not
joined (`EndsUnjoined`). `NothingSlips` says so for every announced post of the
shown room. What carries it over each step is the order of a join, subscribe and
then read: a post that is announced while no join is ahead finds the connection
in its group, which is `Subscription`, and one that was announced before the
read is in what is read, or pushed out. `WindowConsistent` proves `IInv`
inductive, `WindowHasNoGap` reads `NoGap` off it, and `NothingShownTwice` is an
invariant of its own, with `rendered = Listed`. The proofs need of
`OldestFirst` only that it enumerates a finite set once; it is therefore the
increasing enumeration and not a fold.

`Conversation_proofs`. Each step of the conversation is a step of the window on
the window's variables, or one of the few that add a call for the command or a
parcel for its alert, and those do not touch posts or joins. So the lemmas of
the two modules before it are reused, and `ConversationIInv` adds what is new:
the command is in `calls` at most once (`CommandOnce`), answers exist only while
the command is (`AnswersInOrder`), an alert on the wire or a banner is about a
post whose push was attempted before (`AlertsFollowPosts`), and what was stored
when the window asked to join `Follows` like an announced post (`DueFollows`).
`BannerIsExplained` and `HistoryFillsIn` are `Reaches` in a window at rest.

`RoomDirectory_proofs`. Two facts carry the proof: rows and names in use only
grow, and a row is added only under a free name (`StoreSteps`, `StoreGrows`).
To these `IInv` adds what each stage knows (`StagesKnowTheStore`: a seed or a
creation that is about to insert has not inserted, one that announces has) and
the account every loaded page keeps, connected or not
(`LoadedWindowsKeepAccount`): without the offline half, connecting would not
preserve it. `DirectoryInvariant` proves it inductive, one step per action;
`NamesAreUnique`, `ServingIsSeeded`, `OffersAreStored` and `MissingIsAccounted`
follow. It assumes that no inserter is both an instance and a window, that the
default name is a name, that `Front` is an instance and that the number of
failures is a natural number.

`ChatInput_proofs`. The module declares no bound on a text, so its theorems are
about every line. `Trim` is characterised by the span it leaves (`Spans`): the
first and the last character that are not white space. From it follow the facts
about two trims that disagree. `CommandAt` says where slash, word and separator
stand in a line that `Parse` takes for a stock command; `CommandsAreParsed` and
`ParsedCommandsHaveTheForm` are the two directions between it and
`StockCommand`, which knows no parser. `InputInv` says of each stage what is
known there of what was typed, and the properties follow:
`NoCommandIsPosted`, `EchoAgreesWithServer`, `ValidatorMatchesContent`,
`TickersAreSafe`, `CommandsArrive`. For `RoomNamesStayCanonical` the loop of
`CollapseWhitespace` is a recursive function on the prefixes of the name; that
each prefix is collapsed, and keeps what is visible, is proved by taking the
shortest prefix for which it fails, whose existence is the library's
`WFMin` on the natural numbers. No induction theorem with an operator as its parameter is needed.

`QuoteLookup_proofs`. `LookupInv` adds to the types that timers are punctual
(`Punctual`), that a lookup starts them at zero (`IdleIsFresh`), and that its end
agrees with the exception that ended it (`RaisedAtTheEnd`); `LookupInvariant`
proves the conjunction inductive. `OnlyCancellationThrows` reads the last part:
a lookup throws only a cancellation, and only when its caller has cancelled, and
a stopping bot does not report its own cancellation as a failed lookup.
`AttemptsAreMade` is about arithmetic: as long as the provider has not
asked for a wait, attempt n has not used more than n shares of the budget and
the waits before it (`Pace`). If `BackoffFits`, this is less than the budget
(`TimeIsLeft`), so the total time-out cannot end a lookup that has attempts
left. `BackoffFits` is a hypothesis of the theorem, and not an assumption of the
module, because the code does not enforce it. `TypesAreKept` joins
`LookupInv` and `InputInv`. `AnswersComeFromTheProvider` compares the parsers
with what a body says when nobody parses it (`RowSays`, `ObjectSays`):
`CloseColumn` is about the search for the heading, `CsvAnswers` and
`BodyAnswers` are equivalences for tables of any width and length, with
`BelowZero` as their one exception, and
`AnswerInv` ties the answer of an ended lookup to the body that was read.

Only model-checked: liveness (`EveryRequestSettles`, `JoiningEnds`,
`CreationEnds`, `CommandEndsVisibly`), which is out of the prover's reach, and
the six properties that the code does not have (a counterexample is a run).

## What is not modelled, and why

* Failed Results that nothing in the code can produce. `MessageContent.Create` and
  `Message.PostByBot` in `PostBotMessageHandler` are given a sentence of the bot
  about a room that was just found; `GetLatestMessages`, and so the `FailAsync` of
  `JoinRoom`, fails only for a room that does not exist, while the page joins only
  rooms it was offered and no code removes a room.
* Several windows in `ChatWindow`. Windows share only the store, and what others post is an
  action of the environment.
* Several serving instances. Without a backplane a push would reach the windows
  of its own instance only; ARCHITECTURE (section 4) puts that out of scope.
* Frame batching in the browser. A history reply and a live post that share a
  WebSocket frame may be handled in the other order, because the reply is
  awaited. It changes the order of the list, which is not guaranteed anyway.
* A consumer that keeps running after its channel was closed (a broker
  connection lost mid-handler): it acts like a handler whose message is
  redelivered at once, which the interruptions cover for effects that come
  before the stop; effects of the two runs that overlap are not modelled.
* Messages that no producer in the code sends (an invalid ticker, no room id, a
  blank requester) and the `_skipped` queues.
* What the library does inside the resilience handler: the state of the circuit
  breaker (it may be open at any attempt), the rate limiter, and the jitter of
  the waits beyond their longest values.
* A clock that stands still or a timer that is late: a lookup's timers are
  punctual.
* Texts longer than the bounds, URLs and `FinnhubQuoteParser.ToSymbol`, the
  number formats of the prices, the wording of answers: formatting.
* A reload of the page or a second command in `Conversation`: a reloaded window
  is a new one, and commands share nothing in the window but the list.
* The labels of timestamps (one made before midnight keeps its bare time) and
  the help panel with its `localStorage` flag: nothing depends on them.
* The validators of the other commands and `LoggingBehavior`: they guard against
  inputs no caller in the code sends, or only log.
* Identity, health checks, mapping, migrations, page layout: no behaviour of
  their own.

## Plan

1. Lemmas that the liveness arguments rest on, as far as they are safety: that
   the steps of the weakly fair actions decrease a rank (`StockRoundTrip`: what
   is left of a delivery and its retries; `RoomDirectory`: the stages of a
   creation), so that only the temporal step is left to TLC.
2. The findings in the positive: what does hold where a document promises more,
   such as at which place of the list a post of another room can stand.
3. A formal link between `StockRoundTrip` and the abridged round trip of
   `Conversation`: the composition of both, so that neither has to be trusted.
4. `QuoteLookup` as the inside of `StockRoundTrip`'s `LookUp`: one lookup has
   exactly the outcomes `LookUp` chooses from.
