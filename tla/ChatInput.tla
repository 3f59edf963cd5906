----------------------------- MODULE ChatInput -----------------------------
(***************************************************************************)
(* What becomes of what a participant types: chat.js, PostMessageValidator *)
(* and PostMessageHandler decide whether a line is a post or a command,    *)
(* Chat.Bot validates the stock code it is asked for once more, and the    *)
(* box for a new room makes a room name of it.                             *)
(*                                                                         *)
(* A character is a symbol.  The two trims of the system do not agree on   *)
(* what white space is: JavaScript's takes the byte order mark off and     *)
(* .NET's does not, .NET's takes U+0085 (next line) off and JavaScript's   *)
(* does not; "space" stands for what both remove.  The word "stock" is     *)
(* one symbol, in the casings "STOCK" and "stock".                         *)
(***************************************************************************)
EXTENDS SequencesExt

CONSTANTS
    Lines,              \* what may be typed into the message box
    Names,              \* what may be typed into the box for a new room
    MaxContentLength,   \* MessageConstants.MaxContentLength
    MaxCodeLength,      \* StockCode.MaxLength
    MaxNameLength       \* RoomName.MaxLength

JsSpace   == {"space", "bom"}
NetSpace  == {"space", "nel"}
Ticker    == {"a", "stock"}
Character == JsSpace \cup NetSpace \cup Ticker \cup {"/", "=", "A", "STOCK"}

ASSUME TextAssumption == Lines \subseteq Seq(Character) /\ Names \subseteq Seq(Character)
ASSUME LimitAssumption == /\ MaxContentLength \in Nat \ {0}
                          /\ MaxCodeLength \in Nat \ {0}
                          /\ MaxNameLength \in Nat \ {0}

VARIABLES
    box,        \* where it was typed
    typed,      \* what was typed
    text,       \* what is handed on
    at,         \* how far it has come
    echoed,     \* the window has shown it as "you typed"
    refusedBy   \* who has refused it

inputVars == <<box, typed, text, at, echoed, refusedBy>>

InputTypeOK ==
    /\ box \in {"line", "name"}
    /\ typed \in Seq(Character)
    /\ text \in Seq(Character)
    /\ at \in {"typed", "ignored", "sent", "posted", "requested", "validated", "discarded",
               "named", "refused", "asked"}
    /\ echoed \in BOOLEAN
    /\ refusedBy \in {"nobody", "validator", "room", "content", "parser", "name"}

InputInit ==
    /\ \/ box = "line" /\ typed \in Lines
       \/ box = "name" /\ typed \in Names
    /\ text = <<>> /\ at = "typed" /\ echoed = FALSE /\ refusedBy = "nobody"

-----------------------------------------------------------------------------
(* Normalisation.                                                          *)

Trim(s, space) ==
    LET kept == {i \in DOMAIN s : s[i] \notin space} IN
    IF kept = {} THEN <<>> ELSE SubSeq(s, Min(kept), Max(kept))

Lower(c) == IF c = "A" THEN "a" ELSE IF c = "STOCK" THEN "stock" ELSE c
ToLower(s) == [i \in DOMAIN s |-> Lower(s[i])]

Success(value) == [ok |-> TRUE, value |-> value]
Failure        == [ok |-> FALSE, value |-> <<>>]

(* MessageContent.Create.                                                  *)
MessageContent(s) ==
    LET trimmed == Trim(s, NetSpace) IN
    IF Len(trimmed) \in 1 .. MaxContentLength THEN Success(trimmed) ELSE Failure

(* Mutants of StockCode: the value is returned as it came, or its length   *)
(* is measured before the trim.                                            *)
StockCodeAsTyped(s) ==
    LET normalised == ToLower(Trim(s, NetSpace)) IN
    IF Len(normalised) \in 1 .. MaxCodeLength /\ ToSet(normalised) \subseteq Ticker
    THEN Success(ToLower(s)) ELSE Failure

StockCodeMeasuredAsTyped(s) ==
    LET normalised == ToLower(Trim(s, NetSpace)) IN
    IF Len(s) \in 1 .. MaxCodeLength /\ ToSet(normalised) \subseteq Ticker
    THEN Success(normalised) ELSE Failure

StockCode(s) ==
    LET normalised == ToLower(Trim(s, NetSpace)) IN
    IF Len(normalised) \in 1 .. MaxCodeLength /\ ToSet(normalised) \subseteq Ticker
    THEN Success(normalised) ELSE Failure

(* Mutant of NeedsCollapsing: only doubled spaces.                         *)
HasDoubleSpace(s) ==
    \E i \in 1 .. Len(s) - 1 : s[i] = "space" /\ s[i + 1] \in NetSpace

NeedsCollapsing(s) ==
    \E i \in DOMAIN s : \/ s[i] \in NetSpace \ {"space"}
                        \/ s[i] = "space" /\ i < Len(s) /\ s[i + 1] \in NetSpace

(* White space is skipped, and becomes one space before the next character *)
(* unless nothing is there yet.                                            *)
CollapseWhitespace(s) ==
    LET trimmed == Trim(s, NetSpace)
        built[n \in 0 .. Len(trimmed)] ==
            IF n = 0 THEN <<>>
            ELSE IF trimmed[n] \in NetSpace THEN built[n - 1]
            ELSE IF n > 1 /\ trimmed[n - 1] \in NetSpace /\ built[n - 1] # <<>>
                 THEN built[n - 1] \o <<"space", trimmed[n]>>
                 ELSE Append(built[n - 1], trimmed[n])
    IN  IF NeedsCollapsing(trimmed) THEN built[Len(trimmed)] ELSE trimmed

RoomName(s) ==
    LET normalised == CollapseWhitespace(s) IN
    IF Len(normalised) \in 1 .. MaxNameLength THEN Success(normalised) ELSE Failure

-----------------------------------------------------------------------------
(* ChatCommandParser.Parse: what a line is, and what it is about.          *)

Parsed(kind, value) == [kind |-> kind, value |-> value]

(* "=" separates at its first occurrence; 0 when there is none.            *)
ParseCommand(command) ==
    LET separator == SelectInSeq(command, LAMBDA c : c = "=")
        name == Trim(IF separator = 0 THEN command ELSE SubSeq(command, 1, separator - 1), NetSpace)
        code == StockCode(SubSeq(command, separator + 1, Len(command)))
    IN  IF name = <<>> THEN Parsed("Invalid", <<>>)
        ELSE IF separator = 0 \/ ToLower(name) # <<"stock">> THEN Parsed("UnknownCommand", ToLower(name))
        ELSE IF code.ok THEN Parsed("StockQuote", code.value)
        ELSE Parsed("Invalid", <<>>)

(* Mutant of Parse: the prefix is looked for before the trim.              *)
ParseUntrimmed(s) ==
    IF s = <<>> \/ Head(s) # "/" THEN Parsed("PlainMessage", Trim(s, NetSpace))
    ELSE ParseCommand(Tail(Trim(s, NetSpace)))

Parse(s) ==
    LET trimmed == Trim(s, NetSpace) IN
    IF trimmed = <<>> \/ Head(trimmed) # "/" THEN Parsed("PlainMessage", trimmed)
    ELSE ParseCommand(Tail(trimmed))

(* Mutant of Validates: measured as it came.                               *)
ValidatesUntrimmed(s) == Trim(s, NetSpace) # <<>> /\ Len(s) <= MaxContentLength

(* PostMessageValidator: NotEmpty ignores white space.                     *)
Validates(s) ==
    LET trimmed == Trim(s, NetSpace) IN trimmed # <<>> /\ Len(trimmed) <= MaxContentLength

-----------------------------------------------------------------------------
(* chat.js: both forms trim, and send nothing when nothing is left.        *)

(* Mutant of Echoes: decided on what was typed.                            *)
EchoesAsTyped(s) == typed # <<>> /\ Head(typed) = "/"

Echoes(s) == Head(s) = "/"

Submit ==
    LET trimmed == Trim(typed, JsSpace) IN
    /\ at = "typed"
    /\ text' = trimmed
    /\ at' = IF trimmed = <<>> THEN "ignored" ELSE "sent"
    /\ echoed' = (box = "line" /\ trimmed # <<>> /\ Echoes(trimmed))
    /\ UNCHANGED <<box, typed, refusedBy>>

Refuse(who) ==
    /\ at' = "refused" /\ refusedBy' = who
    /\ UNCHANGED <<box, typed, text, echoed>>

Accept(outcome, value) ==
    /\ at' = outcome /\ text' = value
    /\ UNCHANGED <<box, typed, echoed, refusedBy>>

(* ValidationBehavior and PostMessageHandler: before the line is looked at *)
(* its room must exist, which is the choice of another table; then a line  *)
(* that is no command is stored, and a stock command goes to the broker.   *)
HandleLine ==
    /\ at = "sent" /\ box = "line"
    /\ LET parsed  == Parse(text)
           content == MessageContent(parsed.value)
       IN  \/ /\ ~Validates(text)
              /\ Refuse("validator")
           \/ /\ Validates(text)
              /\ Refuse("room")
           \/ /\ Validates(text)
              /\ parsed.kind \in {"UnknownCommand", "Invalid"}
              /\ Refuse("parser")
           \/ /\ Validates(text) /\ parsed.kind = "StockQuote"
              /\ Accept("requested", parsed.value)
           \/ /\ Validates(text) /\ parsed.kind = "PlainMessage"
              /\ IF content.ok THEN Accept("posted", content.value) ELSE Refuse("content")

(* CreateRoomHandler.                                                      *)
HandleName ==
    /\ at = "sent" /\ box = "name"
    /\ IF RoomName(text).ok THEN Accept("named", RoomName(text).value) ELSE Refuse("name")

(* StockQuoteRequestConsumer trusts nobody.                                *)
Revalidate ==
    /\ at = "requested"
    /\ IF StockCode(text).ok THEN Accept("validated", StockCode(text).value)
       ELSE Accept("discarded", <<>>)

InputNext == Submit \/ HandleLine \/ HandleName \/ Revalidate

-----------------------------------------------------------------------------
(* Properties.                                                             *)

Sent == Trim(typed, JsSpace)
Handled == box = "line" /\ at \in {"posted", "requested", "validated", "discarded", "refused"}
IsCommand == at \in {"requested", "validated", "discarded"} \/ refusedBy = "parser"

(* ChatCommandParser and PostMessageHandler: whatever white space stands   *)
(* around it, a command is never stored and broadcast as a post.           *)
CommandsAreNeverPosts == at = "posted" => Head(text) # "/" /\ Trim(text, NetSpace) = text

(* chat.js echoes what the server will not broadcast: a participant sees   *)
(* a command "you typed" exactly when the line becomes no post, unless the *)
(* server refuses it unread.  Only a leading U+0085 is trimmed by the      *)
(* server and not by the page.                                             *)
EchoMeansCommand ==
    Handled /\ refusedBy \notin {"validator", "room"} /\ Head(Sent) # "nel" => (echoed <=> IsCommand)

(* PostMessageValidator: it rejects exactly what MessageContent would have *)
(* rejected and nothing more, so MessageContent itself never has to.       *)
ValidatorRejectsNothingMore ==
    Handled => /\ (refusedBy = "validator") <=> ~MessageContent(Sent).ok
               /\ refusedBy # "content"

(* The form of a stock command, without parsing: "/", "stock", "=" and a   *)
(* code from first to last, in this order; everything else is white space, *)
(* and none of it splits the code.                                         *)
StockCommand(s, first, last) ==
    /\ first <= last /\ last - first < MaxCodeLength
    /\ \A i \in first .. last : Lower(s[i]) \in Ticker
    /\ \E slash, word, separator \in DOMAIN s :
           /\ slash < word /\ word < separator /\ separator < first
           /\ s[slash] = "/" /\ Lower(s[word]) = "stock" /\ s[separator] = "="
           /\ \A i \in DOMAIN s \ ({slash, word, separator} \cup first .. last) : s[i] \in NetSpace

(* A line of that form, and no other, arrives at the lookup with its code  *)
(* in lower case, if its room exists; Chat.Bot discards nothing that       *)
(* Chat.Web has let through.                                               *)
StockCommandsReachTheLookup ==
    /\ at # "discarded"
    /\ Handled /\ MessageContent(Sent).ok /\ at # "requested" /\ refusedBy # "room" =>
           /\ \A first, last \in DOMAIN Sent :
                  StockCommand(Sent, first, last) =>
                      at = "validated" /\ text = SubSeq(ToLower(Sent), first, last)
           /\ at = "validated" =>
                  \E first, last \in DOMAIN Sent : StockCommand(Sent, first, last)

(* StockCode is the boundary of the outbound call: nothing but the allowed *)
(* characters, in the allowed number, ever goes into a URL.                *)
OnlySafeTickers ==
    at = "validated" => ToSet(text) \subseteq Ticker /\ Len(text) \in 1 .. MaxCodeLength

(* What is left of s in t: every visible character, in its place.          *)
KeepsVisible(s, t) ==
    \E place \in [DOMAIN t -> DOMAIN s] :
        /\ \A i, j \in DOMAIN t : i < j => place[i] < place[j]
        /\ \A i \in DOMAIN t : t[i] # "space" => t[i] = s[place[i]]
        /\ \A j \in DOMAIN s : s[j] \notin NetSpace =>
               \E i \in DOMAIN t : place[i] = j /\ t[i] = s[j]

(* RoomName: never empty, never padded, never doubly spaced, and no other  *)
(* white space than a space; nothing else is lost of what was typed.       *)
RoomNamesAreCanonical ==
    at = "named" =>
        /\ Len(text) \in 1 .. MaxNameLength
        /\ Trim(text, NetSpace) = text
        /\ ToSet(text) \cap NetSpace \subseteq {"space"}
        /\ \A i \in 1 .. Len(text) - 1 : text[i] # "space" \/ text[i + 1] # "space"
        /\ KeepsVisible(Sent, text)

=============================================================================
