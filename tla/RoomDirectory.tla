--------------------------- MODULE RoomDirectory ---------------------------
(***************************************************************************)
(* The rooms: instances of Chat.Web that start together seed the default   *)
(* room, participants create rooms, and every open window offers in its    *)
(* picker the rooms it knows of.  Lookups and inserts are separate steps   *)
(* of separate processes; only the unique index on ChatRooms.Name is       *)
(* between them.                                                           *)
(*                                                                         *)
(* A room is named after the instance or window that inserted it: each     *)
(* inserts one at most.  Room names here are valid ones: an invalid name   *)
(* is refused before anything is looked up.  What is pushed to a window    *)
(* counts as delivered: a push lost with its connection is one made after  *)
(* the connection dropped.                                                 *)
(***************************************************************************)
EXTENDS FiniteSets, Integers

CONSTANTS
    Instances,      \* starting instances of Chat.Web
    Front,          \* the one that the windows are connected to
    Windows,        \* chat windows
    Names,          \* room names, equal ones under the column's collation
    DefaultName,    \* ChatRoomConstants.DefaultRoomName
    MaxFailures     \* bound: database and broadcast failures, lost connections

ASSUME FrontAssumption == Front \in Instances
ASSUME NamesAssumption == DefaultName \in Names
ASSUME InsertersAssumption == Instances \cap Windows = {}
ASSUME FailuresAssumption == MaxFailures \in Nat

Rooms == Instances \cup Windows

VARIABLES
    rows,       \* the rows of ChatRooms
    nameOf,     \* the name each room has, or would have
    boot,       \* how far the start of each instance has come
    page,       \* what each window is doing
    picker,     \* the rooms it offers
    create,     \* how far its CreateRoom has come in the handler
    told,       \* what its participant was told about it
    away,       \* rooms announced while the window could not hear it
    unannounced,\* rooms whose announcement failed, or was never reached
    failures

storeVars  == <<rows, nameOf>>
windowVars == <<page, picker, away>>
createVars == <<create, told, unannounced>>
vars       == <<storeVars, boot, windowVars, createVars, failures>>

Taken == {nameOf[r] : r \in rows}
Online == {w \in Windows : page[w] = "online"}

TypeOK ==
    /\ rows \subseteq Rooms
    /\ nameOf \in [Rooms -> Names]
    /\ boot \in [Instances -> {"starting", "inserting", "rechecking", "serving", "crashed"}]
    /\ page \in [Windows -> {"closed", "listing", "blank", "offline", "online"}]
    /\ picker \in [Windows -> SUBSET Rooms]
    /\ create \in [Windows -> {"none", "lookup", "inserting", "announcing", "replying", "done"}]
    /\ told \in [Windows -> {"nothing", "created", "refused", "failed"}]
    /\ away \in [Windows -> SUBSET Rooms]
    /\ unannounced \subseteq Windows
    /\ failures \in 0 .. MaxFailures

Init ==
    /\ rows = {} /\ nameOf = [r \in Rooms |-> DefaultName]
    /\ boot = [i \in Instances |-> "starting"]
    /\ page = [w \in Windows |-> "closed"]
    /\ picker = [w \in Windows |-> {}] /\ away = [w \in Windows |-> {}]
    /\ create = [w \in Windows |-> "none"] /\ told = [w \in Windows |-> "nothing"]
    /\ unannounced = {}
    /\ failures = 0

Failure == failures < MaxFailures /\ failures' = failures + 1

(* The unique index: a row whose name is taken is not inserted.            *)
Insert(r) == nameOf[r] \notin Taken /\ rows' = rows \cup {r}

-----------------------------------------------------------------------------
(* ChatDbSeeder.SeedAsync, run by every instance before it serves.         *)

Boot(i, from, to) == boot[i] = from /\ boot' = [boot EXCEPT ![i] = to]

LookUpDefault(i) ==
    /\ Boot(i, "starting", IF DefaultName \in Taken THEN "serving" ELSE "inserting")
    /\ UNCHANGED <<storeVars, windowVars, createVars, failures>>

(* Mutant of SeedDefault: no unique index.                                 *)
SeedBlindly(i) ==
    /\ Boot(i, "inserting", "serving")
    /\ rows' = rows \cup {i}
    /\ UNCHANGED <<nameOf, windowVars, createVars, failures>>

SeedDefault(i) ==
    /\ Boot(i, "inserting", "serving")
    /\ Insert(i)
    /\ UNCHANGED <<nameOf, windowVars, createVars, failures>>

(* A DbUpdateException: the index rejects the row, or the save fails, even *)
(* after it has committed.                                                 *)
SeedRejected(i) ==
    /\ Boot(i, "inserting", "rechecking")
    /\ \/ DefaultName \in Taken /\ UNCHANGED <<rows, failures>>
       \/ Failure /\ (Insert(i) \/ UNCHANGED rows)
    /\ UNCHANGED <<nameOf, windowVars, createVars>>

(* Mutant of Recheck: every rejection counts as a lost race.               *)
RecheckSkipped(i) ==
    /\ Boot(i, "rechecking", "serving")
    /\ UNCHANGED <<storeVars, windowVars, createVars, failures>>

Recheck(i) ==
    /\ Boot(i, "rechecking", IF DefaultName \in Taken THEN "serving" ELSE "crashed")
    /\ UNCHANGED <<storeVars, windowVars, createVars, failures>>

(* Any other exception, at whatever point of the start, or a host that is  *)
(* stopped there.                                                          *)
StartFails(i) ==
    /\ boot[i] \in {"starting", "inserting", "rechecking"}
    /\ boot' = [boot EXCEPT ![i] = "crashed"]
    /\ Failure
    /\ UNCHANGED rows \/ (boot[i] = "inserting" /\ Insert(i))
    /\ UNCHANGED <<nameOf, windowVars, createVars>>

Restart(i) ==
    /\ Boot(i, "crashed", "starting")
    /\ UNCHANGED <<storeVars, windowVars, createVars, failures>>

-----------------------------------------------------------------------------
(* The page and its connection.                                            *)

Turn(w, from, to) == page[w] = from /\ page' = [page EXCEPT ![w] = to]

(* GetDefaultRoom, and then, in a query of its own, ListRooms.             *)
OpenPage(w) ==
    /\ boot[Front] = "serving"
    /\ Turn(w, "closed", IF DefaultName \in Taken THEN "listing" ELSE "blank")
    /\ UNCHANGED <<storeVars, boot, picker, away, createVars, failures>>

ListRooms(w) ==
    /\ Turn(w, "listing", "offline")
    /\ picker' = [picker EXCEPT ![w] = rows]
    /\ away' = [away EXCEPT ![w] = {}]
    /\ UNCHANGED <<storeVars, boot, createVars, failures>>

Connect(w) ==
    /\ boot[Front] = "serving"
    /\ Turn(w, "offline", "online")
    /\ UNCHANGED <<storeVars, boot, picker, away, createVars, failures>>

Running(w) == create[w] \notin {"none", "done"}

Tell(w, what) == told' = IF told[w] = "nothing" THEN [told EXCEPT ![w] = what] ELSE told

(* The connection drops: the invocation is rejected in the window, while   *)
(* the handler goes on.                                                    *)
Drop(w) ==
    /\ Turn(w, "online", "offline")
    /\ Failure
    /\ IF Running(w) THEN Tell(w, "failed") ELSE UNCHANGED told
    /\ UNCHANGED <<storeVars, boot, picker, away, create, unannounced>>

(* Chat.Web stops: connections, requests and handlers end wherever they    *)
(* are.  A save under way has happened or not.                             *)
FrontStops ==
    /\ Boot(Front, "serving", "crashed")
    /\ Failure
    /\ page' = [w \in Windows |-> IF page[w] = "online" THEN "offline"
                                 ELSE IF page[w] = "listing" THEN "closed" ELSE page[w]]
    /\ create' = [w \in Windows |-> IF Running(w) THEN "done" ELSE create[w]]
    /\ told' = [w \in Windows |-> IF Running(w) /\ told[w] = "nothing" THEN "failed" ELSE told[w]]
    /\ unannounced' = unannounced \cup {w \in Windows : create[w] = "announcing"}
    /\ UNCHANGED <<storeVars, picker, away>>

(* A participant who waits for an answer does not reload.                  *)
Reload(w) ==
    /\ page[w] \in {"offline", "online"}
    /\ page[w] = "offline" \/ ~Running(w)
    /\ page' = [page EXCEPT ![w] = "closed"]
    /\ picker' = [picker EXCEPT ![w] = {}]
    /\ UNCHANGED <<storeVars, boot, away, createVars, failures>>

-----------------------------------------------------------------------------
(* CreateRoomHandler, and the button that calls it.                        *)

Advance(w, from, to) == create[w] = from /\ create' = [create EXCEPT ![w] = to]

Create(w, name) ==
    /\ page[w] = "online"
    /\ Advance(w, "none", "lookup")
    /\ nameOf' = [nameOf EXCEPT ![w] = name]
    /\ UNCHANGED <<rows, boot, windowVars, told, unannounced, failures>>

(* Without a connection the call fails in the window.                      *)
CreateOffline(w) ==
    /\ page[w] = "offline"
    /\ Advance(w, "none", "done")
    /\ Tell(w, "failed")
    /\ UNCHANGED <<storeVars, boot, windowVars, unannounced, failures>>

(* What can interrupt the handler: its connection's token, which a drop    *)
(* has cancelled, or a failure.                                            *)
Trouble(w) == IF told[w] = "failed" THEN UNCHANGED failures ELSE Failure

LookUpFails(w) ==
    /\ Advance(w, "lookup", "done")
    /\ Trouble(w)
    /\ Tell(w, "failed")
    /\ UNCHANGED <<storeVars, boot, windowVars, unannounced>>

FindByName(w) ==
    /\ Advance(w, "lookup", IF nameOf[w] \in Taken THEN "done" ELSE "inserting")
    /\ IF nameOf[w] \in Taken THEN Tell(w, "refused") ELSE UNCHANGED told
    /\ UNCHANGED <<storeVars, boot, windowVars, unannounced, failures>>

SaveRoom(w) ==
    /\ Advance(w, "inserting", "announcing")
    /\ Insert(w)
    /\ UNCHANGED <<nameOf, boot, windowVars, told, unannounced, failures>>

(* Mutant of SaveRejected: the insert is tried for ever.                   *)
SaveRetried(w) ==
    /\ create[w] = "inserting"
    /\ nameOf[w] \in Taken
    /\ UNCHANGED vars

(* An exception: the race for the name is lost, or the save fails, even    *)
(* after it has committed.  The window hears of a failed invocation.       *)
SaveRejected(w) ==
    /\ Advance(w, "inserting", "done")
    /\ Tell(w, "failed")
    /\ \/ nameOf[w] \in Taken /\ UNCHANGED <<rows, failures, unannounced>>
       \/ /\ Trouble(w)
          /\ Insert(w) \/ UNCHANGED rows
          /\ unannounced' = unannounced \cup {w}
    /\ UNCHANGED <<nameOf, boot, windowVars>>

(* ReceiveRoom in the windows that are reached adds an option.             *)
Reach(w, reached) ==
    /\ picker' = [v \in Windows |-> IF v \in reached THEN picker[v] \cup {w} ELSE picker[v]]
    /\ away' = [v \in Windows |-> IF v \in Online THEN away[v] ELSE away[v] \cup {w}]

(* Mutants of Announce: before the commit, or to the caller alone.         *)
AnnounceBeforeSave(w) ==
    /\ create[w] \in {"inserting", "announcing"}
    /\ create' = IF create[w] = "announcing" THEN [create EXCEPT ![w] = "replying"] ELSE create
    /\ Reach(w, Online)
    /\ UNCHANGED <<storeVars, boot, page, told, unannounced, failures>>

AnnounceToCaller(w) ==
    /\ Advance(w, "announcing", "replying")
    /\ Reach(w, Online \cap {w})
    /\ UNCHANGED <<storeVars, boot, page, told, unannounced, failures>>

(* SignalRChatRoomNotifier: to all connections.                            *)
Announce(w) ==
    /\ Advance(w, "announcing", "replying")
    /\ Reach(w, Online)
    /\ UNCHANGED <<storeVars, boot, page, told, unannounced, failures>>

AnnounceFails(w) ==
    /\ Advance(w, "announcing", "done")
    /\ Trouble(w)
    /\ Tell(w, "failed")
    /\ \E reached \in SUBSET Online : Reach(w, reached)
    /\ unannounced' = unannounced \cup {w}
    /\ UNCHANGED <<storeVars, boot, page>>

(* The window that asked gets the room as the result of its call too.      *)
Reply(w) ==
    /\ Advance(w, "replying", "done")
    /\ Tell(w, "created")
    /\ picker' = IF told[w] = "nothing" THEN [picker EXCEPT ![w] = @ \cup {w}] ELSE picker
    /\ UNCHANGED <<storeVars, boot, page, away, unannounced, failures>>

-----------------------------------------------------------------------------
SeedStep(i) == LookUpDefault(i) \/ SeedDefault(i) \/ SeedRejected(i) \/ Recheck(i)

CreateStep(w) ==
    \/ LookUpFails(w) \/ FindByName(w) \/ SaveRoom(w) \/ SaveRejected(w)
    \/ Announce(w) \/ AnnounceFails(w) \/ Reply(w)

Next ==
    \/ \E i \in Instances : SeedStep(i) \/ StartFails(i) \/ Restart(i)
    \/ FrontStops
    \/ \E w \in Windows : \/ OpenPage(w) \/ ListRooms(w) \/ Connect(w) \/ Drop(w) \/ Reload(w)
                          \/ \E name \in Names : Create(w, name)
                          \/ CreateOffline(w) \/ CreateStep(w)

Spec == Init /\ [][Next]_vars

(* Handlers end.  Nobody has to start, open or create anything.            *)
FairSpec == Spec /\ \A w \in Windows : WF_vars(CreateStep(w))

-----------------------------------------------------------------------------
(* Properties.                                                             *)

(* CreateRoomHandler remarks: one room per name, whoever races whom.       *)
OneRoomPerName == \A r, s \in rows : nameOf[r] = nameOf[s] => r = s

(* An instance that serves has a default room to land on, however its seed *)
(* ended: inserted, found, lost to another instance, or failed.            *)
ServingMeansSeeded ==
    (\E i \in Instances : boot[i] = "serving") => DefaultName \in Taken

(* No window offers a room that was never stored.                          *)
OfferedOnlyIfStored == \A w \in Windows : picker[w] \subseteq rows

(* A connected window lacks a stored room only while it is being announced,*)
(* or because it was not connected then, or because the announcement       *)
(* failed.                                                                 *)
Accounted(w, r) ==
    r \in away[w] \cup unannounced \/ (r \in Windows /\ create[r] = "announcing")

MissingRoomsAccounted == \A w \in Online : \A r \in rows \ picker[w] : Accounted(w, r)

(* Every creation ends with an answer to the participant.                  *)
CreationEnds == \A w \in Windows : (create[w] # "none") ~> (told[w] # "nothing")

(* What makes these invariant: a room's name is settled before it is       *)
(* looked up, each stage of a seed or a creation knows what is stored, and *)
(* a window that is offline already keeps account of what it misses.       *)
StagesKnowTheStore ==
    /\ \A i \in Instances : /\ nameOf[i] = DefaultName
                            /\ boot[i] = "inserting" => i \notin rows
    /\ \A w \in Windows : /\ create[w] \in {"none", "lookup", "inserting"} => w \notin rows
                          /\ create[w] \in {"announcing", "replying"} => w \in rows

LoadedWindowsKeepAccount ==
    \A w \in Windows :
        /\ page[w] \in {"listing", "offline", "online"} => DefaultName \in Taken
        /\ page[w] \in {"offline", "online"} => \A r \in rows \ picker[w] : Accounted(w, r)

IInv ==
    /\ TypeOK
    /\ OneRoomPerName
    /\ ServingMeansSeeded
    /\ OfferedOnlyIfStored
    /\ StagesKnowTheStore
    /\ LoadedWindowsKeepAccount

(* IChatRoomNotifier: a new room is announced so that open windows can     *)
(* offer it without a reload.  A connected window offers every room that   *)
(* another has created, once its announcement has gone out to all.         *)
OpenWindowsOfferEveryRoom ==
    \A w \in Online : \A r \in rows \cap (Windows \ {w}) :
        create[r] = "done" /\ r \notin unannounced => r \in picker[w]

=============================================================================
