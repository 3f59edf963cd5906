------------------------ MODULE RoomDirectory_proofs ------------------------
(***************************************************************************)
(* Proofs about the room directory, for any instances, windows, names and  *)
(* number of failures: seeds and creations that race one another and fail  *)
(* anywhere leave one room to a name, and no window offers a room that is  *)
(* not stored or misses one without a reason.                              *)
(***************************************************************************)
EXTENDS RoomDirectory, TLAPS

(* Two facts carry the rest: rows and the names in use only ever grow, and *)
(* a row is only added under a name that is free.                          *)
LEMMA StoreSteps ==
    ASSUME IInv, Next
    PROVE  \/ UNCHANGED storeVars
           \/ UNCHANGED nameOf /\ \E r \in Rooms : Insert(r)
           \/ /\ UNCHANGED rows
              /\ \E w \in Windows \ rows, name \in Names : nameOf' = [nameOf EXCEPT ![w] = name]
<1>1. ASSUME NEW i \in Instances, SeedDefault(i)
      PROVE  UNCHANGED nameOf /\ (UNCHANGED rows \/ Insert(i))
  BY <1>1 DEF SeedDefault
<1>2. ASSUME NEW i \in Instances, SeedRejected(i)
      PROVE  UNCHANGED nameOf /\ (UNCHANGED rows \/ Insert(i))
  BY <1>2 DEF SeedRejected
<1>3. ASSUME NEW i \in Instances, StartFails(i)
      PROVE  UNCHANGED nameOf /\ (UNCHANGED rows \/ Insert(i))
  BY <1>3 DEF StartFails
<1>4. ASSUME NEW w \in Windows, SaveRoom(w)
      PROVE  UNCHANGED nameOf /\ (UNCHANGED rows \/ Insert(w))
  BY <1>4 DEF SaveRoom
<1>5. ASSUME NEW w \in Windows, SaveRejected(w)
      PROVE  UNCHANGED nameOf /\ (UNCHANGED rows \/ Insert(w))
  BY <1>5 DEF SaveRejected
<1>6. ASSUME NEW w \in Windows, NEW name \in Names, Create(w, name)
      PROVE  UNCHANGED rows /\ w \notin rows /\ nameOf' = [nameOf EXCEPT ![w] = name]
  BY <1>6 DEF IInv, StagesKnowTheStore, Create, Advance
<1> QED
  BY <1>1, <1>2, <1>3, <1>4, <1>5, <1>6 DEF Next, SeedStep, CreateStep, Rooms,
    storeVars, LookUpDefault, Recheck, Restart, FrontStops, OpenPage,
    ListRooms, Connect, Drop, Reload, CreateOffline, LookUpFails, FindByName,
    Announce, AnnounceFails, Reply

LEMMA StoreGrows ==
    ASSUME IInv, Next
    PROVE  rows \subseteq rows' /\ Taken \subseteq Taken' /\ OneRoomPerName'
<1>1. CASE UNCHANGED storeVars
  BY <1>1 DEF IInv, OneRoomPerName, Taken, storeVars
<1>2. ASSUME NEW r \in Rooms, UNCHANGED nameOf, Insert(r)
      PROVE  rows \subseteq rows' /\ Taken \subseteq Taken' /\ OneRoomPerName'
  BY <1>2 DEF IInv, OneRoomPerName, Taken, Insert
<1>3. ASSUME UNCHANGED rows, NEW w \in Windows \ rows, NEW name \in Names,
             nameOf' = [nameOf EXCEPT ![w] = name]
      PROVE  rows \subseteq rows' /\ Taken \subseteq Taken' /\ OneRoomPerName'
  <2>1. \A r \in rows : nameOf'[r] = nameOf[r]
    BY <1>3 DEF IInv, TypeOK
  <2> QED
    BY <1>3, <2>1 DEF IInv, OneRoomPerName, Taken
<1> QED
  BY <1>1, <1>2, <1>3, StoreSteps

(* Types.                                                                  *)
LEMMA TypePreserved ==
    ASSUME IInv, Next
    PROVE  TypeOK'
<1> USE FrontAssumption, FailuresAssumption DEF IInv, TypeOK, Rooms
<1>1. ASSUME NEW i \in Instances, LookUpDefault(i)
      PROVE  TypeOK'
  BY <1>1 DEF LookUpDefault, Boot, storeVars, windowVars, createVars
<1>2. ASSUME NEW i \in Instances, SeedDefault(i)
      PROVE  TypeOK'
  BY <1>2 DEF SeedDefault, Boot, Insert, windowVars, createVars
<1>3. ASSUME NEW i \in Instances, SeedRejected(i)
      PROVE  TypeOK'
  BY <1>3 DEF SeedRejected, Boot, Failure, Insert, windowVars, createVars
<1>4. ASSUME NEW i \in Instances, Recheck(i)
      PROVE  TypeOK'
  BY <1>4 DEF Recheck, Boot, storeVars, windowVars, createVars
<1>5. ASSUME NEW i \in Instances, StartFails(i)
      PROVE  TypeOK'
  BY <1>5 DEF StartFails, Failure, Insert, windowVars, createVars
<1>6. ASSUME NEW i \in Instances, Restart(i)
      PROVE  TypeOK'
  BY <1>6 DEF Restart, Boot, storeVars, windowVars, createVars
<1>7. ASSUME FrontStops
      PROVE  TypeOK'
  BY <1>7 DEF FrontStops, Boot, Failure, Running, storeVars
<1>8. ASSUME NEW w \in Windows, OpenPage(w)
      PROVE  TypeOK'
  BY <1>8 DEF OpenPage, Turn, storeVars, createVars
<1>9. ASSUME NEW w \in Windows, ListRooms(w)
      PROVE  TypeOK'
  BY <1>9 DEF ListRooms, Turn, storeVars, createVars
<1>10. ASSUME NEW w \in Windows, Connect(w)
      PROVE  TypeOK'
  BY <1>10 DEF Connect, Turn, storeVars, createVars
<1>11. ASSUME NEW w \in Windows, Drop(w)
      PROVE  TypeOK'
  BY <1>11 DEF Drop, Turn, Failure, Running, Tell, storeVars
<1>12. ASSUME NEW w \in Windows, Reload(w)
      PROVE  TypeOK'
  BY <1>12 DEF Reload, Running, storeVars, createVars
<1>13. ASSUME NEW w \in Windows, NEW name \in Names, Create(w, name)
      PROVE  TypeOK'
  BY <1>13 DEF Create, Advance, windowVars
<1>14. ASSUME NEW w \in Windows, CreateOffline(w)
      PROVE  TypeOK'
  BY <1>14 DEF CreateOffline, Advance, Tell, storeVars, windowVars
<1>15. ASSUME NEW w \in Windows, LookUpFails(w)
      PROVE  TypeOK'
  BY <1>15 DEF LookUpFails, Advance, Trouble, Failure, Tell, storeVars,
    windowVars
<1>16. ASSUME NEW w \in Windows, FindByName(w)
      PROVE  TypeOK'
  BY <1>16 DEF FindByName, Advance, Tell, storeVars, windowVars
<1>17. ASSUME NEW w \in Windows, SaveRoom(w)
      PROVE  TypeOK'
  BY <1>17 DEF SaveRoom, Advance, Insert, windowVars
<1>18. ASSUME NEW w \in Windows, SaveRejected(w)
      PROVE  TypeOK'
  BY <1>18 DEF SaveRejected, Advance, Tell, Trouble, Failure, Insert,
    windowVars
<1>19. ASSUME NEW w \in Windows, Announce(w)
      PROVE  TypeOK'
  BY <1>19 DEF Announce, Advance, Reach, Online, storeVars
<1>20. ASSUME NEW w \in Windows, AnnounceFails(w)
      PROVE  TypeOK'
  BY <1>20 DEF AnnounceFails, Advance, Trouble, Failure, Tell, Reach, Online,
    storeVars
<1>21. ASSUME NEW w \in Windows, Reply(w)
      PROVE  TypeOK'
  BY <1>21 DEF Reply, Advance, Tell, storeVars
<1> QED
  BY <1>1, <1>2, <1>3, <1>4, <1>5, <1>6, <1>7, <1>8, <1>9, <1>10, <1>11,
    <1>12, <1>13, <1>14, <1>15, <1>16, <1>17, <1>18, <1>19, <1>20, <1>21 DEF
    Next, SeedStep, CreateStep

(* Only an instance that has found the default room, or stored it, starts  *)
(* to serve.                                                               *)
LEMMA ServingStaysSeeded ==
    ASSUME IInv, Next
    PROVE  ServingMeansSeeded'
<1>1. ASSUME NEW i \in Instances, LookUpDefault(i)
      PROVE  ServingMeansSeeded'
  BY <1>1, StoreGrows DEF IInv, TypeOK, ServingMeansSeeded,
    StagesKnowTheStore, Taken, Rooms, LookUpDefault, Boot, storeVars,
    windowVars, createVars
<1>2. ASSUME NEW i \in Instances, SeedDefault(i)
      PROVE  ServingMeansSeeded'
  BY <1>2, StoreGrows DEF IInv, TypeOK, ServingMeansSeeded,
    StagesKnowTheStore, Taken, Rooms, SeedDefault, Boot, Insert, windowVars,
    createVars
<1>3. ASSUME NEW i \in Instances, SeedRejected(i)
      PROVE  ServingMeansSeeded'
  BY <1>3, StoreGrows DEF IInv, TypeOK, ServingMeansSeeded,
    StagesKnowTheStore, Taken, Rooms, SeedRejected, Boot, Failure, Insert,
    windowVars, createVars
<1>4. ASSUME NEW i \in Instances, Recheck(i)
      PROVE  ServingMeansSeeded'
  BY <1>4, StoreGrows DEF IInv, TypeOK, ServingMeansSeeded,
    StagesKnowTheStore, Taken, Rooms, Recheck, Boot, storeVars, windowVars,
    createVars
<1>5. ASSUME NEW i \in Instances, StartFails(i)
      PROVE  ServingMeansSeeded'
  BY <1>5, StoreGrows DEF IInv, TypeOK, ServingMeansSeeded,
    StagesKnowTheStore, Taken, Rooms, StartFails, Failure, Insert, windowVars,
    createVars
<1>6. ASSUME NEW i \in Instances, Restart(i)
      PROVE  ServingMeansSeeded'
  BY <1>6, StoreGrows DEF IInv, TypeOK, ServingMeansSeeded,
    StagesKnowTheStore, Taken, Rooms, Restart, Boot, storeVars, windowVars,
    createVars
<1>7. ASSUME FrontStops
      PROVE  ServingMeansSeeded'
  BY <1>7, StoreGrows DEF IInv, TypeOK, ServingMeansSeeded,
    StagesKnowTheStore, Taken, Rooms, FrontStops, Boot, Failure, Running,
    storeVars
<1>8. CASE UNCHANGED boot
  BY <1>8, StoreGrows DEF IInv, TypeOK, ServingMeansSeeded,
    StagesKnowTheStore, Taken, Rooms
<1> QED
  BY <1>1, <1>2, <1>3, <1>4, <1>5, <1>6, <1>7, <1>8 DEF Next, SeedStep,
    CreateStep, OpenPage, ListRooms, Connect, Drop, Reload, Create,
    CreateOffline, LookUpFails, FindByName, SaveRoom, SaveRejected, Announce,
    AnnounceFails, Reply

(* What a window adds to its picker was read from the store, or is a row   *)
(* that was saved before it was announced.                                 *)
LEMMA OffersStayStored ==
    ASSUME IInv, Next
    PROVE  OfferedOnlyIfStored'
<1>1. ASSUME NEW w \in Windows, ListRooms(w)
      PROVE  OfferedOnlyIfStored'
  BY <1>1, StoreGrows DEF IInv, TypeOK, OfferedOnlyIfStored,
    StagesKnowTheStore, ListRooms, Turn, storeVars, createVars
<1>2. ASSUME NEW w \in Windows, Reload(w)
      PROVE  OfferedOnlyIfStored'
  BY <1>2, StoreGrows DEF IInv, TypeOK, OfferedOnlyIfStored,
    StagesKnowTheStore, Reload, Running, storeVars, createVars
<1>3. ASSUME NEW w \in Windows, Announce(w)
      PROVE  OfferedOnlyIfStored'
  BY <1>3, StoreGrows DEF IInv, TypeOK, OfferedOnlyIfStored,
    StagesKnowTheStore, Announce, Advance, Reach, Online, storeVars
<1>4. ASSUME NEW w \in Windows, AnnounceFails(w)
      PROVE  OfferedOnlyIfStored'
  BY <1>4, StoreGrows DEF IInv, TypeOK, OfferedOnlyIfStored,
    StagesKnowTheStore, AnnounceFails, Advance, Trouble, Failure, Tell, Reach,
    Online, storeVars
<1>5. ASSUME NEW w \in Windows, Reply(w)
      PROVE  OfferedOnlyIfStored'
  BY <1>5, StoreGrows DEF IInv, TypeOK, OfferedOnlyIfStored,
    StagesKnowTheStore, Reply, Advance, Tell, storeVars
<1>6. CASE UNCHANGED picker
  BY <1>6, StoreGrows DEF IInv, TypeOK, OfferedOnlyIfStored,
    StagesKnowTheStore
<1> QED
  BY <1>1, <1>2, <1>3, <1>4, <1>5, <1>6 DEF Next, SeedStep, CreateStep,
    windowVars, LookUpDefault, SeedDefault, SeedRejected, Recheck, StartFails,
    Restart, FrontStops, OpenPage, Connect, Drop, Create, CreateOffline,
    LookUpFails, FindByName, SaveRoom, SaveRejected

(* The stages of a seed and of a creation.  Nobody but instance or window  *)
(* r inserts row r.                                                        *)
LEMMA StagesKeepKnowing ==
    ASSUME IInv, Next
    PROVE  StagesKnowTheStore'
<1>1. ASSUME NEW i \in Instances, LookUpDefault(i)
      PROVE  StagesKnowTheStore'
  BY <1>1, NamesAssumption, InsertersAssumption DEF IInv, TypeOK,
    StagesKnowTheStore, Taken, Rooms, LookUpDefault, Boot, storeVars,
    windowVars, createVars
<1>2. ASSUME NEW i \in Instances, SeedDefault(i)
      PROVE  StagesKnowTheStore'
  BY <1>2, NamesAssumption, InsertersAssumption DEF IInv, TypeOK,
    StagesKnowTheStore, Taken, Rooms, SeedDefault, Boot, Insert, windowVars,
    createVars
<1>3. ASSUME NEW i \in Instances, SeedRejected(i)
      PROVE  StagesKnowTheStore'
  BY <1>3, NamesAssumption, InsertersAssumption DEF IInv, TypeOK,
    StagesKnowTheStore, Taken, Rooms, SeedRejected, Boot, Failure, Insert,
    windowVars, createVars
<1>4. ASSUME NEW i \in Instances, Recheck(i)
      PROVE  StagesKnowTheStore'
  BY <1>4, NamesAssumption, InsertersAssumption DEF IInv, TypeOK,
    StagesKnowTheStore, Taken, Rooms, Recheck, Boot, storeVars, windowVars,
    createVars
<1>5. ASSUME NEW i \in Instances, StartFails(i)
      PROVE  StagesKnowTheStore'
  BY <1>5, NamesAssumption, InsertersAssumption DEF IInv, TypeOK,
    StagesKnowTheStore, Taken, Rooms, StartFails, Failure, Insert, windowVars,
    createVars
<1>6. ASSUME NEW i \in Instances, Restart(i)
      PROVE  StagesKnowTheStore'
  BY <1>6, NamesAssumption, InsertersAssumption DEF IInv, TypeOK,
    StagesKnowTheStore, Taken, Rooms, Restart, Boot, storeVars, windowVars,
    createVars
<1>7. ASSUME FrontStops
      PROVE  StagesKnowTheStore'
  BY <1>7, NamesAssumption, InsertersAssumption DEF IInv, TypeOK,
    StagesKnowTheStore, Taken, Rooms, FrontStops, Boot, Failure, Running,
    storeVars
<1>8. ASSUME NEW w \in Windows, NEW name \in Names, Create(w, name)
      PROVE  StagesKnowTheStore'
  BY <1>8, NamesAssumption, InsertersAssumption DEF IInv, TypeOK,
    StagesKnowTheStore, Taken, Rooms, Create, Advance, windowVars
<1>9. ASSUME NEW w \in Windows, CreateOffline(w)
      PROVE  StagesKnowTheStore'
  BY <1>9, NamesAssumption, InsertersAssumption DEF IInv, TypeOK,
    StagesKnowTheStore, Taken, Rooms, CreateOffline, Advance, Tell, storeVars,
    windowVars
<1>10. ASSUME NEW w \in Windows, LookUpFails(w)
      PROVE  StagesKnowTheStore'
  BY <1>10, NamesAssumption, InsertersAssumption DEF IInv, TypeOK,
    StagesKnowTheStore, Taken, Rooms, LookUpFails, Advance, Trouble, Failure,
    Tell, storeVars, windowVars
<1>11. ASSUME NEW w \in Windows, FindByName(w)
      PROVE  StagesKnowTheStore'
  BY <1>11, NamesAssumption, InsertersAssumption DEF IInv, TypeOK,
    StagesKnowTheStore, Taken, Rooms, FindByName, Advance, Tell, storeVars,
    windowVars
<1>12. ASSUME NEW w \in Windows, SaveRoom(w)
      PROVE  StagesKnowTheStore'
  BY <1>12, NamesAssumption, InsertersAssumption DEF IInv, TypeOK,
    StagesKnowTheStore, Taken, Rooms, SaveRoom, Advance, Insert, windowVars
<1>13. ASSUME NEW w \in Windows, SaveRejected(w)
      PROVE  StagesKnowTheStore'
  BY <1>13, NamesAssumption, InsertersAssumption DEF IInv, TypeOK,
    StagesKnowTheStore, Taken, Rooms, SaveRejected, Advance, Tell, Trouble,
    Failure, Insert, windowVars
<1>14. ASSUME NEW w \in Windows, Announce(w)
      PROVE  StagesKnowTheStore'
  BY <1>14, NamesAssumption, InsertersAssumption DEF IInv, TypeOK,
    StagesKnowTheStore, Taken, Rooms, Announce, Advance, Reach, Online,
    storeVars
<1>15. ASSUME NEW w \in Windows, AnnounceFails(w)
      PROVE  StagesKnowTheStore'
  BY <1>15, NamesAssumption, InsertersAssumption DEF IInv, TypeOK,
    StagesKnowTheStore, Taken, Rooms, AnnounceFails, Advance, Trouble,
    Failure, Tell, Reach, Online, storeVars
<1>16. ASSUME NEW w \in Windows, Reply(w)
      PROVE  StagesKnowTheStore'
  BY <1>16, NamesAssumption, InsertersAssumption DEF IInv, TypeOK,
    StagesKnowTheStore, Taken, Rooms, Reply, Advance, Tell, storeVars
<1>17. CASE UNCHANGED <<storeVars, boot, create>>
  BY <1>17, NamesAssumption, InsertersAssumption DEF IInv, TypeOK,
    StagesKnowTheStore, Taken, Rooms, storeVars
<1> QED
  BY <1>1, <1>2, <1>3, <1>4, <1>5, <1>6, <1>7, <1>8, <1>9, <1>10, <1>11,
    <1>12, <1>13, <1>14, <1>15, <1>16, <1>17 DEF Next, SeedStep, CreateStep,
    createVars, storeVars, OpenPage, ListRooms, Connect, Drop, Reload

(* Once a page has been loaded the default room is there, so what a window *)
(* can miss is a created room: every way on from "announcing" either        *)
(* reaches it or leaves a trace.                                           *)
LEMMA AccountsKept ==
    ASSUME IInv, Next
    PROVE  LoadedWindowsKeepAccount'
<1>1. ASSUME NEW i \in Instances, SeedDefault(i)
      PROVE  LoadedWindowsKeepAccount'
  BY <1>1, StoreGrows DEF IInv, TypeOK, LoadedWindowsKeepAccount, Accounted,
    StagesKnowTheStore, Taken, Rooms, SeedDefault, Boot, Insert, windowVars,
    createVars
<1>2. ASSUME NEW i \in Instances, SeedRejected(i)
      PROVE  LoadedWindowsKeepAccount'
  BY <1>2, StoreGrows DEF IInv, TypeOK, LoadedWindowsKeepAccount, Accounted,
    StagesKnowTheStore, Taken, Rooms, SeedRejected, Boot, Failure, Insert,
    windowVars, createVars
<1>3. ASSUME NEW i \in Instances, StartFails(i)
      PROVE  LoadedWindowsKeepAccount'
  BY <1>3, StoreGrows DEF IInv, TypeOK, LoadedWindowsKeepAccount, Accounted,
    StagesKnowTheStore, Taken, Rooms, StartFails, Failure, Insert, windowVars,
    createVars
<1>4. ASSUME FrontStops
      PROVE  LoadedWindowsKeepAccount'
  BY <1>4, StoreGrows DEF IInv, TypeOK, LoadedWindowsKeepAccount, Accounted,
    StagesKnowTheStore, Taken, Rooms, FrontStops, Boot, Failure, Running,
    storeVars
<1>5. ASSUME NEW w \in Windows, OpenPage(w)
      PROVE  LoadedWindowsKeepAccount'
  BY <1>5, StoreGrows DEF IInv, TypeOK, LoadedWindowsKeepAccount, Accounted,
    StagesKnowTheStore, Taken, Rooms, OpenPage, Turn, storeVars, createVars
<1>6. ASSUME NEW w \in Windows, ListRooms(w)
      PROVE  LoadedWindowsKeepAccount'
  BY <1>6, StoreGrows DEF IInv, TypeOK, LoadedWindowsKeepAccount, Accounted,
    StagesKnowTheStore, Taken, Rooms, ListRooms, Turn, storeVars, createVars
<1>7. ASSUME NEW w \in Windows, Connect(w)
      PROVE  LoadedWindowsKeepAccount'
  BY <1>7, StoreGrows DEF IInv, TypeOK, LoadedWindowsKeepAccount, Accounted,
    StagesKnowTheStore, Taken, Rooms, Connect, Turn, storeVars, createVars
<1>8. ASSUME NEW w \in Windows, Drop(w)
      PROVE  LoadedWindowsKeepAccount'
  BY <1>8, StoreGrows DEF IInv, TypeOK, LoadedWindowsKeepAccount, Accounted,
    StagesKnowTheStore, Taken, Rooms, Drop, Turn, Failure, Running, Tell,
    storeVars
<1>9. ASSUME NEW w \in Windows, Reload(w)
      PROVE  LoadedWindowsKeepAccount'
  BY <1>9, StoreGrows DEF IInv, TypeOK, LoadedWindowsKeepAccount, Accounted,
    StagesKnowTheStore, Taken, Rooms, Reload, Running, storeVars, createVars
<1>10. ASSUME NEW w \in Windows, NEW name \in Names, Create(w, name)
      PROVE  LoadedWindowsKeepAccount'
  BY <1>10, StoreGrows DEF IInv, TypeOK, LoadedWindowsKeepAccount, Accounted,
    StagesKnowTheStore, Taken, Rooms, Create, Advance, windowVars
<1>11. ASSUME NEW w \in Windows, CreateOffline(w)
      PROVE  LoadedWindowsKeepAccount'
  BY <1>11, StoreGrows DEF IInv, TypeOK, LoadedWindowsKeepAccount, Accounted,
    StagesKnowTheStore, Taken, Rooms, CreateOffline, Advance, Tell, storeVars,
    windowVars
<1>12. ASSUME NEW w \in Windows, LookUpFails(w)
      PROVE  LoadedWindowsKeepAccount'
  BY <1>12, StoreGrows DEF IInv, TypeOK, LoadedWindowsKeepAccount, Accounted,
    StagesKnowTheStore, Taken, Rooms, LookUpFails, Advance, Trouble, Failure,
    Tell, storeVars, windowVars
<1>13. ASSUME NEW w \in Windows, FindByName(w)
      PROVE  LoadedWindowsKeepAccount'
  BY <1>13, StoreGrows DEF IInv, TypeOK, LoadedWindowsKeepAccount, Accounted,
    StagesKnowTheStore, Taken, Rooms, FindByName, Advance, Tell, storeVars,
    windowVars
<1>14. ASSUME NEW w \in Windows, SaveRoom(w)
      PROVE  LoadedWindowsKeepAccount'
  BY <1>14, StoreGrows DEF IInv, TypeOK, LoadedWindowsKeepAccount, Accounted,
    StagesKnowTheStore, Taken, Rooms, SaveRoom, Advance, Insert, windowVars
<1>15. ASSUME NEW w \in Windows, SaveRejected(w)
      PROVE  LoadedWindowsKeepAccount'
  BY <1>15, StoreGrows DEF IInv, TypeOK, LoadedWindowsKeepAccount, Accounted,
    StagesKnowTheStore, Taken, Rooms, SaveRejected, Advance, Tell, Trouble,
    Failure, Insert, windowVars
<1>16. ASSUME NEW w \in Windows, Announce(w)
      PROVE  LoadedWindowsKeepAccount'
  BY <1>16, StoreGrows DEF IInv, TypeOK, LoadedWindowsKeepAccount, Accounted,
    StagesKnowTheStore, Taken, Rooms, Announce, Advance, Reach, Online,
    storeVars
<1>17. ASSUME NEW w \in Windows, AnnounceFails(w)
      PROVE  LoadedWindowsKeepAccount'
  BY <1>17, StoreGrows DEF IInv, TypeOK, LoadedWindowsKeepAccount, Accounted,
    StagesKnowTheStore, Taken, Rooms, AnnounceFails, Advance, Trouble,
    Failure, Tell, Reach, Online, storeVars
<1>18. ASSUME NEW w \in Windows, Reply(w)
      PROVE  LoadedWindowsKeepAccount'
  BY <1>18, StoreGrows DEF IInv, TypeOK, LoadedWindowsKeepAccount, Accounted,
    StagesKnowTheStore, Taken, Rooms, Reply, Advance, Tell, storeVars
<1>19. CASE UNCHANGED <<storeVars, windowVars, createVars>>
  BY <1>19, StoreGrows DEF IInv, TypeOK, LoadedWindowsKeepAccount, Accounted,
    StagesKnowTheStore, Taken, Rooms, storeVars, windowVars, createVars
<1> QED
  BY <1>1, <1>2, <1>3, <1>4, <1>5, <1>6, <1>7, <1>8, <1>9, <1>10, <1>11,
    <1>12, <1>13, <1>14, <1>15, <1>16, <1>17, <1>18, <1>19 DEF Next, SeedStep,
    CreateStep, LookUpDefault, Recheck, Restart

-----------------------------------------------------------------------------
(* The inductive invariant of the room directory.                          *)
THEOREM DirectoryInvariant == Spec => []IInv
<1>1. Init => IInv
  BY NamesAssumption, FailuresAssumption
    DEF Init, IInv, TypeOK, OneRoomPerName, ServingMeansSeeded, OfferedOnlyIfStored,
        StagesKnowTheStore, LoadedWindowsKeepAccount, Rooms
<1>2. IInv /\ [Next]_vars => IInv'
  <2> SUFFICES ASSUME IInv, [Next]_vars
               PROVE  IInv'
    OBVIOUS
  <2>1. CASE Next
    BY <2>1, TypePreserved, StoreGrows, ServingStaysSeeded, OffersStayStored,
       StagesKeepKnowing, AccountsKept DEF IInv
  <2>2. CASE UNCHANGED vars
    BY <2>2 DEF vars, storeVars, windowVars, createVars, IInv, TypeOK, OneRoomPerName,
       ServingMeansSeeded, OfferedOnlyIfStored, StagesKnowTheStore,
       LoadedWindowsKeepAccount, Accounted, Taken
  <2> QED
    BY <2>1, <2>2
<1> QED
  BY <1>1, <1>2, PTL DEF Spec

(* CreateRoomHandler's remarks: there is one room to a name, whoever races *)
(* whom to create or to seed it.                                           *)
THEOREM NamesAreUnique == Spec => []OneRoomPerName
<1>1. IInv => OneRoomPerName
  BY DEF IInv
<1> QED
  BY <1>1, DirectoryInvariant, PTL

(* ChatDbSeeder.SeedAsync: whichever way the seed of an instance ended, if *)
(* it serves there is a default room.                                      *)
THEOREM ServingIsSeeded == Spec => []ServingMeansSeeded
<1>1. IInv => ServingMeansSeeded
  BY DEF IInv
<1> QED
  BY <1>1, DirectoryInvariant, PTL

(* CreateRoomHandler announces strictly after the commit: no window offers *)
(* a room that is not stored.                                              *)
THEOREM OffersAreStored == Spec => []OfferedOnlyIfStored
<1>1. IInv => OfferedOnlyIfStored
  BY DEF IInv
<1> QED
  BY <1>1, DirectoryInvariant, PTL

(* ReceiveRoom and the page's list: a room that a connected window does    *)
(* not offer is being announced, was announced while the window was away,  *)
(* or was never announced.                                                 *)
THEOREM MissingIsAccounted == Spec => []MissingRoomsAccounted
<1>1. IInv => MissingRoomsAccounted
  BY DEF IInv, LoadedWindowsKeepAccount, MissingRoomsAccounted, Online
<1> QED
  BY <1>1, DirectoryInvariant, PTL
=============================================================================
