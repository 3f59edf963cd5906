------------------------- MODULE ChatHistory_proofs -------------------------
(***************************************************************************)
(* Proofs about what a chat window shows, for any rooms, any history limit *)
(* and any number of posts, switches and lost connections: no post twice,  *)
(* and, once the window is at rest, no announced post of its room missing  *)
(* that the history limit had not pushed out.                              *)
(***************************************************************************)
EXTENDS ChatWindow_proofs, WellFoundedInduction

-----------------------------------------------------------------------------
(* OldestFirst chooses something: every set of posts has an increasing     *)
(* enumeration.  By the least size of a set that would have none.          *)

LEMMA LeastNatural ==
    ASSUME NEW T \in SUBSET Nat, T # {}
    PROVE  \E n \in T : \A k \in T : n <= k
<1>1. \E n \in T : \A k \in T : <<k, n>> \notin OpToRel(<, Nat)
  BY WFMin, NatLessThanWellFounded, Zenon
<1>2. \E n \in T : \A k \in T : ~(k < n)
  BY <1>1, Zenon DEF OpToRel
<1> QED
  BY <1>2

LEMMA NewestPost ==
    ASSUME NEW P \in SUBSET Posts, P # {}
    PROVE  \E m \in P : \A n \in P : n <= m
<1> DEFINE Ages == {k \in Nat : MaxPosts - k \in P}
<1>1. Ages # {}
  <2>1. PICK m \in P : TRUE
    OBVIOUS
  <2>2. MaxPosts - m \in Nat /\ MaxPosts - (MaxPosts - m) = m
    BY BoundsAssumption DEF Posts
  <2>3. MaxPosts - m \in Ages
    BY <2>2
  <2> QED
    BY <2>3
<1>2. PICK a \in Ages : \A k \in Ages : a <= k
  BY <1>1, LeastNatural
<1>3. ASSUME NEW n \in P PROVE n <= MaxPosts - a
  <2>1. n \in Int /\ n <= MaxPosts /\ MaxPosts \in Nat /\ MaxPosts - (MaxPosts - n) = n
    BY BoundsAssumption DEF Posts
  <2>2. MaxPosts - n \in Ages
    BY <2>1
  <2>3. a <= MaxPosts - n /\ a \in Nat
    BY <1>2, <2>2
  <2> QED
    BY <2>1, <2>3
<1> QED
  BY <1>2, <1>3

LEMMA SetsOfPosts ==
    ASSUME NEW P \in SUBSET Posts
    PROVE  IsFiniteSet(P) /\ Cardinality(P) \in Nat
<1>1. IsFiniteSet(Posts)
  BY FS_Interval, BoundsAssumption DEF Posts
<1> QED
  BY <1>1, FS_Subset, FS_CardinalityType

(* s lists P, oldest first.                                                *)
Enumerates(s, P) ==
    /\ s \in [1 .. Cardinality(P) -> P]
    /\ {s[i] : i \in DOMAIN s} = P
    /\ \A i, j \in DOMAIN s : i < j => s[i] < s[j]

(* An enumeration goes on with a newer post.                               *)
LEMMA EnumerateNewer ==
    ASSUME NEW P \in SUBSET Posts, NEW m \in P, \A n \in P : n <= m,
           NEW t, Enumerates(t, P \ {m})
    PROVE  \E s : Enumerates(s, P)
<1> DEFINE k == Cardinality(P)
           s == [i \in 1 .. k |-> IF i = k THEN m ELSE t[i]]
<1>1. k \in Nat /\ Cardinality(P \ {m}) = k - 1 /\ k - 1 \in Nat
  BY SetsOfPosts, FS_RemoveElement
<1>2. t \in [1 .. k - 1 -> P \ {m}] /\ {t[i] : i \in 1 .. k - 1} = P \ {m}
  BY <1>1 DEF Enumerates
<1>3. \A i \in 1 .. k - 1 : s[i] = t[i]
  BY <1>1
<1>4. s[k] = m /\ k \in 1 .. k
  BY <1>1
<1>5. s \in [1 .. k -> P]
  BY <1>1, <1>2
<1>6. {s[i] : i \in DOMAIN s} = P
  <2>1. ASSUME NEW n \in P PROVE \E i \in 1 .. k : s[i] = n
    <3>1. CASE n = m
      BY <3>1, <1>4
    <3>2. CASE n # m
      <4>1. PICK i \in 1 .. k - 1 : t[i] = n
        BY <3>2, <1>2
      <4> QED
        BY <4>1, <1>1, <1>3
    <3> QED
      BY <3>1, <3>2
  <2> QED
    BY <2>1, <1>5
<1>7. ASSUME NEW i \in 1 .. k, NEW j \in 1 .. k, i < j PROVE s[i] < s[j]
  <2>1. i \in 1 .. k - 1 /\ s[i] = t[i] /\ t[i] \in P \ {m}
    BY <1>1, <1>2, <1>3, <1>7
  <2>2. CASE j = k
    <3>1. ASSUME NEW n \in P, n # m PROVE n < m
      <4>1. n \in Int /\ m \in Int /\ n <= m
        BY DEF Posts
      <4> QED
        BY <4>1, <3>1
    <3>2. t[i] < m
      BY <3>1, <2>1
    <3> QED
      BY <3>2, <2>1, <2>2, <1>4
  <2>3. CASE j # k
    <3>1. j \in 1 .. k - 1
      BY <2>3, <1>1
    <3> QED
      BY <3>1, <2>1, <1>2, <1>3, <1>7, <1>1 DEF Enumerates
  <2> QED
    BY <2>2, <2>3
<1>8. Enumerates(s, P)
  BY <1>5, <1>6, <1>7 DEF Enumerates
<1> QED
  BY <1>8

LEMMA EnumerationExists ==
    \A P \in SUBSET Posts : \E s : Enumerates(s, P)
<1> DEFINE Bad == {k \in Nat : \E P \in SUBSET Posts :
                       Cardinality(P) = k /\ ~ \E s : Enumerates(s, P)}
<1> SUFFICES ASSUME Bad # {} PROVE FALSE
  BY SetsOfPosts
<1>1. PICK k \in Bad : \A l \in Bad : k <= l
  BY LeastNatural
<1>2. PICK P \in SUBSET Posts : Cardinality(P) = k /\ ~ \E s : Enumerates(s, P)
  BY <1>1
<1>3. CASE P = {}
  <2>1. Cardinality(P) = 0
    BY <1>3, FS_EmptySet
  <2>2. Enumerates(<<>>, P)
    BY <1>3, <2>1 DEF Enumerates
  <2> QED
    BY <2>2, <1>2
<1>4. CASE P # {}
  <2>1. PICK m \in P : \A n \in P : n <= m
    BY <1>4, NewestPost
  <2>2. Cardinality(P \ {m}) = k - 1 /\ k - 1 \in Nat
    <3>1. IsFiniteSet(P) /\ Cardinality(P \ {m}) \in Nat
      BY SetsOfPosts
    <3>2. Cardinality(P \ {m}) = Cardinality(P) - 1
      BY <3>1, <2>1, FS_RemoveElement
    <3> QED
      BY <3>1, <3>2, <1>2
  <2>3. k - 1 \notin Bad
    BY <2>2, <1>1
  <2>4. \E t : Enumerates(t, P \ {m})
    BY <2>2, <2>3
  <2> QED
    BY <2>1, <2>4, <1>2, EnumerateNewer
<1> QED
  BY <1>3, <1>4

(* What a history is appended as: each of its posts once, oldest first.    *)
LEMMA OldestFirstEnumerates ==
    ASSUME NEW P \in SUBSET Posts
    PROVE  /\ OldestFirst(P) \in Seq(P)
           /\ {OldestFirst(P)[i] : i \in DOMAIN OldestFirst(P)} = P
           /\ \A i, j \in DOMAIN OldestFirst(P) : i < j => OldestFirst(P)[i] < OldestFirst(P)[j]
<1>1. PICK s : Enumerates(s, P)
  BY EnumerationExists
<1>2. Enumerates(OldestFirst(P), P)
  BY <1>1 DEF Enumerates, OldestFirst
<1>3. Cardinality(P) \in Nat
  BY SetsOfPosts
<1> QED
  BY <1>2, <1>3 DEF Enumerates

-----------------------------------------------------------------------------
(* The message list.                                                       *)

(* The ids kept to recognise repeats are those of the list, and no post is *)
(* listed twice.                                                           *)
ListOK ==
    /\ rendered \subseteq Posts
    /\ list \in Seq(Posts)
    /\ rendered = Listed
    /\ NoRepeats

(* What is appended is neither listed already nor repeated in itself.      *)
LEMMA RenderListOK ==
    ASSUME ListOK, NEW P \in SUBSET Posts, Render(P)
    PROVE  ListOK' /\ Listed' = Listed \cup P
<1> DEFINE new == OldestFirst(Unseen(P))
<1>1. Unseen(P) \in SUBSET Posts /\ Unseen(P) \cap Listed = {} /\ Listed \cup Unseen(P) = Listed \cup P
  BY DEF Unseen, ListOK
<1>2. /\ new \in Seq(Posts) /\ {new[i] : i \in DOMAIN new} = Unseen(P)
      /\ \A i, j \in DOMAIN new : i < j => new[i] < new[j]
  BY <1>1, OldestFirstEnumerates
<1> HIDE DEF new
<1>3. /\ list' = list \o new /\ list' \in Seq(Posts) /\ list \in Seq(Posts)
      /\ Len(list) \in Nat /\ Len(new) \in Nat
      /\ DOMAIN list = 1 .. Len(list) /\ DOMAIN new = 1 .. Len(new)
      /\ DOMAIN list' = 1 .. Len(list) + Len(new)
      /\ \A i \in DOMAIN list : list'[i] = list[i]
      /\ \A i \in DOMAIN new : list'[Len(list) + i] = new[i]
  <2>1. list' = list \o new
    BY DEF Render, new
  <2> QED
    BY <2>1, <1>2 DEF ListOK
<1>4. \A i \in DOMAIN list' : i \in DOMAIN list \/ (i - Len(list) \in DOMAIN new /\ Len(list) + (i - Len(list)) = i)
  BY <1>3
<1>5. Listed' = Listed \cup {new[i] : i \in DOMAIN new}
  <2>1. ASSUME NEW m \in Listed' PROVE m \in Listed \cup {new[i] : i \in DOMAIN new}
    <3>1. PICK i \in DOMAIN list' : list'[i] = m
      BY DEF Listed
    <3>2. CASE i \in DOMAIN list
      BY <3>1, <3>2, <1>3 DEF Listed
    <3>3. CASE i - Len(list) \in DOMAIN new /\ Len(list) + (i - Len(list)) = i
      BY <3>1, <3>3, <1>3
    <3> QED
      BY <3>2, <3>3, <1>4
  <2>2. ASSUME NEW i \in DOMAIN new PROVE new[i] \in Listed'
    <3>1. Len(list) + i \in DOMAIN list'
      BY <1>3
    <3> QED
      BY <3>1, <1>3 DEF Listed
  <2>3. ASSUME NEW m \in Listed PROVE m \in Listed'
    <3>1. PICK i \in DOMAIN list : list[i] = m
      BY DEF Listed
    <3>2. i \in DOMAIN list' /\ list'[i] = m
      BY <3>1, <1>3
    <3> QED
      BY <3>2 DEF Listed
  <2> QED
    BY <2>1, <2>2, <2>3
<1>6. Listed' = Listed \cup P
  BY <1>1, <1>2, <1>5
<1>7. ASSUME NEW i \in DOMAIN list', NEW j \in DOMAIN list', i < j
      PROVE  list'[i] # list'[j]
  <2>1. CASE i \in DOMAIN list /\ j \in DOMAIN list
    BY <2>1, <1>3, <1>7 DEF ListOK, NoRepeats
  <2>2. CASE i \in DOMAIN list /\ j \notin DOMAIN list
    <3>1. list'[i] \in Listed
      BY <2>2, <1>3 DEF Listed
    <3>2. list'[j] \in Unseen(P)
      <4>1. j - Len(list) \in DOMAIN new /\ list'[j] = new[j - Len(list)]
        BY <2>2, <1>3, <1>4
      <4> QED
        BY <4>1, <1>2
    <3> QED
      BY <3>1, <3>2, <1>1
  <2>3. CASE i \notin DOMAIN list
    <3> DEFINE a == i - Len(list)
               b == j - Len(list)
    <3>1. j \notin DOMAIN list
      BY <2>3, <1>3, <1>7
    <3>2. a \in DOMAIN new /\ b \in DOMAIN new /\ a < b /\ list'[i] = new[a] /\ list'[j] = new[b]
      BY <3>1, <2>3, <1>3, <1>4, <1>7
    <3> HIDE DEF a, b
    <3>3. new[a] < new[b]
      BY <3>2, <1>2
    <3>4. new[a] \in Posts
      BY <3>2, <1>2
    <3>5. new[a] # new[b]
      BY <3>3, <3>4 DEF Posts
    <3> QED
      BY <3>2, <3>5
  <2> QED
    BY <2>1, <2>2, <2>3
<1>8. NoRepeats'
  <2> SUFFICES ASSUME NEW i \in DOMAIN list', NEW j \in DOMAIN list', list'[i] = list'[j]
               PROVE  i = j
    BY DEF NoRepeats
  <2>1. ~(i < j) /\ ~(j < i)
    BY <1>7
  <2> QED
    BY <2>1, <1>3
<1> QED
  BY <1>3, <1>6, <1>8 DEF ListOK, Render

LEMMA EmptyListOK ==
    ASSUME list' = <<>>, rendered' = {}
    PROVE  ListOK'
  BY DEF ListOK, NoRepeats, Listed

LEMMA SameListOK ==
    ASSUME ListOK, UNCHANGED <<list, rendered>>
    PROVE  ListOK' /\ Listed' = Listed
  BY DEF ListOK, NoRepeats, Listed

(* The window handles a parcel: a line it shows is on the list afterwards. *)
LEMMA DeliverListOK ==
    ASSUME Listening, ListOK, Deliver
    PROVE  /\ ListOK' /\ Listed \subseteq Listed'
           /\ Head(wire).kind \in {"live", "history"} => Head(wire).posts \subseteq Listed'
<1>1. wire \in Seq(Parcels) /\ wire # <<>> /\ Head(wire) \in Parcels
  BY DEF Deliver, Listening, HubTypeOK
<1>2. Head(wire).posts \in SUBSET Posts
  BY <1>1 DEF Parcels
<1>3. CASE Head(wire).kind \in {"live", "history"}
  <2>1. Render(Head(wire).posts)
    BY <1>3 DEF Deliver
  <2> QED
    BY <2>1, <1>2, RenderListOK
<1>4. CASE Head(wire).kind \notin {"live", "history"}
  BY <1>4, SameListOK DEF Deliver
<1> QED
  BY <1>3, <1>4

LEMMA StepListOK == Listening /\ ListOK /\ [Next]_vars => ListOK'
<1> SUFFICES ASSUME Listening, ListOK, [Next]_vars PROVE ListOK'
  OBVIOUS
<1>1. CASE Deliver
  BY <1>1, DeliverListOK
<1>2. CASE \E room \in Rooms : SwitchRoom(room)
  BY <1>2, EmptyListOK DEF SwitchRoom, Clear
<1>3. CASE UNCHANGED <<list, rendered>>
  BY <1>3, SameListOK
<1> QED
  BY <1>1, <1>2, <1>3 DEF Next, PostStep, OthersPost, Commit, Refuse, Broadcast, BroadcastFails,
     HubStep, BeginSend, EndSend, JoinLeave, JoinEnter, JoinRead, JoinReply, JoinFails, EndJoin,
     ConnectionStep, Connect, GiveUp, Send, Drop, vars, windowVars

-----------------------------------------------------------------------------
(* Posts only ever become more.                                            *)

PostsKept == Stored \subseteq Stored' /\ \A n \in Stored : roomOf'[n] = roomOf[n]

LEMMA StampKeepsPosts ==
    ASSUME Listening, NEW m \in Posts, NEW room, Stamp(m, room)
    PROVE  PostsKept /\ Stored' = Stored
  BY DEF Stamp, PostsKept, Stored, Listening, HubTypeOK

LEMMA PostStepKeepsPosts ==
    ASSUME Listening, NEW m \in Posts, PostStep(m)
    PROVE  PostsKept
  BY DEF PostStep, Commit, Refuse, Broadcast, BroadcastFails, PostsKept, Stored, Listening, HubTypeOK

LEMMA SamePostsKept == UNCHANGED postVars => PostsKept
  BY DEF postVars, PostsKept, Stored

(* What the history limit has pushed out stays out.                        *)
LEMMA PushedOutForGood ==
    ASSUME PostsKept, NEW m \in Stored, PushedOut(m)
    PROVE  PushedOut(m)'
<1>1. Newer(m) \subseteq Newer(m)' /\ Newer(m)' \in SUBSET Posts
  BY DEF Newer, PostsKept, Stored
<1>2. Cardinality(Newer(m)) <= Cardinality(Newer(m)') /\ Cardinality(Newer(m)') \in Nat
      /\ Cardinality(Newer(m)) \in Nat
  BY <1>1, SetsOfPosts, FS_Subset
<1> QED
  BY <1>2, BoundsAssumption DEF PushedOut

-----------------------------------------------------------------------------
(* The wire keeps the order of what is sent.                               *)

LEMMA WireGrows ==
    ASSUME wire \in Seq(Parcels), NEW p \in Parcels, wire' = Append(wire, p), UNCHANGED status
    PROVE  /\ \A m : OnItsWay(m) => OnItsWay(m)'
           /\ \A m \in p.posts : p.kind \in {"live", "history"} => OnItsWay(m)'
           /\ p.kind # "history" /\ EndsUnjoined => EndsUnjoined'
           /\ p.kind = "joinFailed" => EndsUnjoined'
<1>1. /\ Len(wire) \in Nat /\ Len(wire') = Len(wire) + 1
      /\ DOMAIN wire = 1 .. Len(wire) /\ DOMAIN wire' = 1 .. Len(wire) + 1
      /\ \A i \in DOMAIN wire : wire'[i] = wire[i]
      /\ wire'[Len(wire) + 1] = p
  OBVIOUS
<1>2. DOMAIN wire \subseteq DOMAIN wire' /\ Len(wire) + 1 \in DOMAIN wire'
      /\ \A j \in DOMAIN wire' : j \in DOMAIN wire \/ j = Len(wire) + 1
  BY <1>1
<1>3. \A m : OnItsWay(m) => OnItsWay(m)'
  BY <1>1, <1>2 DEF OnItsWay
<1>4. \A m \in p.posts : p.kind \in {"live", "history"} => OnItsWay(m)'
  BY <1>1, <1>2 DEF OnItsWay
<1>5. ASSUME p.kind # "history", EndsUnjoined PROVE EndsUnjoined'
  BY <1>1, <1>2, <1>5 DEF EndsUnjoined
<1>6. ASSUME p.kind = "joinFailed" PROVE EndsUnjoined'
  <2>1. \A j \in DOMAIN wire' : ~(j > Len(wire) + 1)
    BY <1>1
  <2> QED
    BY <1>1, <1>2, <1>6, <2>1 DEF EndsUnjoined
<1> QED
  BY <1>3, <1>4, <1>5, <1>6

LEMMA WireDelivered ==
    ASSUME Listening, ListOK, Deliver
    PROVE  /\ \A m : OnItsWay(m) => OnItsWay(m)' \/ m \in Listed'
           /\ EndsUnjoined => EndsUnjoined'
<1>1. /\ wire \in Seq(Parcels) /\ wire # <<>> /\ wire' = Tail(wire) /\ Head(wire) = wire[1]
      /\ Len(wire) \in Nat /\ DOMAIN wire = 1 .. Len(wire) /\ 1 \in DOMAIN wire
      /\ DOMAIN wire' = 1 .. Len(wire) - 1
      /\ \A i \in DOMAIN wire' : i + 1 \in DOMAIN wire /\ wire'[i] = wire[i + 1]
  BY DEF Deliver, Listening, HubTypeOK
<1>2. \A i \in DOMAIN wire : i # 1 => i - 1 \in DOMAIN wire' /\ wire'[i - 1] = wire[i]
  BY <1>1
<1>3. ASSUME NEW m, OnItsWay(m) PROVE OnItsWay(m)' \/ m \in Listed'
  <2>1. PICK i \in DOMAIN wire : wire[i].kind \in {"live", "history"} /\ m \in wire[i].posts
    BY <1>3 DEF OnItsWay
  <2>2. CASE i = 1
    BY <2>1, <2>2, <1>1, DeliverListOK
  <2>3. CASE i # 1
    BY <2>1, <2>3, <1>2 DEF OnItsWay
  <2> QED
    BY <2>2, <2>3
<1>4. ASSUME EndsUnjoined PROVE EndsUnjoined'
  <2>1. CASE status # "Connected" /\ \A i \in DOMAIN wire : wire[i].kind # "history"
    <3>1. status' # "Connected"
      BY <2>1, <1>1 DEF Deliver
    <3> QED
      BY <3>1, <2>1, <1>1 DEF EndsUnjoined
  <2>2. ASSUME NEW i \in DOMAIN wire, wire[i].kind = "joinFailed",
               \A j \in DOMAIN wire : j > i => wire[j].kind # "history"
        PROVE  EndsUnjoined'
    <3>1. CASE i = 1
      <4>1. status' = "NotJoined"
        BY <2>2, <3>1, <1>1 DEF Deliver
      <4>2. ASSUME NEW j \in DOMAIN wire' PROVE wire'[j].kind # "history"
        <5>1. j + 1 > i
          BY <3>1, <1>1
        <5> QED
          BY <5>1, <1>1, <2>2
      <4> QED
        BY <4>1, <4>2 DEF EndsUnjoined
    <3>2. CASE i # 1
      <4>1. i - 1 \in DOMAIN wire' /\ wire'[i - 1].kind = "joinFailed"
        BY <3>2, <1>2, <2>2
      <4>2. ASSUME NEW j \in DOMAIN wire', j > i - 1 PROVE wire'[j].kind # "history"
        <5>1. j + 1 > i
          BY <4>2, <1>1
        <5> QED
          BY <5>1, <1>1, <2>2
      <4> QED
        BY <4>1, <4>2 DEF EndsUnjoined
    <3> QED
      BY <3>1, <3>2
  <2> QED
    BY <1>4, <2>1, <2>2 DEF EndsUnjoined
<1> QED
  BY <1>3, <1>4

-----------------------------------------------------------------------------
(* The joins still to be run.                                              *)

LEMMA JoinsCalled ==
    ASSUME calls \in Seq(Calls), NEW c \in Calls, calls' = Append(calls, c), UNCHANGED step
    PROVE  /\ JoinAhead => JoinAhead'
           /\ c.op = "join" /\ (calls # <<>> \/ step # "read") => JoinAhead'
<1>1. /\ Len(calls) \in Nat /\ DOMAIN calls = 1 .. Len(calls)
      /\ DOMAIN calls' = 1 .. Len(calls) + 1
      /\ \A i \in DOMAIN calls : calls'[i] = calls[i]
      /\ calls'[Len(calls) + 1] = c
      /\ calls # <<>> => Len(calls) + 1 > 1
  OBVIOUS
<1>2. DOMAIN calls \subseteq DOMAIN calls' /\ Len(calls) + 1 \in DOMAIN calls'
  BY <1>1
<1> QED
  BY <1>1, <1>2 DEF JoinAhead

(* The first call ends: what stood behind it is still to come.             *)
LEMMA JoinsEnded ==
    ASSUME calls \in Seq(Calls), calls # <<>>, calls' = Tail(calls), step' = "called", JoinAhead,
           step = "read" \/ Head(calls).op # "join"
    PROVE  JoinAhead'
<1>1. /\ Len(calls) \in Nat /\ DOMAIN calls = 1 .. Len(calls) /\ Head(calls) = calls[1]
      /\ DOMAIN calls' = 1 .. Len(calls) - 1
      /\ \A i \in DOMAIN calls' : calls'[i] = calls[i + 1]
  OBVIOUS
<1>2. PICK i \in DOMAIN calls : calls[i].op = "join" /\ (i > 1 \/ step # "read")
  BY DEF JoinAhead
<1>3. i > 1
  BY <1>1, <1>2
<1>4. i - 1 \in DOMAIN calls' /\ calls'[i - 1] = calls[i]
  BY <1>1, <1>3
<1> QED
  BY <1>2, <1>4 DEF JoinAhead

(* While the last join has been read, the connection is in the group of    *)
(* the room on the screen.                                                 *)
LEMMA GroupWhenJoined ==
    ASSUME Listening, JoinsRead
    PROVE  group = {shown}
<1> USE DEF Listening
<1>1. conn = "up" /\ ~JoinAhead /\ Destination /\ Membership /\ shown \in Rooms /\ shown # None
  BY RoomsAssumption DEF JoinsRead, Subscription, HubTypeOK
<1>2. CASE step = "read"
  <2>1. calls \in Seq(Calls) /\ calls # <<>> /\ Head(calls) = calls[1] /\ 1 \in DOMAIN calls
        /\ calls[1].op = "join" /\ current = Head(calls).room
    BY <1>1, <1>2 DEF Membership, Running, HubTypeOK
  <2>2. \A j \in DOMAIN calls : j > 1 => calls[j].op # "join"
    BY <1>1 DEF JoinAhead
  <2>3. calls[1].room = shown
    BY <2>1, <2>2, <1>1 DEF Destination, LastJoin
  <2> QED
    BY <2>1, <2>3, <1>1, <1>2 DEF Membership
<1>3. CASE step # "read"
  <2>1. \A j \in DOMAIN calls : calls[j].op # "join"
    BY <1>1, <1>3 DEF JoinAhead
  <2>2. current = shown
    BY <2>1, <1>1 DEF Destination
  <2>3. step # "left"
    <3> SUFFICES ASSUME step = "left" PROVE FALSE
      OBVIOUS
    <3>1. calls \in Seq(Calls) /\ calls # <<>> /\ Head(calls).op = "join"
      BY <1>1 DEF Membership, Running, HubTypeOK
    <3>2. Head(calls) = calls[1] /\ 1 \in DOMAIN calls
      BY <3>1
    <3> QED
      BY <3>1, <3>2, <2>1
  <2> QED
    BY <2>2, <2>3, <1>1 DEF Membership
<1> QED
  BY <1>2, <1>3

-----------------------------------------------------------------------------
(* One post of the room on the screen, and every step of the window, the   *)
(* hub and the other participants.                                         *)

(* The places m can be in, one by one.                                     *)
LEMMA ReachesKept ==
    ASSUME PostsKept, NEW m \in Stored, Reaches(m), Listed \subseteq Listed',
           OnItsWay(m) => OnItsWay(m)' \/ m \in Listed',
           IF step = "read"
           THEN m \in history => OnItsWay(m)' \/ (step' = "read" /\ m \in history')
           ELSE step' # "read" /\ (EndsUnjoined => EndsUnjoined')
    PROVE  Reaches(m)'
  BY PushedOutForGood DEF Reaches

(* A step that leaves the connection's own affairs alone, and adds at most *)
(* something other than a reply to a join to the wire.                     *)
LEMMA UnrelatedFollows ==
    ASSUME Listening, PostsKept, NEW m \in Stored, Follows(m),
           UNCHANGED <<conn, list, status>>,
           JoinAhead => JoinAhead',
           step = "read" => step' = "read" /\ history' = history,
           step # "read" => step' # "read",
           \/ UNCHANGED wire
           \/ \E p \in Parcels : p.kind # "history" /\ wire' = Append(wire, p)
    PROVE  Follows(m)'
<1> SUFFICES ASSUME JoinsRead' PROVE Reaches(m)'
  BY DEF Follows
<1>1. Reaches(m)
  BY DEF Follows, JoinsRead
<1>2. /\ OnItsWay(m) => OnItsWay(m)'
      /\ EndsUnjoined => EndsUnjoined'
  <2>1. CASE UNCHANGED wire
    BY <2>1 DEF OnItsWay, EndsUnjoined
  <2>2. CASE \E p \in Parcels : p.kind # "history" /\ wire' = Append(wire, p)
    BY <2>2, WireGrows DEF Listening, HubTypeOK
  <2> QED
    BY <2>1, <2>2
<1>3. Listed' = Listed
  BY DEF Listed
<1> QED
  BY <1>1, <1>2, <1>3, ReachesKept

LEMMA OthersPostFollows ==
    ASSUME Listening, NEW m \in Stored, Follows(m), NEW n \in Posts, NEW room, OthersPost(n, room)
    PROVE  Follows(m)'
<1>1. PostsKept
  BY StampKeepsPosts DEF OthersPost
<1> QED
  BY <1>1, UnrelatedFollows DEF OthersPost, hubVars, windowVars, JoinAhead

LEMMA PostStepFollows ==
    ASSUME Listening, NEW m \in Stored, Follows(m), NEW n \in Posts, PostStep(n)
    PROVE  Follows(m)'
<1>1. PostsKept
  BY PostStepKeepsPosts
<1>2. UNCHANGED <<hubVars, conn, windowVars>>
  BY DEF PostStep, Commit, Refuse, Broadcast, BroadcastFails
<1>3. \/ UNCHANGED wire
      \/ \E p \in Parcels : p.kind # "history" /\ wire' = Append(wire, p)
  <2>1. Parcel("live", {n}) \in Parcels /\ Parcel("live", {n}).kind # "history"
    BY ParcelsAreParcels DEF Parcel
  <2> QED
    BY <2>1 DEF PostStep, Commit, Refuse, Broadcast, BroadcastFails, Push
<1> QED
  BY <1>1, <1>2, <1>3, UnrelatedFollows DEF hubVars, windowVars, JoinAhead

(* A broadcast goes to the group the connection is in.                     *)
LEMMA BroadcastReaches ==
    ASSUME Listening, NEW m \in Posts, Broadcast(m), roomOf[m] = shown
    PROVE  Follows(m)'
<1> SUFFICES ASSUME JoinsRead' PROVE Reaches(m)'
  BY DEF Follows
<1>1. JoinsRead /\ wire \in Seq(Parcels) /\ UNCHANGED status
  BY DEF Broadcast, hubVars, windowVars, JoinsRead, JoinAhead, Listening, HubTypeOK
<1>2. roomOf[m] \in group
  BY <1>1, GroupWhenJoined
<1>3. wire' = Append(wire, Parcel("live", {m}))
  BY <1>2 DEF Broadcast, Push
<1>4. Parcel("live", {m}) \in Parcels /\ m \in Parcel("live", {m}).posts
      /\ Parcel("live", {m}).kind = "live"
  BY ParcelsAreParcels DEF Parcel
<1>5. OnItsWay(m)'
  BY <1>1, <1>3, <1>4, WireGrows
<1> QED
  BY <1>5 DEF Reaches

LEMMA BeginSendFollows ==
    ASSUME Listening, NEW m \in Stored, Follows(m), NEW n \in Posts, BeginSend(n)
    PROVE  Follows(m)'
<1>1. PostsKept
  BY StampKeepsPosts DEF BeginSend
<1>2. calls \in Seq(Calls) /\ calls # <<>> /\ 1 \in DOMAIN calls /\ calls' = [calls EXCEPT ![1].post = n]
  BY DEF BeginSend, Running, Listening, HubTypeOK
<1>3. DOMAIN calls' = DOMAIN calls /\ \A i \in DOMAIN calls : calls'[i].op = calls[i].op
  <2>1. calls[1] \in Calls
    BY <1>2
  <2>2. calls'[1] = [calls[1] EXCEPT !.post = n]
    BY <1>2
  <2> QED
    BY <1>2, <2>1, <2>2 DEF Calls
<1>4. JoinAhead => JoinAhead'
  BY <1>3 DEF JoinAhead, BeginSend
<1> QED
  BY <1>1, <1>4, UnrelatedFollows DEF BeginSend, windowVars

LEMMA EndSendFollows ==
    ASSUME Listening, NEW m \in Stored, Follows(m), EndSend
    PROVE  Follows(m)'
<1>1. PostsKept
  BY SamePostsKept DEF EndSend
<1>2. calls \in Seq(Calls) /\ calls # <<>> /\ Head(calls).op # "join" /\ calls' = Tail(calls)
      /\ step = "called" /\ UNCHANGED <<step, history, conn, list, status>>
  BY DEF EndSend, Running, Listening, HubTypeOK, Subscription, Membership, windowVars
<1>3. JoinAhead => JoinAhead'
  BY <1>2, JoinsEnded
<1>4. \E p \in Parcels : p.kind # "history" /\ wire' = Append(wire, p)
  <2>1. Head(calls).post \in Posts
    BY <1>2, RunningCall, BoundsAssumption DEF EndSend, Posts
  <2>2. \A kind \in {"sent", "sendFailed"} : /\ Parcel(kind, {Head(calls).post}) \in Parcels
                                            /\ Parcel(kind, {Head(calls).post}).kind # "history"
    BY <2>1, ParcelsAreParcels DEF Parcel
  <2> QED
    BY <2>2 DEF EndSend
<1> QED
  BY <1>1, <1>2, <1>3, <1>4, UnrelatedFollows

LEMMA SendFollows ==
    ASSUME Listening, NEW m \in Stored, Follows(m), Send
    PROVE  Follows(m)'
<1>1. PostsKept
  BY SamePostsKept DEF Send
<1>2. JoinAhead => JoinAhead'
  <2>1. shown \in Rooms /\ calls \in Seq(Calls)
    BY DEF Listening, HubTypeOK
  <2> QED
    BY <2>1, CallsAreCalls, JoinsCalled DEF Send
<1> QED
  BY <1>1, <1>2, UnrelatedFollows DEF Send, windowVars

(* JoinRoom, up to the history: the join is still to be read.              *)
LEMMA JoinBeginsFollows ==
    ASSUME Listening, NEW m, JoinLeave \/ JoinEnter
    PROVE  Follows(m)'
<1>1. calls \in Seq(Calls) /\ calls # <<>> /\ Head(calls).op = "join" /\ UNCHANGED calls /\ step' # "read"
  BY DEF JoinLeave, JoinEnter, Running, Listening, HubTypeOK
<1>2. 1 \in DOMAIN calls' /\ calls'[1].op = "join"
  BY <1>1
<1> QED
  BY <1>1, <1>2 DEF Follows, JoinsRead, JoinAhead

(* The history of the last join holds every stored post of the room that   *)
(* newer ones have not pushed out.                                         *)
LEMMA JoinReadReaches ==
    ASSUME Listening, NEW m \in Stored, roomOf[m] = shown, JoinRead
    PROVE  Follows(m)'
<1> SUFFICES ASSUME JoinsRead' PROVE Reaches(m)'
  BY DEF Follows
<1>1. calls \in Seq(Calls) /\ calls # <<>> /\ Head(calls) = calls[1] /\ 1 \in DOMAIN calls
      /\ calls[1].op = "join" /\ UNCHANGED calls /\ step' = "read" /\ UNCHANGED conn
  BY DEF JoinRead, Running, Listening, HubTypeOK
<1>2. \A j \in DOMAIN calls : j > 1 => calls[j].op # "join"
  BY <1>1 DEF JoinsRead, JoinAhead
<1>3. Head(calls).room = shown
  BY <1>1, <1>2 DEF JoinsRead, Listening, Subscription, Destination, LastJoin
<1>4. history' = Latest(shown)
  BY <1>3 DEF JoinRead
<1> DEFINE S == {n \in Stored : roomOf[n] = shown}
<1>5. {n \in S : n > m} = Newer(m)
  BY DEF Newer
<1>6. Newer(m) \in SUBSET Posts
  BY DEF Newer, Stored
<1>7. Cardinality(Newer(m)) \in Nat
  BY <1>6, SetsOfPosts
<1>8. m \in history' \/ PushedOut(m)
  BY <1>4, <1>5, <1>7, BoundsAssumption DEF Latest, PushedOut
<1>9. PushedOut(m)' <=> PushedOut(m)
  BY DEF JoinRead, postVars, PushedOut, Newer, Stored
<1> QED
  BY <1>1, <1>8, <1>9 DEF Reaches

LEMMA JoinReplyFollows ==
    ASSUME Listening, NEW m \in Stored, Follows(m), JoinReply
    PROVE  Follows(m)'
<1> SUFFICES ASSUME JoinsRead' PROVE Reaches(m)'
  BY DEF Follows
<1>1. PostsKept
  BY SamePostsKept DEF JoinReply, EndJoin
<1>2. calls \in Seq(Calls) /\ calls # <<>> /\ calls' = Tail(calls) /\ step = "read" /\ step' = "called"
      /\ wire \in Seq(Parcels) /\ history \in SUBSET Posts
      /\ UNCHANGED <<conn, list, status>>
  BY DEF JoinReply, EndJoin, Running, Listening, HubTypeOK, windowVars
<1>3. Reaches(m)
  BY <1>2, JoinsEnded DEF Follows, JoinsRead
<1>4. /\ wire' = Append(wire, Parcel("history", history)) /\ Parcel("history", history) \in Parcels
      /\ Parcel("history", history).kind = "history" /\ Parcel("history", history).posts = history
  BY <1>2, ParcelsAreParcels DEF JoinReply, EndJoin, Parcel
<1>5. (OnItsWay(m) => OnItsWay(m)') /\ (m \in history => OnItsWay(m)')
  BY <1>2, <1>4, WireGrows
<1>6. Listed' = Listed
  BY <1>2 DEF Listed
<1> QED
  BY <1>1, <1>2, <1>3, <1>5, <1>6, ReachesKept

(* A join that fails is one the window will be told about.                 *)
LEMMA JoinFailsFollows ==
    ASSUME Listening, NEW m, JoinFails
    PROVE  Follows(m)'
<1>1. wire \in Seq(Parcels) /\ wire' = Append(wire, Parcel("joinFailed", {})) /\ step' = "called"
      /\ UNCHANGED status
  BY DEF JoinFails, EndJoin, Listening, HubTypeOK, windowVars
<1>2. Parcel("joinFailed", {}) \in Parcels /\ Parcel("joinFailed", {}).kind = "joinFailed"
  BY ParcelsAreParcels DEF Parcel
<1>3. EndsUnjoined'
  BY <1>1, <1>2, WireGrows
<1> QED
  BY <1>1, <1>3 DEF Follows, Reaches

LEMMA DeliverFollows ==
    ASSUME Listening, ListOK, NEW m \in Stored, Follows(m), Deliver
    PROVE  Follows(m)'
<1> SUFFICES ASSUME JoinsRead' PROVE Reaches(m)'
  BY DEF Follows
<1>1. PostsKept /\ UNCHANGED <<hubVars, conn>>
  BY SamePostsKept DEF Deliver
<1>2. Reaches(m)
  BY <1>1 DEF Follows, JoinsRead, JoinAhead, hubVars
<1> QED
  BY <1>1, <1>2, WireDelivered, DeliverListOK, ReachesKept DEF hubVars

(* A switch asks to join; so does a new connection.                        *)
LEMMA SwitchFollows ==
    ASSUME Listening, NEW m, NEW room \in Rooms, SwitchRoom(room)
    PROVE  Follows(m)'
<1>1. CASE conn = "up"
  <2>1. calls \in Seq(Calls) /\ calls' = Append(calls, JoinCall(room)) /\ JoinCall(room) \in Calls
        /\ JoinCall(room).op = "join" /\ UNCHANGED step
    BY <1>1, CallsAreCalls DEF SwitchRoom, Listening, HubTypeOK, JoinCall
  <2>2. calls # <<>> \/ step # "read"
    BY DEF Listening, Subscription, Membership, Running
  <2>3. JoinAhead'
    BY <2>1, <2>2, JoinsCalled
  <2> QED
    BY <2>3 DEF Follows, JoinsRead
<1>2. CASE conn # "up"
  BY <1>2 DEF SwitchRoom, Follows, JoinsRead
<1> QED
  BY <1>1, <1>2

LEMMA ConnectFollows == ASSUME Listening, NEW m, Connect PROVE Follows(m)'
<1>1. calls' = <<JoinCall(shown)>> /\ step' = "called"
  BY DEF Connect, Listening, HubTypeOK, Subscription, Membership, Running
<1>2. 1 \in DOMAIN calls' /\ calls'[1].op = "join"
  BY <1>1 DEF JoinCall
<1> QED
  BY <1>1, <1>2 DEF Follows, JoinsRead, JoinAhead

LEMMA DisconnectFollows == ASSUME NEW m, Drop \/ GiveUp PROVE Follows(m)'
  BY DEF Drop, GiveUp, Follows, JoinsRead

-----------------------------------------------------------------------------
(* The invariant.                                                          *)

(* The rest of the window's state keeps its type.                          *)
Labels ==
    /\ status \in {"Connecting", "Joining", "Connected", "NotJoined", "Disconnected"}
    /\ notSent \subseteq Posts
    /\ missed \subseteq Posts
    /\ switches \in 0 .. MaxSwitches
    /\ drops \in 0 .. MaxDrops

LEMMA StepLabels == Listening /\ Labels /\ [Next]_vars => Labels'
<1> SUFFICES ASSUME Listening, Labels, [Next]_vars PROVE Labels'
  OBVIOUS
<1> USE DEF Labels
<1>1. CASE UNCHANGED <<windowVars, missed, bounds>>
  BY <1>1 DEF windowVars, bounds
<1>2. CASE \E m \in Posts : Broadcast(m)
  BY <1>2 DEF Broadcast, windowVars, bounds
<1>3. CASE Deliver
  <2>1. wire \in Seq(Parcels) /\ wire # <<>>
    BY <1>3 DEF Deliver, Listening, HubTypeOK
  <2>2. Head(wire).posts \in SUBSET Posts
    <3>1. Head(wire) \in Parcels
      BY <2>1
    <3> QED
      BY <3>1 DEF Parcels
  <2>3. status' \in {"Connected", "NotJoined", status}
    BY <1>3 DEF Deliver
  <2>4. notSent' \subseteq notSent \cup Head(wire).posts /\ UNCHANGED <<missed, bounds>>
    BY <1>3 DEF Deliver
  <2> QED
    BY <2>2, <2>3, <2>4 DEF bounds
<1>4. ASSUME NEW room \in Rooms, SwitchRoom(room) PROVE Labels'
  <2>1. switches' = switches + 1 /\ switches < MaxSwitches
    BY <1>4 DEF SwitchRoom, Clear
  <2> QED
    BY <1>4, <2>1, BoundsAssumption DEF SwitchRoom, Clear
<1>5. CASE Drop
  <2>1. SendsPending \subseteq Posts /\ InFlight \subseteq Posts
    BY DEF SendsPending, InFlight
  <2>2. drops' = drops + 1 /\ drops < MaxDrops
    BY <1>5 DEF Drop
  <2> QED
    BY <1>5, <2>1, <2>2, BoundsAssumption DEF Drop
<1>6. CASE GiveUp
  BY <1>6 DEF GiveUp, bounds
<1> QED
  BY <1>1, <1>2, <1>3, <1>4, <1>5, <1>6 DEF Next, PostStep, OthersPost, Commit, Refuse,
     BroadcastFails, HubStep, BeginSend, EndSend, JoinLeave, JoinEnter, JoinRead, JoinReply,
     JoinFails, EndJoin, ConnectionStep, Connect, Send, vars

(* Everything IInv says, in the parts it is proved by.                     *)
LEMMA PartsOfIInv == IInv /\ NoRepeats <=> Listening /\ ListOK /\ Labels /\ NothingSlips
  BY DEF IInv, TypeOK, Listening, ListOK, Labels

LEMMA StepFollows ==
    ASSUME Listening, ListOK, [Next]_vars, NEW m \in Stored, roomOf[m] = shown, Follows(m)
    PROVE  Follows(m)'
<1>1. CASE UNCHANGED vars
  BY <1>1 DEF vars, postVars, hubVars, windowVars, Follows, JoinsRead, JoinAhead, Reaches,
     Listed, OnItsWay, PushedOut, Newer, Stored, EndsUnjoined
<1>2. CASE Next
  BY <1>2, OthersPostFollows, PostStepFollows, BeginSendFollows, EndSendFollows, JoinBeginsFollows,
     JoinReadReaches, JoinReplyFollows, JoinFailsFollows, ConnectFollows, DisconnectFollows,
     DeliverFollows, SendFollows, SwitchFollows
  DEF Next, HubStep, ConnectionStep
<1> QED
  BY <1>1, <1>2

(* A post's way: from stamped to stored to its end, in the room it was     *)
(* stamped for.                                                            *)
PostsAdvance ==
    \A m \in Posts :
        /\ post[m] # "none" => post'[m] # "none" /\ roomOf'[m] = roomOf[m]
        /\ post[m] \in {"announced", "unannounced", "refused"} => post'[m] = post[m]
        /\ post[m] # "announced" /\ post'[m] = "announced" => Broadcast(m)
        /\ m \in Stored => m \in Stored'
        /\ m \notin Stored /\ m \in Stored' => Commit(m)

LEMMA StepAdvancesPosts == Listening /\ [Next]_vars => PostsAdvance
<1> SUFFICES ASSUME Listening, [Next]_vars PROVE PostsAdvance
  OBVIOUS
<1> USE DEF Listening, HubTypeOK, PostsAdvance, Stored
<1>1. ASSUME NEW n \in Posts, NEW room, Stamp(n, room) PROVE PostsAdvance
  BY <1>1 DEF Stamp
<1>2. ASSUME NEW n \in Posts, PostStep(n) PROVE PostsAdvance
  BY <1>2 DEF PostStep, Commit, Refuse, Broadcast, BroadcastFails
<1>3. CASE UNCHANGED postVars
  BY <1>3 DEF postVars
<1> QED
  BY <1>1, <1>2, <1>3 DEF Next, OthersPost, HubStep, BeginSend, EndSend, JoinLeave, JoinEnter,
     JoinRead, JoinReply, JoinFails, EndJoin, ConnectionStep, Connect, GiveUp, Deliver, Send,
     Drop, SwitchRoom, vars

(* A post that has just been announced is on its way to a joined window.   *)
LEMMA StepNothingSlips ==
    ASSUME Listening, ListOK, NothingSlips, [Next]_vars
    PROVE  NothingSlips'
<1> SUFFICES ASSUME NEW m \in Posts, post'[m] = "announced", roomOf'[m] = shown'
             PROVE  Follows(m)'
  BY DEF NothingSlips
<1>1. CASE Broadcast(m)
  BY <1>1, BroadcastReaches DEF Broadcast, windowVars
<1>2. CASE \E room \in Rooms : SwitchRoom(room)
  BY <1>2, SwitchFollows
<1>3. CASE ~Broadcast(m) /\ shown' = shown
  <2>1. post[m] = "announced" /\ roomOf[m] = shown
    BY <1>3, StepAdvancesPosts DEF PostsAdvance
  <2> QED
    BY <2>1, StepFollows DEF NothingSlips, Stored
<1> QED
  BY <1>1, <1>2, <1>3 DEF Next, PostStep, OthersPost, Commit, Refuse, Broadcast, BroadcastFails, HubStep,
     BeginSend, EndSend, JoinLeave, JoinEnter, JoinRead, JoinReply, JoinFails, EndJoin,
     ConnectionStep, Connect, GiveUp, Deliver, Send, Drop, vars, windowVars

LEMMA InitListed == Init => IInv /\ NoRepeats
<1> SUFFICES ASSUME Init PROVE IInv /\ NoRepeats
  OBVIOUS
<1>1. Listening
  BY InitListening
<1>2. ListOK
  BY DEF Init, ListOK, NoRepeats, Listed
<1>3. Labels
  BY BoundsAssumption DEF Init, Labels
<1>4. NothingSlips
  BY DEF Init, NothingSlips, Follows, JoinsRead
<1> QED
  BY <1>1, <1>2, <1>3, <1>4, PartsOfIInv

LEMMA StepListed == IInv /\ NoRepeats /\ [Next]_vars => IInv' /\ NoRepeats'
<1>1. (Listening /\ ListOK /\ Labels /\ NothingSlips)' => IInv' /\ NoRepeats'
  BY DEF IInv, TypeOK, Listening, ListOK, Labels
<1> QED
  BY <1>1, PartsOfIInv, StepListening, StepListOK, StepLabels, StepNothingSlips

(* The inductive invariant of the chat window: every part of it has its    *)
(* type, the connection follows the room on the screen, the ids kept to    *)
(* recognise repeats are those of the list, and no announced post slips    *)
(* through between the subscription, the history and the wire.             *)
THEOREM WindowConsistent == Spec => []IInv
  BY InitListed, StepListed, PTL DEF Spec

(* No post is shown twice, although every join reads again what may have   *)
(* been pushed already.                                                    *)
THEOREM NothingShownTwice == Spec => []NoRepeats
  BY InitListed, StepListed, PTL DEF Spec

(* A window at rest has no gap: it lists every announced post of its room, *)
(* whatever was switched, dropped or overtaken on the way, except those    *)
(* that newer posts had already pushed out of the history.                 *)
THEOREM WindowHasNoGap == Spec => []NoGap
<1>1. IInv => NoGap
  <2> SUFFICES ASSUME IInv, AtRest, NEW m \in Posts, post[m] = "announced", roomOf[m] = shown,
                      m \notin Listed
               PROVE  PushedOut(m)
    BY DEF NoGap
  <2>1. JoinsRead /\ step # "read"
    BY DEF AtRest, JoinsRead, JoinAhead, IInv, Subscription, Membership, Running
  <2>2. ~OnItsWay(m) /\ ~EndsUnjoined
    BY DEF AtRest, OnItsWay, EndsUnjoined
  <2>3. Reaches(m)
    BY <2>1 DEF IInv, NothingSlips, Follows
  <2> QED
    BY <2>1, <2>2, <2>3 DEF Reaches
<1> QED
  BY <1>1, WindowConsistent, PTL
=============================================================================
