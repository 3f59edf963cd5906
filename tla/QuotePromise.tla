---------------------------- MODULE QuotePromise ----------------------------
(***************************************************************************)
(* What the stock bot promises whoever types /stock=, whichever way the    *)
(* answer travels.  An answer is a post of the bot; nothing is posted that *)
(* nobody asked for; posts are only ever added; and the system comes to    *)
(* rest about a request only when it has been posted at least once or when *)
(* there is an excuse: it lies in a dead-letter queue for an operator, or  *)
(* its room is gone.  At rest means at rest: nothing is posted later.      *)
(***************************************************************************)
EXTENDS Integers

CONSTANTS
    Requests,   \* the commands participants may type
    PostIds     \* names for the posts of one request

VARIABLES
    asked,      \* the requests that were accepted
    shown,      \* shown[r]: the posts stored in answer to r
    excused,    \* the requests that need not be answered any more
    settled     \* the requests about which nothing more will happen

vars == <<asked, shown, excused, settled>>

Init ==
    /\ asked = {}
    /\ shown = [r \in Requests |-> {}]
    /\ excused = {}
    /\ settled = {}

Ask(r) ==
    /\ r \notin asked
    /\ asked' = asked \cup {r}
    /\ UNCHANGED <<shown, excused, settled>>

(* One step of the work on r: it may add a post, find an excuse, be the    *)
(* last one, or several of these at once.                                  *)
Work(r) ==
    /\ r \in asked \ settled
    /\ \/ UNCHANGED shown
       \/ \E id \in PostIds \ shown[r] :
              shown' = [shown EXCEPT ![r] = @ \cup {id}]
    /\ excused' \in {excused, excused \cup {r}}
    /\ settled' \in {settled, settled \cup {r}}
    /\ r \in settled' => shown'[r] # {} \/ r \in excused'
    /\ UNCHANGED asked

(* A room disappears, and with it the requests typed in it are excused.    *)
Excuse(R) ==
    /\ excused' = excused \cup R
    /\ UNCHANGED <<asked, shown, settled>>

Next ==
    \/ \E r \in Requests : Ask(r) \/ Work(r)
    \/ \E R \in SUBSET Requests : Excuse(R)

Spec == Init /\ [][Next]_vars

(* No request is worked on for ever.                                       *)
EveryAskSettles == \A r \in Requests : (r \in asked) ~> (r \in settled)

=============================================================================
