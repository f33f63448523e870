--------------------------------- MODULE Jar ---------------------------------
(***************************************************************************)
(* What the children and quotes endpoints promise, every operation one     *)
(* atomic step on behalf of one user: a child is added to one's own        *)
(* account, a quote to one's own child, a quote of one's own is retired    *)
(* for good, and an account takes all it owns with it when it goes.        *)
(* Quotes shows that the handlers, which take several statements and can   *)
(* fail between any two of them, do nothing else.                          *)
(***************************************************************************)

CONSTANTS
  Users,   \* accounts
  Kids,    \* ids of children
  Notes,   \* ids of quotes
  None     \* nobody

VARIABLES
  users,     \* accounts that exist
  children,  \* table: rows [id, user]
  quotes,    \* quotes that can be seen: rows [id, child]
  issued,    \* ids handed out so far: they never come back
  by         \* on whose behalf the tables last changed

vars == <<users, children, quotes, issued, by>>

(* Rows of one user: ownership runs quote -> child -> user.                *)
ChildrenOf(u) == {c \in children : c.user = u}
QuotesOf(u) == {q \in quotes : \E c \in ChildrenOf(u) : c.id = q.child}

Init ==
  /\ users = Users
  /\ children = {}
  /\ quotes = {}
  /\ issued = {}
  /\ by = None

AddChild(u) ==
  \E k \in Kids \ issued :
    /\ u \in users
    /\ children' = children \cup {[id |-> k, user |-> u]}
    /\ issued' = issued \cup {k}
    /\ by' = u
    /\ UNCHANGED <<users, quotes>>

AddQuote(u) ==
  \E n \in Notes \ issued, c \in ChildrenOf(u) :
    /\ quotes' = quotes \cup {[id |-> n, child |-> c.id]}
    /\ issued' = issued \cup {n}
    /\ by' = u
    /\ UNCHANGED <<users, children>>

RetireQuote(u) ==
  \E q \in QuotesOf(u) :
    /\ quotes' = quotes \ {q}
    /\ by' = u
    /\ UNCHANGED <<users, children, issued>>

(* Whoever retires a quote that somebody has just retired changes nothing. *)
RetireAgain(u) ==
  /\ u \in users
  /\ by' = u
  /\ UNCHANGED <<users, children, quotes, issued>>

RemoveUser(u) ==
  /\ u \in users
  /\ users' = users \ {u}
  /\ children' = children \ ChildrenOf(u)
  /\ quotes' = quotes \ QuotesOf(u)
  /\ by' = u
  /\ UNCHANGED issued

Next ==
  \E u \in Users :
    \/ AddChild(u)
    \/ AddQuote(u)
    \/ RetireQuote(u)
    \/ RetireAgain(u)
    \/ RemoveUser(u)

Spec == Init /\ [][Next]_vars

=============================================================================
