------------------------------ MODULE Sessions ------------------------------
(***************************************************************************)
(* The sessions (internal/session/session.go, handler/auth.go and          *)
(* middleware/auth.go): rows of a table, with the second they expire at by *)
(* the wall clock, which NTP may set forwards or back.                     *)
(***************************************************************************)
EXTENDS Integers

CONSTANTS
  Ids,      \* session identifiers, each drawn once
  None,     \* no cookie
  TTL, MaxWall

ASSUME SessionsAssumption == None \notin Ids /\ TTL \in Nat /\ MaxWall \in Nat

VARIABLES
  wall,      \* the wall clock
  rows,      \* the sessions that have a row
  expires,   \* their expires_at
  cookie,    \* what the browser holds
  created,   \* history: the sessions ever created
  issued,    \* history: when
  peak,      \* history: the latest that the wall clock has shown since then
  out        \* history: the sessions whose row a logout has deleted

sessionVars == <<wall, rows, expires, cookie, created, issued, peak, out>>

\* The table may hold sessions from before, one of them the browser's.
SessionsInit ==
  /\ wall = 0
  /\ rows \in SUBSET Ids
  /\ expires = [id \in Ids |-> TTL]
  /\ cookie \in rows \cup {None}
  /\ created = rows
  /\ issued = [id \in Ids |-> 0]
  /\ peak = [id \in Ids |-> 0]
  /\ out = {}

\* Get finds a session: RequireAuth lets the request through.
Valid(id) == id \in rows /\ expires[id] > wall

WallShows(t) ==
  /\ wall' = t
  /\ peak' = [id \in Ids |-> IF id \in created /\ t > peak[id] THEN t ELSE peak[id]]
  /\ UNCHANGED <<rows, expires, cookie, created, issued, out>>

SecondPasses == wall < MaxWall /\ WallShows(wall + 1)

ClockIsSet == \E t \in 0 .. MaxWall : WallShows(t)

\* handleLogin after pamAuthenticate; the answer with the cookie may be lost.
CreateSession(id) ==
  /\ id \in Ids \ created
  /\ rows' = rows \cup {id}
  /\ expires' = [expires EXCEPT ![id] = wall + TTL]
  /\ cookie' \in {cookie, id}
  /\ created' = created \cup {id}
  /\ issued' = [issued EXCEPT ![id] = wall]
  /\ peak' = [peak EXCEPT ![id] = wall]
  /\ UNCHANGED <<wall, out>>

\* handleLogout clears the cookie even when the row could not be deleted.
LogOut ==
  /\ cookie # None
  /\ cookie' = None
  /\ \/ rows' = rows \ {cookie} /\ out' = out \cup {cookie}
     \/ UNCHANGED <<rows, out>>
  /\ UNCHANGED <<wall, expires, created, issued, peak>>

\* The browser drops a cookie that is over, by a clock of its own.
CookieEnds ==
  /\ cookie # None
  /\ cookie' = None
  /\ UNCHANGED <<wall, rows, expires, created, issued, peak, out>>

\* A bug: compares the wrong column.
OverSinceCreated(id) == issued[id] < wall

Over(id) == expires[id] < wall

\* CleanupLoop, once an hour; errors are dropped.
Cleanup ==
  /\ rows' = {id \in rows : ~Over(id)}
  /\ UNCHANGED <<wall, expires, cookie, created, issued, peak, out>>

\* A bug: sessions live in memory, and go with the process.
SessionsInMemory == rows' = {} /\ UNCHANGED <<wall, expires, cookie, created, issued, peak, out>>

\* A new process finds the table as it was.
SessionsKept == UNCHANGED sessionVars

SessionsNext ==
  \/ SecondPasses \/ ClockIsSet \/ LogOut \/ CookieEnds \/ Cleanup \/ SessionsKept
  \/ \E id \in Ids : CreateSession(id)

SessionsSpec == SessionsInit /\ [][SessionsNext]_sessionVars

-----------------------------------------------------------------------------
(* Properties.                                                             *)

SessionsTypeOK ==
  /\ wall \in Nat
  /\ rows \subseteq created
  /\ created \subseteq Ids
  /\ expires \in [Ids -> Nat]
  /\ cookie \in created \cup {None}
  /\ issued \in [Ids -> Nat]
  /\ peak \in [Ids -> Nat]
  /\ out \subseteq created

\* A session is let in for exactly the time its cookie was given for, TTL from
\* login, unless its row was deleted by a logout: never longer, and not shorter
\* either, through clean-ups, restarts and clocks that are set, except that it does
\* not come back when the clock is set back from beyond its end
\* (session.go 27-74: Get and Cleanup compare with different operators).
ValidExactly ==
  \A id \in created :
    LET end == issued[id] + TTL
    IN  /\ Valid(id) => id \notin out /\ wall < end
        /\ id \notin out /\ peak[id] <= end /\ wall < end => Valid(id)
=============================================================================
