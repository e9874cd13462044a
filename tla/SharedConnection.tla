-------------------------- MODULE SharedConnection --------------------------
(***************************************************************************)
(* What the shared TCP connection of the trace sessions promises: the      *)
(* first session to need it brings it up, later ones join it, and only     *)
(* when the last one leaves is the stream ended and the socket closed.     *)
(***************************************************************************)
EXTENDS Naturals

CONSTANT Users          \* sessions, past and future

VARIABLES
  users,   \* the sessions that hold the connection
  ended    \* how many streams have been ended

scVars == <<users, ended>>

SCInit == users = {} /\ ended = 0

Attach(s) ==
  /\ s \notin users
  /\ users' = users \cup {s}
  /\ ended' = ended

\* The stream ends exactly when nobody is left to write to it.
Detach(s) ==
  /\ s \in users
  /\ users' = users \ {s}
  /\ ended' = IF users' = {} THEN ended + 1 ELSE ended

SCNext == \E s \in Users : Attach(s) \/ Detach(s)

SCSpec == SCInit /\ [][SCNext]_scVars
=============================================================================
