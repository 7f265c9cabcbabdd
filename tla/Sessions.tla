------------------------------ MODULE Sessions -------------------------------
(***************************************************************************)
(* Console sessions: SessionStore (src/auth.rs) as the authentication of   *)
(* every request, login and logout use it, under the AppState lock.  Each  *)
(* change is made in memory and then saved as a whole, best-effort; a      *)
(* token that memory does not know is looked up again after a reload, so   *)
(* the database can bring sessions back at any request.                    *)
(*                                                                         *)
(* A session is its token and its expiry.  The signed envelope is either   *)
(* read or not; the first load from a legacy file is left out.             *)
(***************************************************************************)
EXTENDS Integers, FiniteSets, Functions

CONSTANTS
  Token,
  Ttl,        \* lifetimes of new sessions, in clock ticks
  MaxTime     \* bound: the clock stops

ASSUME SessionsAssumption == Ttl \subseteq Nat /\ MaxTime \in Nat

VARIABLES
  sessions,    \* in memory: expires_at by token
  disk, row,   \* in the database, and whether it has its row yet
  now,
  issued,      \* history: the expiry of every session created
  loggedOut,   \* history: tokens whose logout reported session_revoked
  unsaved,     \* history: those of them whose removal was not saved
  lapsed,      \* history: some save or load has failed
  accepted     \* history: the tokens accepted at this tick since the last logout

sessionVars == <<sessions, disk, row, now, issued, loggedOut, unsaved, lapsed, accepted>>

Nobody == [t \in {} |-> 0]

SessionInit ==
  /\ sessions = Nobody /\ disk = Nobody /\ row = FALSE /\ now = 0
  /\ issued = Nobody /\ loggedOut = {} /\ unsaved = {} /\ lapsed = FALSE /\ accepted = {}

-----------------------------------------------------------------------------
With(f, t, e) == [u \in DOMAIN f \cup {t} |-> IF u = t THEN e ELSE f[u]]
Without(f, t) == Restrict(f, DOMAIN f \ {t})

\* Mutant: a session is valid until it expires, that moment included.
AliveAtEnd(expires) == now <= expires

\* The test of get_session.
Alive(expires) == now < expires

\* apply_envelope: what is read back.
Fresh(stored) == Restrict(stored, {t \in DOMAIN stored : Alive(stored[t])})

\* save, where ok says whether it works: its errors are ignored.
Save(map, ok) == disk' = (IF ok THEN map ELSE disk) /\ row' = (row \/ ok)

\* reload, where read says whether it works: without a row nothing changes.
Reloaded(map, stored, there, read) == IF read /\ there THEN Fresh(stored) ELSE map

\* create_session_scoped after a login, insert_session after single sign-on.
CreateSession(t, ttl, ok) ==
  /\ t \notin DOMAIN issued
  /\ issued' = With(issued, t, now + ttl)
  /\ sessions' = With(sessions, t, now + ttl)
  /\ Save(sessions', ok) /\ lapsed' = (lapsed \/ ~ok)
  /\ UNCHANGED <<now, loggedOut, unsaved, accepted>>

\* session_identity_from_store with a session that memory has.
AuthenticateKnown(t) ==
  /\ t \in DOMAIN sessions /\ Alive(sessions[t])
  /\ accepted' = accepted \cup {t}
  /\ UNCHANGED <<sessions, disk, row, now, issued, loggedOut, unsaved, lapsed>>

\* session_identity_from_store with any other token: an expired session is
\* removed and the removal saved, then the database is read again.
AuthenticateReloaded(t, ok, read) ==
  /\ t \in DOMAIN sessions => ~Alive(sessions[t])
  /\ IF t \in DOMAIN sessions THEN Save(Without(sessions, t), ok) ELSE UNCHANGED <<disk, row>>
  /\ sessions' = Reloaded(Without(sessions, t), disk', row', read)
  /\ lapsed' = (lapsed \/ ~ok \/ ~read)
  /\ accepted' = IF t \in DOMAIN sessions' /\ Alive(sessions'[t])
                   THEN accepted \cup {t} ELSE accepted
  /\ UNCHANGED <<now, issued, loggedOut, unsaved>>

\* POST /api/auth/logout: destroy_session, once more after a reload when
\* memory does not have it.
Logout(t, ok, read) ==
  LET map == IF t \in DOMAIN sessions THEN sessions ELSE Reloaded(sessions, disk, row, read)
  IN /\ sessions' = Without(map, t)
     /\ IF t \in DOMAIN map
          THEN /\ Save(Without(map, t), ok) /\ loggedOut' = loggedOut \cup {t}
               /\ unsaved' = IF ok THEN unsaved ELSE unsaved \cup {t}
          ELSE UNCHANGED <<disk, row, loggedOut, unsaved>>
     /\ lapsed' = (lapsed \/ ~ok \/ ~read) /\ accepted' = {}
     /\ UNCHANGED <<now, issued>>

\* cleanup_expired; the server does not call it.
CleanupExpired(ok) ==
  /\ Fresh(sessions) # sessions
  /\ sessions' = Fresh(sessions)
  /\ Save(sessions', ok) /\ lapsed' = (lapsed \/ ~ok)
  /\ UNCHANGED <<now, issued, loggedOut, unsaved, accepted>>

\* The server starts again.
Start(read) ==
  /\ sessions' = Reloaded(Nobody, disk, row, read)
  /\ lapsed' = (lapsed \/ ~read)
  /\ UNCHANGED <<disk, row, now, issued, loggedOut, unsaved, accepted>>

Tick ==
  /\ now < MaxTime /\ now' = now + 1 /\ accepted' = {}
  /\ UNCHANGED <<sessions, disk, row, issued, loggedOut, unsaved, lapsed>>

SessionNext ==
  \/ \E t \in Token, ttl \in Ttl, ok \in BOOLEAN : CreateSession(t, ttl, ok)
  \/ \E t \in Token : AuthenticateKnown(t)
  \/ \E t \in Token, ok, read \in BOOLEAN : AuthenticateReloaded(t, ok, read)
  \/ \E t \in Token, ok, read \in BOOLEAN : Logout(t, ok, read)
  \/ \E ok \in BOOLEAN : CleanupExpired(ok)
  \/ \E read \in BOOLEAN : Start(read)
  \/ Tick

SessionSpec == SessionInit /\ [][SessionNext]_sessionVars

-----------------------------------------------------------------------------
(* Properties *)

\* A session is good for as long as it lives, whatever reloads and restarts
\* come in between.  A request is let in by a session that was created, has
\* not expired and was not ended; only a logout that was not saved can be
\* undone.  And as long as no save and no load fails, a session that has
\* neither expired nor been ended is in memory and in the database.
SessionsHonoured ==
  /\ \A t \in accepted :
        t \in DOMAIN issued /\ now < issued[t] /\ t \notin loggedOut \ unsaved
  /\ ~lapsed => \A t \in DOMAIN issued :
        now < issued[t] /\ t \notin loggedOut =>
           /\ t \in DOMAIN sessions /\ sessions[t] = issued[t]
           /\ t \in DOMAIN disk /\ disk[t] = issued[t]
=============================================================================
