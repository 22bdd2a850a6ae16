---------------------------- MODULE LocalSession ----------------------------
(***************************************************************************)
(* Launch tokens, sessions and CSRF tokens (security/local_session.py, the *)
(* security middleware of local_app.py).                                   *)
(*                                                                         *)
(* A launch invalidates everything that an earlier one handed out and      *)
(* issues a token; a browser exchanges it, once, for a session.  The       *)
(* browser's tabs share the session's cookie and hold the CSRF token each  *)
(* for itself.  An exchange reads the token and consumes it in two         *)
(* statements, beside other exchanges and the next launch.                 *)
(***************************************************************************)
EXTENDS Naturals, FiniteSets

CONSTANTS Tabs,          \* browser tabs, and whoever else asks
          MaxLaunches,   \* a bound on the launches
          MaxTokens,     \* a bound on launch tokens
          MaxSessions    \* a bound on sessions

VARIABLES launch,     \* the number of the present launch
          tokens,     \* table launcher_tokens
          sessions,   \* table local_sessions
          tab,        \* what every tab holds and does
          minted      \* tokens and sessions ever made
sessionVars == <<launch, tokens, sessions, tab, minted>>

Nothing == 0
IdleTab == [pc |-> "idle", token |-> Nothing, cookie |-> Nothing, csrf |-> Nothing]

Init_Session ==
  /\ launch = 0
  /\ tokens = {} /\ sessions = {}
  /\ tab = [t \in Tabs |-> IdleTab]
  /\ minted = [token |-> 0, session |-> 0]

(* begin_process: both tables are emptied ... *)
BeginProcess ==
  /\ launch < MaxLaunches
  /\ launch' = launch + 1
  /\ tokens' = {} /\ sessions' = {}
  /\ UNCHANGED <<tab, minted>>

(* ... and a token is issued; the menu may issue more of them. *)
IssueLaunchToken ==
  /\ launch > 0 /\ minted.token < MaxTokens
  /\ minted' = [minted EXCEPT !.token = @ + 1]
  /\ tokens' = tokens \cup {[id |-> minted'.token, used |-> FALSE, live |-> TRUE,
                             launch |-> launch]}
  /\ UNCHANGED <<launch, sessions, tab>>

(* Five minutes pass over a token, twelve hours over a session. *)
ExpireToken(k) ==
  /\ k \in tokens /\ k.live
  /\ tokens' = (tokens \ {k}) \cup {[k EXCEPT !.live = FALSE]}
  /\ UNCHANGED <<launch, sessions, tab, minted>>

ExpireSession(s) ==
  /\ s \in sessions /\ s.live
  /\ sessions' = (sessions \ {s}) \cup {[s EXCEPT !.live = FALSE]}
  /\ UNCHANGED <<launch, tokens, tab, minted>>

(* exchange: the token's row is read; unknown, used or expired, the         *)
(* exchange ends here.                                                      *)
ReadToken(t, k) ==
  /\ tab[t].pc = "idle"
  /\ k \in tokens /\ ~k.used /\ k.live
  /\ tab' = [tab EXCEPT ![t].pc = "consume", ![t].token = k.id]
  /\ UNCHANGED <<launch, tokens, sessions, minted>>

(* The CSRF token is derived from the session's token. *)
CsrfToken(session) == session

\* Mutant: the row that was read is consumed, whatever happened to it since.
ConsumeRead(t) ==
  /\ tab[t].pc = "consume" /\ minted.session < MaxSessions
  /\ minted' = [minted EXCEPT !.session = @ + 1]
  /\ tokens' = {IF k.id = tab[t].token THEN [k EXCEPT !.used = TRUE] ELSE k : k \in tokens}
  /\ sessions' = sessions \cup {[id |-> minted'.session, from |-> tab[t].token,
                                 csrf |-> CsrfToken(minted'.session), live |-> TRUE,
                                 launch |-> launch]}
  /\ tab' = [tab EXCEPT ![t] = [IdleTab EXCEPT !.cookie = minted'.session,
                                               !.csrf = CsrfToken(minted'.session)]]
  /\ UNCHANGED launch

(* UPDATE ... WHERE consumed_at IS NULL: one row, or the exchange fails. *)
ConsumeToken(t) ==
  /\ tab[t].pc = "consume"
  /\ LET open == {k \in tokens : k.id = tab[t].token /\ ~k.used} IN
     IF open = {}
     THEN /\ tab' = [tab EXCEPT ![t].pc = "idle", ![t].token = Nothing]
          /\ UNCHANGED <<tokens, sessions, minted>>
     ELSE /\ minted.session < MaxSessions
          /\ minted' = [minted EXCEPT !.session = @ + 1]
          /\ tokens' = (tokens \ open) \cup {[k EXCEPT !.used = TRUE] : k \in open}
          /\ sessions' = sessions \cup
               {[id |-> minted'.session, from |-> tab[t].token,
                 csrf |-> CsrfToken(minted'.session), live |-> TRUE, launch |-> launch]}
          /\ tab' = [tab EXCEPT ![t] = [IdleTab EXCEPT
                       !.cookie = minted'.session, !.csrf = CsrfToken(minted'.session)]]
  /\ UNCHANGED launch

(* Another tab of the browser has the cookie too, and no CSRF token yet. *)
OpenTab(t, u) ==
  /\ tab[t].pc = "idle" /\ tab[u].cookie # Nothing /\ tab[t].cookie # tab[u].cookie
  /\ tab' = [tab EXCEPT ![t] = [IdleTab EXCEPT !.cookie = tab[u].cookie]]
  /\ UNCHANGED <<launch, tokens, sessions, minted>>

SessionOf(t) == {s \in sessions : s.id = tab[t].cookie /\ s.live}

(* What rotate_csrf writes to the session's row: the derived token, again. *)
RotatedCsrf(s) == [s EXCEPT !.csrf = CsrfToken(s.id)]

(* GET /session/csrf: a live session is told its token. *)
RotateCsrf(t) ==
  /\ tab[t].pc = "idle"
  /\ \E s \in SessionOf(t) :
       /\ sessions' = (sessions \ {s}) \cup {RotatedCsrf(s)}
       /\ tab' = [tab EXCEPT ![t].csrf = RotatedCsrf(s).csrf]
  /\ UNCHANGED <<launch, tokens, minted>>

(* The middleware: a changing request needs the session's CSRF token. *)
Validates(t) == \E s \in SessionOf(t) : s.csrf = tab[t].csrf

Next_Session ==
  \/ BeginProcess \/ IssueLaunchToken
  \/ (\E k \in tokens : ExpireToken(k)) \/ \E s \in sessions : ExpireSession(s)
  \/ \E t \in Tabs : \/ (\E k \in tokens : ReadToken(t, k)) \/ ConsumeToken(t)
                     \/ (\E u \in Tabs : OpenTab(t, u)) \/ RotateCsrf(t)

Spec_Session == Init_Session /\ [][Next_Session]_sessionVars
-----------------------------------------------------------------------------
(* A launch token makes one session, and no session outlives the launch     *)
(* whose token it was made with: neither two requests with the same token   *)
(* nor one that read its token before the next launch get another           *)
(* (local_session.py:36-42, 59-104).                                        *)
OneSessionPerToken ==
  \A s \in sessions :
    /\ s.launch = launch
    /\ \A r \in sessions : r.from = s.from => r.id = s.id
    /\ \E k \in tokens : k.id = s.from /\ k.used

(* A tab that has been given a CSRF token can use it as long as the session *)
(* lives, whatever other tabs of the session do (local_session.py:141-161). *)
TabsStayConnected ==
  \A t \in Tabs : tab[t].csrf # Nothing /\ SessionOf(t) # {} => Validates(t)

(* Both, for the browser that was given a session: it is the only one, and  *)
(* it works (local_session.py:36-161).                                      *)
SessionsHold == OneSessionPerToken /\ TabsStayConnected
=============================================================================
