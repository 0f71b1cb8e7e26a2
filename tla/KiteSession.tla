---------------------------- MODULE KiteSession ----------------------------
(***************************************************************************)
(* The session at Kite: KiteAuthService with its row in the database, the  *)
(* daily login, the disconnect, the renewal at startup, and the client the *)
(* engine's adapter sends its orders with.  Requests and loops overlap;    *)
(* nothing locks the session.                                              *)
(***************************************************************************)
EXTENDS Naturals

CONSTANT MaxTokens   \* bound: the access tokens Kite issues

VARIABLES
  session,   \* KiteAuthService._session: an access token, or NoToken
  row,       \* KiteSession in the database
  env,       \* KITE_ACCESS_TOKEN
  client,    \* the token of the adapter's client, _kite
  connected, \* the adapter's _connected
  checking,  \* the tokens of connects that wait for the profile
  login,     \* step of a login
  leaving,   \* step of a disconnect
  phase,     \* of the process
  valid,     \* the tokens Kite accepts
  issued     \* how many it has issued

vars == <<session, row, env, client, connected, checking, login, leaving,
          phase, valid, issued>>

NoToken  == 0
EnvToken == MaxTokens + 1

\* get_access_token_sync: the session's, or that of the environment.
Token == IF session # NoToken THEN session ELSE env

Init ==
  /\ session = NoToken /\ row = NoToken /\ env \in {NoToken, EnvToken}
  /\ client = NoToken /\ connected = FALSE /\ checking = {}
  /\ login = "none" /\ leaving = "none" /\ phase = "down"
  /\ valid = {env} \ {NoToken} /\ issued = 0

-----------------------------------------------------------------------------
(* The adapter                                                             *)

\* refresh_broker: a new adapter, without a client; what waits on the old one
\* ends there.
FreshAdapter == client' = NoToken /\ connected' = FALSE /\ checking' = {}

\* connect: a new client for the token of this moment, which is used before
\* Kite has answered for it.
Connect ==
  \/ Token = NoToken /\ client' = NoToken /\ connected' = FALSE /\ UNCHANGED checking
  \/ /\ Token # NoToken
     /\ client' = Token /\ checking' = checking \cup {Token} /\ UNCHANGED connected

\* Every tick of the lifecycle loop connects.
Tick ==
  /\ phase = "up" /\ Connect
  /\ UNCHANGED <<session, row, env, login, leaving, phase, valid, issued>>

\* The profile arrives, or does not; the adapter may have another client by now.
Answered(t) ==
  /\ t \in checking /\ checking' = checking \ {t}
  /\ \/ t \in valid /\ connected' = TRUE /\ UNCHANGED client
     \/ connected' = FALSE /\ client' = NoToken
  /\ UNCHANGED <<session, row, env, login, leaving, phase, valid, issued>>

-----------------------------------------------------------------------------
(* Login and logout                                                        *)

\* The callback of the login: the request token is exchanged.
Exchange ==
  /\ phase = "up" /\ login = "none" /\ issued < MaxTokens
  /\ issued' = issued + 1 /\ session' = issued' /\ login' = "saving"
  /\ valid' \in {valid \cup {issued'}, (valid \cap {EnvToken}) \cup {issued'}}
  /\ UNCHANGED <<row, env, client, connected, checking, leaving, phase>>

\* _save_to_db writes the session as it is by then; every failure is swallowed.
SaveRow ==
  \/ session # NoToken /\ row' = session
  \/ UNCHANGED row

LoggedInOnly ==   \* mutant: the engine is not told of the login
  /\ login = "saving" /\ SaveRow /\ login' = "none"
  /\ UNCHANGED <<session, env, client, connected, checking, leaving, phase, valid, issued>>

\* What is left of the callback: the row, a new adapter, and its connect; when
\* the session was given up meanwhile, the callback raises instead.
LoggedIn ==
  /\ login = "saving" /\ SaveRow /\ login' = "none"
  /\ IF session = NoToken THEN UNCHANGED <<client, connected, checking>>
     ELSE connected' = FALSE /\ client' = session /\ checking' = {session}
  /\ UNCHANGED <<session, env, leaving, phase, valid, issued>>

\* disconnect asks Kite to forget the token it has read; a failure is logged.
Invalidate ==
  /\ phase = "up" /\ leaving = "none"
  /\ valid' \in {valid, valid \ {Token}}
  /\ leaving' = "forget"
  /\ UNCHANGED <<session, row, env, client, connected, checking, login, phase, issued>>

\* The session is forgotten, whichever it is by now.
Forget ==
  /\ leaving = "forget" /\ session' = NoToken /\ leaving' = "clear"
  /\ UNCHANGED <<row, env, client, connected, checking, login, phase, valid, issued>>

\* The row is cleared, unless that fails; the adapter is closed and replaced.
Clear ==
  /\ leaving = "clear" /\ row' \in {row, NoToken} /\ leaving' = "none"
  /\ FreshAdapter
  /\ UNCHANGED <<session, env, login, phase, valid, issued>>

-----------------------------------------------------------------------------
(* The process and the days                                                *)

\* The session the row has, or none when the load fails.
Loaded == {row, NoToken}

\* startup: the row is loaded and renewed, if that works; recovery connects.
Start ==
  /\ phase = "down" /\ phase' = "up"
  /\ \/ session' \in Loaded /\ UNCHANGED <<row, valid, issued>>
     \/ /\ row # NoToken /\ issued < MaxTokens
        /\ issued' = issued + 1 /\ session' = issued'
        /\ row' \in {row, session'} /\ valid' = valid \cup {issued'}
  /\ LET t == IF session' # NoToken THEN session' ELSE env
     IN  client' = t /\ checking' = {t} \ {NoToken}
  /\ connected' = FALSE
  /\ UNCHANGED <<env, login, leaving>>

Stop ==
  /\ phase = "up" /\ phase' = "down"
  /\ session' = NoToken /\ login' = "none" /\ leaving' = "none"
  /\ FreshAdapter
  /\ UNCHANGED <<row, env, valid, issued>>

\* Every token ends in the morning.
Morning ==
  /\ valid # {} /\ valid' = {}
  /\ UNCHANGED <<session, row, env, client, connected, checking, login, leaving,
                 phase, issued>>

Next ==
  \/ Tick \/ (\E t \in checking : Answered(t))
  \/ Exchange \/ LoggedIn \/ Invalidate \/ Forget \/ Clear
  \/ Start \/ Stop \/ Morning

Spec == Init /\ [][Next]_vars

-----------------------------------------------------------------------------
\* When no login and no disconnect is under way, the adapter sends its orders
\* with the token everyone else uses, or with none (refresh_broker: "a stale
\* one"); an order is never sent in a session that was replaced or given up.
TradesInSession ==
  login = "none" /\ leaving = "none" => client \in {NoToken, Token}
=============================================================================
