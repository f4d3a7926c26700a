---------------------------- MODULE WebSessions ----------------------------
(***************************************************************************)
(* The sessions of one browser: its tabs send calls to the edge            *)
(* (api/index.mjs), which keeps the token in a cookie and forwards it to   *)
(* the primary (server.mjs), which looks the session up (getSession,       *)
(* revokeSession of wallet-auth.mjs).  The edge waits for 7 s; what it no  *)
(* longer waits for may still be done.                                     *)
(***************************************************************************)
EXTENDS Integers

CONSTANTS
  Tabs,     \* calls in flight
  Tokens,   \* sessions that will be made
  NoToken,  \* no cookie
  NoSend

ASSUME NoTokenIsNoToken == NoToken \notin Tokens

VARIABLES
  rows,     \* wallet_auth_sessions
  cookie,
  sends,    \* the call of each tab, at the primary and at the edge
  left,     \* tokens whose logout was answered, with what the browser was told
  late      \* a session was accepted after the browser was told it is revoked

sessionVars == <<rows, cookie, sends, left, late>>

Kinds == {"verify", "session", "logout"}

SessionsInit ==
  /\ rows = [s \in Tokens |-> "none"]
  /\ cookie = NoToken
  /\ sends = [t \in Tabs |-> NoSend]
  /\ left = {} /\ late = FALSE

Sent(t) == sends[t] # NoSend

(* A call to a session route without a cookie is refused by the edge, and  *)
(* a logout without one only clears it.                                    *)
SendCall(t, kind) ==
  /\ sends[t] = NoSend
  /\ kind # "verify" => cookie # NoToken
  /\ sends' = [sends EXCEPT ![t] = [kind |-> kind, token |-> IF kind = "verify" THEN NoToken ELSE cookie,
                                    work |-> "todo", waits |-> TRUE, reply |-> {}]]
  /\ UNCHANGED <<rows, cookie, left, late>>

ToDo(t, kind) == Sent(t) /\ sends[t].kind = kind /\ sends[t].work = "todo"

(* The work of t is done, or accepted, with one of the replies.            *)
Does(t, work, replies, token) ==
  sends' = [sends EXCEPT ![t].work = work, ![t].reply = replies, ![t].token = token]

(* verifyLogin makes a session, or fails. *)
VerifyLogin(t, s) ==
  /\ ToDo(t, "verify") /\ rows[s] = "none"
  /\ rows' = [rows EXCEPT ![s] = "live"]
  /\ Does(t, "done", {200}, s)
  /\ UNCHANGED <<cookie, left, late>>

RefuseLogin(t) ==
  /\ ToDo(t, "verify")
  /\ Does(t, "done", {400}, NoToken)
  /\ UNCHANGED <<rows, cookie, left, late>>

(* Mutant: revoked_at is not asked for. *)
LiveOrRevoked(s) == rows[s] \in {"live", "revoked"}

Live(s) == rows[s] = "live"

(* getSession, before the handler of the route runs, which may fail then,  *)
(* and answers 401 when an application names another wallet.               *)
GetSession(t) ==
  LET s == sends[t].token IN
  /\ ToDo(t, "session")
  /\ IF Live(s) THEN Does(t, "accepted", {200, 400, 401}, s) ELSE Does(t, "done", {401}, s)
  /\ late' = (late \/ (Live(s) /\ <<s, "revoked">> \in left))
  /\ UNCHANGED <<rows, cookie, left>>

(* The handler, whether or not the session has been revoked since.         *)
HandleRoute(t) ==
  /\ Sent(t) /\ sends[t].work = "accepted"
  /\ sends' = [sends EXCEPT ![t].work = "done"]
  /\ UNCHANGED <<rows, cookie, left, late>>

(* revokeSession does not ask whether the session has expired. *)
RevokeSession(t) ==
  LET s == sends[t].token IN
  /\ ToDo(t, "logout")
  /\ rows' = [rows EXCEPT ![s] = "revoked"]
  /\ Does(t, "done", IF rows[s] = "revoked" THEN {401} ELSE {200}, s)
  /\ UNCHANGED <<cookie, left, late>>

Expire(s) ==
  /\ rows[s] = "live"
  /\ rows' = [rows EXCEPT ![s] = "expired"]
  /\ UNCHANGED <<cookie, sends, left, late>>

(* Mutant: a logout clears the cookie when the primary has answered it.    *)
ClearsAnswered(kind, reply) == reply # 503 /\ (kind = "logout" \/ reply = 401)

Clears(kind, reply) == kind = "logout" \/ (kind = "session" /\ reply = 401)

(* Set-Cookie of the answer that reaches the browser. *)
NewCookie(kind, reply, s) ==
  IF kind = "verify" /\ reply = 200 THEN s ELSE IF Clears(kind, reply) THEN NoToken ELSE cookie

Told(kind, reply) == IF kind # "logout" THEN {} ELSE IF reply = 200 THEN {"revoked"} ELSE {"cleared"}

(* Answers reach the browser in any order. *)
Receive(t, reply) ==
  LET call == sends[t] IN
  /\ cookie' = NewCookie(call.kind, reply, call.token)
  /\ left' = left \cup {<<call.token, told>> : told \in Told(call.kind, reply)}
  /\ UNCHANGED <<rows, late>>

ReceiveAnswer(t) ==
  /\ Sent(t) /\ sends[t].work = "done" /\ sends[t].waits
  /\ \E reply \in sends[t].reply : Receive(t, reply)
  /\ sends' = [sends EXCEPT ![t] = NoSend]

(* The edge gives up: 503.  The primary may never get the call, or do it   *)
(* later.                                                                  *)
GiveUp(t, lost) ==
  /\ Sent(t) /\ sends[t].waits
  /\ Receive(t, 503)
  /\ sends' = [sends EXCEPT ![t] = IF lost \/ @.work = "done" THEN NoSend ELSE [@ EXCEPT !.waits = FALSE]]

DropAnswer(t) ==
  /\ Sent(t) /\ sends[t].work = "done" /\ ~sends[t].waits
  /\ sends' = [sends EXCEPT ![t] = NoSend]
  /\ UNCHANGED <<rows, cookie, left, late>>

SessionsNext ==
  \/ \E t \in Tabs :
       \/ \E kind \in Kinds : SendCall(t, kind)
       \/ \E s \in Tokens : VerifyLogin(t, s)
       \/ RefuseLogin(t) \/ GetSession(t) \/ HandleRoute(t) \/ RevokeSession(t)
       \/ ReceiveAnswer(t) \/ DropAnswer(t)
       \/ \E lost \in BOOLEAN : GiveUp(t, lost)
  \/ \E s \in Tokens : Expire(s)

SessionsSpec == SessionsInit /\ [][SessionsNext]_sessionVars

(* A browser that logged out has forgotten the token for good, whatever    *)
(* the primary did or did not answer and in whatever order answers came,   *)
(* and once it was told that the session is revoked no call that is still  *)
(* under way is accepted with it (logout of the edge, revokeSession).      *)
LoggedOutForGood ==
  /\ \A s \in Tokens, told \in {"revoked", "cleared"} : <<s, told>> \in left => cookie # s
  /\ ~late
=============================================================================
