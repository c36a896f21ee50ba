------------------------------ MODULE Sessions ------------------------------
(***************************************************************************)
(* Accounts and sessions: api/routes/auth.ts over db/authRepo.ts, the hook *)
(* of api/server.ts that resolves a session on every request and slides    *)
(* its expiry, the sweep that prunes, and what the browser's tabs keep of  *)
(* it (web/src/lib/api.ts, App.tsx).                                       *)
(*                                                                         *)
(* One person uses one account from several tabs of one browser.  Time is  *)
(* what is left of a session or a lock, and the age of a statement on its  *)
(* way to the database.  Whether a password is right is a choice.          *)
(***************************************************************************)
EXTENDS Integers, FiniteSets, Functions

CONSTANTS
  Tabs,
  Tokens,      \* bound on the sessions of a behaviour
  TTL,         \* SESSION_TTL_MS
  SlideAfter,  \* SESSION_SLIDE_AFTER_MS
  FreeFailures, MaxLock,  \* the streak that locks, and the longest lock
  Gap,         \* the longest a person who "is active" goes without a request
  Landing,     \* the longest a slide takes to reach the database
  MaxLost,     \* bound on the slides of a session that fail in a row
  None

ASSUME SessionsAssumption ==
  /\ {TTL, SlideAfter, FreeFailures, MaxLock, Gap} \subseteq Nat \ {0}
  /\ {Landing, MaxLost} \subseteq Nat
  /\ None \notin Tokens
(* "Active": even if MaxLost slides fail in a row and the next is slow,    *)
(* it lands before the session it extends has ended, and an extended       *)
(* session is not at once extended again (hours against the fifteen days   *)
(* of SESSION_SLIDE_AFTER_MS and the thirty of SESSION_TTL_MS).            *)
ASSUME SlidesLandInTime ==
  /\ (MaxLost + 1) * (Gap + Landing) < SlideAfter
  /\ SlideAfter + Landing <= TTL

VARIABLES
  account,   \* the row of users: registered, weak (an outdated hash), streak, locked
  left,      \* rows of sessions: token -> the time it has left
  slides,    \* slideExpiry statements under way: [token, age]
  request,   \* tab -> the request to auth.ts it has under way
  token,     \* tab -> the token api.ts holds in memory
  stored,    \* the token in localStorage, common to the tabs
  denied,    \* the tabs with a 401 for a load on its way
  leaving,   \* the tabs that have signed out and wait for the answer
  \* history
  issued, ended,  \* the sessions created; signed out or replaced
  sinceUse,       \* token -> time since its last use; past Gap it stays
  lost            \* token -> slides lost since one landed; a restart loses one

server == <<account, left, slides, request>>
client == <<token, stored, denied, leaving>>
history == <<issued, ended, sinceUse, lost>>
vars == <<server, client, history>>

(* The step of the handler that comes next, and for a login whether the    *)
(* hash it read is outdated.                                               *)
Steps == {"create", "verify", "session", "lock", "change", "endAll"}
Requests == [step : Steps, weak : BOOLEAN]
At(step) == [step |-> step, weak |-> FALSE]

Init ==
  /\ account \in [registered : BOOLEAN, weak : BOOLEAN, streak : {0}, locked : {0}]
  /\ account.weak => account.registered
  /\ left = << >> /\ slides = {}
  /\ request = [t \in Tabs |-> None]
  /\ token = [t \in Tabs |-> None] /\ stored = None /\ denied = {} /\ leaving = {}
  /\ issued = {} /\ ended = {} /\ sinceUse = << >> /\ lost = << >>

getToken(tab) == IF token[tab] # None THEN token[tab] ELSE stored

storeToken(tab, t) ==
  /\ token' = [token EXCEPT ![tab] = t]
  /\ stored' = t

Doing(tab, step) == request[tab] # None /\ request[tab].step = step
Then(tab, r) == request' = [request EXCEPT ![tab] = r]
-----------------------------------------------------------------------------
(* Registration and login. *)

(* The sign-in screen comes up when there is no token, and at once when    *)
(* the person signs out.                                                   *)
SignInShown(tab) == getToken(tab) = None \/ tab \in leaving

(* POST register: the handle is looked up, and the password hashed. *)
Register(tab) ==
  /\ request[tab] = None /\ SignInShown(tab)
  /\ ~account.registered
  /\ Then(tab, At("create"))
  /\ UNCHANGED <<account, left, slides, client, history>>

(* Meanwhile another request may have taken the handle.  (The watchlist    *)
(* and its starter symbols, created next, are Lists.)                      *)
createAccount(tab) ==
  /\ Doing(tab, "create")
  /\ account' = [account EXCEPT !.registered = TRUE]
  /\ Then(tab, IF account.registered THEN None ELSE At("session"))
  /\ UNCHANGED <<left, slides, client, history>>

(* POST login finds the account and, unless it is locked, takes its time   *)
(* over the password.                                                      *)
Login(tab) ==
  /\ request[tab] = None /\ SignInShown(tab)
  /\ account.registered /\ account.locked = 0
  /\ Then(tab, [At("verify") EXCEPT !.weak = account.weak])
  /\ UNCHANGED <<account, left, slides, client, history>>

(* recordFailedLogin, two statements: the streak, then the lock it earns,  *)
(* which grows with the streak.  Past FreeFailures only that matters.      *)
RecordFailure(tab) ==
  LET streak == account.streak + 1
  IN IF streak < FreeFailures
     THEN account' = [account EXCEPT !.streak = streak] /\ Then(tab, None)
     ELSE account' = [account EXCEPT !.streak = FreeFailures - 1] /\ Then(tab, At("lock"))

Lock(tab) ==
  /\ Doing(tab, "lock")
  /\ \E time \in 1 .. MaxLock : account' = [account EXCEPT !.locked = time]
  /\ Then(tab, None)
  /\ UNCHANGED <<left, slides, client, history>>

WrongPassword(tab) ==
  /\ Doing(tab, "verify") \/ Doing(tab, "change")
  /\ RecordFailure(tab)
  /\ UNCHANGED <<left, slides, client, history>>

Cleared == [account EXCEPT !.streak = 0, !.locked = 0]

(* The rows of `ts` are deleted. *)
Delete(ts) == left' = Restrict(left, DOMAIN left \ ts)
End(ts) == Delete(ts) /\ ended' = ended \cup (ts \cap DOMAIN left)

(* clearFailedLogins, and a hash of outdated cost is replaced: setPassword *)
(* without a token to keep, which ends every session of the account.       *)
RightPassword(tab) ==
  /\ Doing(tab, "verify")
  /\ account' = [Cleared EXCEPT !.weak = @ /\ ~request[tab].weak]
  /\ IF request[tab].weak THEN End(DOMAIN left) ELSE UNCHANGED <<left, ended>>
  /\ Then(tab, At("session"))
  /\ UNCHANGED <<slides, client, issued, sinceUse, lost>>

(* createSession, and the browser keeps the token. *)
createSession(tab) ==
  /\ Doing(tab, "session")
  /\ \E t \in Tokens \ issued :
       /\ left' = [u \in DOMAIN left \cup {t} |-> IF u = t THEN TTL ELSE left[u]]
       /\ issued' = issued \cup {t}
       /\ sinceUse' = [u \in issued \cup {t} |-> IF u = t THEN 0 ELSE sinceUse[u]]
       /\ lost' = [u \in issued \cup {t} |-> IF u = t THEN 0 ELSE lost[u]]
       /\ storeToken(tab, t)
  /\ Then(tab, None)
  /\ UNCHANGED <<account, slides, denied, leaving, ended>>
-----------------------------------------------------------------------------
(* Requests that carry a session. *)

(* resolveSession refuses what has expired. *)
Resolves(t) == t \in DOMAIN left /\ left[t] > 0

Slides(t) == left[t] < SlideAfter

Used(t) ==
  /\ slides' = IF Slides(t) THEN slides \cup {[token |-> t, age |-> 0]} ELSE slides
  /\ sinceUse' = [sinceUse EXCEPT ![t] = IF @ > Gap THEN @ ELSE 0]

(* The preHandler: the session is resolved; the slide is not waited for.   *)
(* A load that is refused comes back as a 401.                             *)
Use(tab) ==
  LET t == getToken(tab)
  IN /\ t # None
     /\ token' = [token EXCEPT ![tab] = t]
     /\ IF Resolves(t) THEN Used(t) /\ UNCHANGED denied
                       ELSE denied' = denied \cup {tab} /\ UNCHANGED <<slides, sinceUse>>
     /\ UNCHANGED <<account, left, request, stored, leaving, issued, ended, lost>>

(* App.load: back to the sign-in screen. *)
forgetToken(tab) ==
  /\ tab \in denied
  /\ denied' = denied \ {tab}
  /\ storeToken(tab, None)
  /\ UNCHANGED <<server, leaving, history>>

(* Mutant: an extension writes the row it does not find. *)
slideInserts(s) ==
  /\ s \in slides
  /\ left' = [u \in DOMAIN left \cup {s.token} |-> IF u = s.token THEN TTL - s.age ELSE left[u]]
  /\ slides' = slides \ {s}
  /\ lost' = [lost EXCEPT ![s.token] = 0]
  /\ UNCHANGED <<account, request, client, issued, ended, sinceUse>>

(* The row is extended from the time of the request, if it is still there  *)
(* and had not expired at that time.                                       *)
slideExpiry(s) ==
  /\ s \in slides
  /\ left' = [u \in DOMAIN left |->
                IF u = s.token /\ left[u] + s.age > 0 THEN TTL - s.age ELSE left[u]]
  /\ slides' = slides \ {s}
  /\ lost' = [lost EXCEPT ![s.token] = 0]
  /\ UNCHANGED <<account, request, client, issued, ended, sinceUse>>

(* .catch(() => undefined) *)
SlideFails(s) ==
  /\ s \in slides /\ lost[s.token] < MaxLost
  /\ slides' = slides \ {s}
  /\ lost' = [lost EXCEPT ![s.token] = @ + 1]
  /\ UNCHANGED <<account, left, request, client, issued, ended, sinceUse>>

(* POST password and logout-all, past the preHandler. *)
Ask(tab, step) ==
  LET t == token[tab]
  IN /\ request[tab] = None
     /\ t # None /\ Resolves(t)
     /\ Used(t)
     /\ Then(tab, At(step))
     /\ UNCHANGED <<account, left, client, issued, ended, lost>>

(* setPassword: every other session of the account ends. *)
ChangePassword(tab) ==
  /\ Doing(tab, "change")
  /\ account' = [Cleared EXCEPT !.weak = FALSE]
  /\ End(DOMAIN left \ {token[tab]})
  /\ Then(tab, None)
  /\ UNCHANGED <<slides, client, issued, sinceUse, lost>>

logoutAll(tab) ==
  /\ Doing(tab, "endAll")
  /\ End(DOMAIN left)
  /\ Then(tab, None)
  /\ UNCHANGED <<account, slides, client, issued, sinceUse, lost>>

(* signOut, which nobody waits for: POST logout, with the token of that    *)
(* moment, reaches the server or fails.                                    *)
Logout(tab) ==
  LET t == getToken(tab)
  IN /\ t # None /\ tab \notin leaving /\ request[tab] = None
     /\ End({t}) \/ UNCHANGED <<left, ended>>
     /\ leaving' = leaving \cup {tab}
     /\ token' = [token EXCEPT ![tab] = t]
     /\ UNCHANGED <<account, slides, request, stored, denied, issued, sinceUse, lost>>

(* The answer, or the error: the tab forgets the token it has by then,     *)
(* which a sign-in may have stored meanwhile.                              *)
LogoutAnswered(tab) ==
  /\ tab \in leaving
  /\ leaving' = leaving \ {tab}
  /\ storeToken(tab, None)
  /\ UNCHANGED <<server, denied, history>>

pruneExpiredSessions ==
  /\ \E t \in DOMAIN left : left[t] = 0
  /\ Delete({t \in DOMAIN left : left[t] = 0})
  /\ UNCHANGED <<account, slides, request, client, history>>

(* A tick is days: no request lasts through one, only a slide may. *)
Tick ==
  /\ \A tab \in Tabs : request[tab] = None /\ tab \notin leaving \cup denied
  /\ \A s \in slides : s.age < Landing
  /\ left' = [t \in DOMAIN left |-> IF left[t] > 0 THEN left[t] - 1 ELSE 0]
  /\ slides' = {[token |-> s.token, age |-> s.age + 1] : s \in slides}
  /\ account' = [account EXCEPT !.locked = IF @ > 0 THEN @ - 1 ELSE 0]
  /\ sinceUse' = [t \in issued |-> IF sinceUse[t] > Gap THEN Gap + 1 ELSE sinceUse[t] + 1]
  /\ UNCHANGED <<request, client, issued, ended, lost>>

Sliding == {s.token : s \in slides}

(* A restart: the requests under way are gone, the rows are not.           *)
Restart ==
  /\ request' = [t \in Tabs |-> None]
  /\ slides' = {}
  /\ \A t \in Sliding : lost[t] < MaxLost
  /\ lost' = [t \in issued |-> IF t \in Sliding THEN lost[t] + 1 ELSE lost[t]]
  /\ UNCHANGED <<account, left, client, issued, ended, sinceUse>>

Next ==
  \/ Tick \/ pruneExpiredSessions \/ Restart
  \/ \E s \in slides : slideExpiry(s) \/ SlideFails(s)
  \/ \E tab \in Tabs :
       \/ Register(tab) \/ createAccount(tab)
       \/ Login(tab) \/ RightPassword(tab) \/ WrongPassword(tab) \/ Lock(tab)
       \/ createSession(tab)
       \/ Use(tab) \/ forgetToken(tab)
       \/ Logout(tab) \/ LogoutAnswered(tab)
       \/ Ask(tab, "change") \/ ChangePassword(tab)
       \/ Ask(tab, "endAll") \/ logoutAll(tab)

Spec == Init /\ [][Next]_vars
-----------------------------------------------------------------------------
Active(t) == sinceUse[t] <= Gap

(* A session that was signed out, or ended by a password, never has a row  *)
(* again, whatever slide of it is still under way; and the session of a    *)
(* person who stays active does not end by itself: it is extended before   *)
(* it expires and before the sweep can take it, although no request waits  *)
(* for the extension and MaxLost in a row may fail.                        *)
EndsOnlyWhenEnded ==
  \A t \in issued :
    /\ t \in ended => t \notin DOMAIN left
    /\ t \notin ended /\ Active(t) => Resolves(t)
=============================================================================
