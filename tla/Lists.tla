-------------------------------- MODULE Lists --------------------------------
(***************************************************************************)
(* One watchlist and its editors: db/userRepo.ts and the routes of         *)
(* api/routes/core.ts behind withIdempotency, edited by browsers (App.tsx) *)
(* and by scripts, which send no version and may repeat a request with its *)
(* Idempotency-Key.                                                        *)
(*                                                                         *)
(* A transaction is two steps, the SELECT ... FOR UPDATE with the reads    *)
(* under its lock, and the writes with the commit, so that the lock is     *)
(* there to be lost.  Pin, mute, floor, note and place of an item are one  *)
(* value, its preferences.  The list's name, the user's other lists and    *)
(* the creation of lists are left out.                                     *)
(***************************************************************************)
EXTENDS Integers, FiniteSets

CONSTANTS
  Browsers,
  Requests,    \* as many requests as may be under way at once
  Symbols, Keys,
  Prefs, Plain, \* preferences of an item; those of a new one
  MaxSymbols,  \* config.limits.maxSymbolsPerWatchlist
  MaxVersion,  \* bound on the changes of the list
  Foreign,     \* an answer given to another user
  None

ASSUME LimitAssumption == MaxSymbols \in Nat \ {0} /\ MaxVersion \in Nat \ {0}
ASSUME PrefsAssumption == Plain \in Prefs /\ IsFiniteSet(Symbols)
ASSUME NoneAssumption ==
  None \notin Browsers \cup Requests \cup Symbols \cup Keys \cup Prefs \cup {Foreign}
ASSUME ForeignAssumption == Foreign \notin Symbols

Versions == 1 .. MaxVersion
Contents == [Symbols -> Prefs \cup {None}]

Ops == {"add", "remove", "update", "reorder"}
Phases == {"sent", "tx", "locked", "done", "answered"}
Answers == {"none", "ok", "conflict", "error"}
Request ==
  [client : Browsers \cup {None}, op : Ops, symbol : Symbols \cup {None}, version : Versions \cup {None},
   key : Keys \cup {None}, phase : Phases, answer : Answers, got : Versions \cup {None},
   saw : Contents \cup {None}]  \* history: the rows a settled page showed

VARIABLES
  items, version,  \* watchlist_items and watchlists.version; version 0: deleted
  lock,            \* the request that holds the row
  stored,          \* idempotency_keys: the request each stored answer is for, or
                   \* Foreign: the key is the table's, whoever's answer it holds
  req,             \* the requests under way
  copy,            \* the version in each browser's `watchlist`
  lists,           \* its GET /api/watchlists: how far it is, the version read
  rows, load,      \* what it shows; its load of rows: how far it is, the rows read
  error,
  answered,        \* history: keys for which an answer has been given
  clashed          \* history: keys whose last answer was given while another
                   \* user's was stored under them

server == <<items, version, lock, stored>>
page == <<copy, lists, rows, load, error>>
told == <<answered, clashed>>
vars == <<server, req, page, told>>

Steps == {"no", "asked", "read"}
Idle == [step |-> "no", got |-> None]
Asked == [step |-> "asked", got |-> None]
Got(v) == [step |-> "read", got |-> v]

Count(c) == Cardinality({s \in Symbols : c[s] # None})
Empty == [s \in Symbols |-> None]

(* A list that somebody has filled already. *)
Init ==
  /\ items \in {c \in [Symbols -> {Plain, None}] : Count(c) = MaxSymbols}
  /\ version = 1 /\ lock = None
  /\ stored = [k \in Keys |-> None]
  /\ req = [r \in Requests |-> None]
  /\ copy = [b \in Browsers |-> None] /\ lists = [b \in Browsers |-> Idle]
  /\ rows = [b \in Browsers |-> Empty] /\ load = [b \in Browsers |-> Idle]
  /\ error = [b \in Browsers |-> FALSE]
  /\ answered = {} /\ clashed = {}

Busy(r, phase) == req[r] # None /\ req[r].phase = phase
At(q, phase, answer, got) ==
  [client |-> q.client, op |-> q.op, symbol |-> q.symbol, version |-> q.version, key |-> q.key,
   saw |-> q.saw, phase |-> phase, answer |-> answer, got |-> got]
To(r, phase) == req' = [req EXCEPT ![r] = At(req[r], phase, req[r].answer, req[r].got)]
Answer(r, answer, got) == req' = [req EXCEPT ![r] = At(req[r], "answered", answer, got)]

-----------------------------------------------------------------------------
(* The browser. *)

(* loadForUser, when the page is opened. *)
watchlists(b) ==
  /\ copy[b] = None /\ lists[b] = Idle
  /\ lists' = [lists EXCEPT ![b] = Asked]
  /\ UNCHANGED <<server, req, copy, rows, load, error, told>>

ListsRead(b) ==
  /\ lists[b] = Asked
  /\ lists' = [lists EXCEPT ![b] = Got(IF version = 0 THEN None ELSE version)]
  /\ UNCHANGED <<server, req, copy, rows, load, error, told>>

GotLists(b) ==
  /\ lists[b].step = "read"
  /\ copy' = [copy EXCEPT ![b] = lists[b].got] /\ lists' = [lists EXCEPT ![b] = Idle]
  /\ load' = [load EXCEPT ![b] = Asked]
  /\ UNCHANGED <<server, req, rows, error, told>>

(* Nothing is shown, and the copy is what it was. *)
ListsFail(b) ==
  /\ lists[b] # Idle
  /\ lists' = [lists EXCEPT ![b] = Idle]
  /\ UNCHANGED <<server, req, copy, rows, load, error, told>>

(* A poll, or a change heard of.  A newer load replaces one under way.     *)
StartLoad(b) ==
  /\ load[b] = Idle
  /\ load' = [load EXCEPT ![b] = Asked]
  /\ UNCHANGED <<server, req, copy, lists, rows, error, told>>

LoadReads(b) ==
  /\ load[b] = Asked
  /\ load' = [load EXCEPT ![b] = Got(items)]
  /\ UNCHANGED <<server, req, copy, lists, rows, error, told>>

LoadDone(b) ==
  /\ load[b].step = "read"
  /\ rows' = [rows EXCEPT ![b] = load[b].got] /\ error' = [error EXCEPT ![b] = FALSE]
  /\ load' = [load EXCEPT ![b] = Idle]
  /\ UNCHANGED <<server, req, copy, lists, told>>

LoadFails(b) ==
  /\ load[b] # Idle
  /\ load' = [load EXCEPT ![b] = Idle] /\ error' = [error EXCEPT ![b] = TRUE]
  /\ UNCHANGED <<server, req, copy, lists, rows, told>>

(* The bound MaxVersion also ends the sending: nothing is sent to a list   *)
(* that is deleted or has had all its changes, only what is under way goes *)
(* on.                                                                     *)
Send(r, b, op, s, v, k) ==
  /\ req[r] = None /\ version \in 1 .. MaxVersion - 1
  /\ req' = [req EXCEPT ![r] =
       [client |-> b, op |-> op, symbol |-> s, version |-> v, key |-> k,
        phase |-> IF op = "add" THEN "sent" ELSE "tx", answer |-> "none", got |-> None,
        saw |-> IF b # None /\ load[b] = Idle /\ ~error[b] THEN rows[b] ELSE None]]
  /\ UNCHANGED <<server, page, told>>

(* addSymbol, removeSymbol, setPrefs.  Every request of a browser has a    *)
(* key of its own, which nothing will repeat.                              *)
Click(r, b, op, s) ==
  /\ copy[b] # None
  /\ op = "add" \/ rows[b][s] # None
  /\ \A q \in Requests : req[q] # None => <<req[q].client, req[q].symbol>> # <<b, s>>
  /\ Send(r, b, op, s, copy[b], None)

(* Mutant: a conflict takes the version of the server over, and reloads    *)
(* nothing: the change is one click away from being applied.               *)
AfterConflictRetry(b) ==
  /\ copy' = [copy EXCEPT ![b] = IF version = 0 THEN None ELSE version]
  /\ UNCHANGED <<lists, load>>

(* mutateList, after a 409: the lists are asked for again; GotLists starts *)
(* the load.  addSymbol only shows the message.                            *)
AfterConflict(b) ==
  /\ lists' = [lists EXCEPT ![b] = Asked]
  /\ UNCHANGED <<copy, load>>

Receive(r) ==
  /\ Busy(r, "answered")
  /\ req' = [req EXCEPT ![r] = None]
  /\ answered' = IF req[r].key # None /\ req[r].answer = "ok"
                 THEN answered \cup {req[r].key} ELSE answered
  /\ UNCHANGED clashed
  /\ LET b == req[r].client
     IN IF b = None THEN UNCHANGED page
        ELSE /\ CASE req[r].answer = "ok" ->
                       /\ copy' = [copy EXCEPT ![b] = req[r].got]
                       /\ load' = [load EXCEPT ![b] = Asked]
                       /\ UNCHANGED <<lists, error>>
                  [] req[r].answer = "conflict" /\ req[r].op # "add" ->
                       AfterConflict(b) /\ UNCHANGED error
                  [] OTHER ->
                       /\ error' = [error EXCEPT ![b] = @ \/ req[r].op # "add"]
                       /\ UNCHANGED <<copy, lists, load>>
             /\ UNCHANGED rows
  /\ UNCHANGED server

(* SqlClient.tx, when its function throws or its process dies: nothing it  *)
(* wrote was committed, and the row is free again.                         *)
Rollback(r) == lock' = IF lock = r THEN None ELSE lock

(* The answer is lost on its way, or the process dies with the request.  A *)
(* transaction that was open is rolled back.                               *)
Lose(r) ==
  /\ req[r] # None
  /\ Rollback(r)
  /\ req' = [req EXCEPT ![r] = None]
  /\ LET b == req[r].client
     IN error' = IF b # None /\ req[r].op # "add" THEN [error EXCEPT ![b] = TRUE] ELSE error
  /\ UNCHANGED <<items, version, stored, copy, lists, rows, load, told>>

-----------------------------------------------------------------------------
(* A script: no version, and a key it may repeat. *)

Script(r, op, s) ==
  \/ op = "add" /\ \E k \in Keys : Send(r, None, op, s, None, k)
  \/ op \in {"remove", "update"} /\ Send(r, None, op, s, None, None)
  \/ op = "reorder" /\ Send(r, None, op, None, None, None)

-----------------------------------------------------------------------------
(* POST /api/watchlists/:id/items. *)

(* Mutant: the stored answer is found only by the request that stored it. *)
KnownToNobody(r) == FALSE

(* getIdempotent finds the key of this user: not one that another holds.   *)
Known(r) == req[r].key # None /\ stored[req[r].key] \in Symbols

(* withIdempotency: a stored answer of the same body is replayed, one of   *)
(* another body refuses the request, an unknown key runs the handler.      *)
Replay(r) ==
  /\ Busy(r, "sent") /\ Known(r)
  /\ IF stored[req[r].key] = req[r].symbol
     THEN Answer(r, "ok", None)
     ELSE Answer(r, "error", None)
  /\ UNCHANGED <<server, page, told>>

(* The handler begins with ensureInstrument, which writes nothing here: an *)
(* unknown symbol, or a provider that fails on a new one, ends the request. *)
Handle(r) ==
  /\ Busy(r, "sent") /\ ~Known(r)
  /\ To(r, "tx") \/ Answer(r, "error", None)
  /\ UNCHANGED <<server, page, told>>

(* Mutant: SELECT without FOR UPDATE. *)
Reads(r) == TRUE

(* FOR UPDATE waits for the row. *)
Locks(r) == lock = None

Conflict(r) == req[r].version # None /\ req[r].version # version

(* The count is tested before anyone knows whether the symbol is there. *)
Full(r) == req[r].op = "add" /\ Count(items) >= MaxSymbols

(* requireOwned, and the reads of addItem. *)
requireOwned(r) ==
  /\ Busy(r, "tx") /\ Locks(r)
  /\ IF version = 0 \/ Full(r) \/ Conflict(r)
     THEN /\ Answer(r, IF version # 0 /\ Conflict(r) THEN "conflict" ELSE "error", None)
          /\ UNCHANGED lock
     ELSE To(r, "locked") /\ lock' = r
  /\ UNCHANGED <<items, version, stored, page, told>>

(* add and remove bump when they change something, the others always, but  *)
(* for the update of EmptyPatch.                                           *)
Bumps(r) == req[r].op \notin {"add", "remove"} \/ items' # items

(* The writes of a transaction, bump and the commit.  A rename is a        *)
(* reorder that changes nothing.                                           *)
Write(r) ==
  /\ Busy(r, "locked")
  /\ LET s == req[r].symbol IN
     \/ /\ req[r].op = "add"
        /\ items' = IF items[s] # None THEN items ELSE [items EXCEPT ![s] = Plain]
     \/ /\ req[r].op = "remove"
        /\ items' = [items EXCEPT ![s] = None]
     \/ /\ req[r].op = "update" /\ items[s] # None
        /\ \E p \in Prefs : items' = [items EXCEPT ![s] = p]
     \/ /\ req[r].op = "reorder"
        /\ items' \in {c \in Contents : \A t \in Symbols : (c[t] = None) = (items[t] = None)}
  /\ version' = IF Bumps(r) THEN version + 1 ELSE version
  /\ version' \in Versions
  /\ lock' = None
  /\ req' = [req EXCEPT ![r] =
       At(req[r], IF req[r].key = None THEN "answered" ELSE "done",
          IF req[r].op = "remove" /\ items[req[r].symbol] = None THEN "error" ELSE "ok",
          IF req[r].client = None THEN None ELSE version')]
  /\ UNCHANGED <<stored, page, told>>

(* updateItem with nothing to set: it returns the list as it is, without    *)
(* having looked for the symbol.  A browser always sets something.         *)
EmptyPatch(r) ==
  /\ Busy(r, "locked") /\ req[r].op = "update" /\ req[r].client = None
  /\ lock' = None
  /\ Answer(r, "ok", None)
  /\ UNCHANGED <<items, version, stored, page, told>>

(* updateItem of a symbol that is not on the list: rolled back. *)
NotOnList(r) ==
  /\ Busy(r, "locked") /\ req[r].op = "update" /\ items[req[r].symbol] = None
  /\ Rollback(r)
  /\ Answer(r, "error", None)
  /\ UNCHANGED <<items, version, stored, page, told>>

(* ON CONFLICT (key) DO NOTHING: the first answer of a key stays, whoever   *)
(* it was for.                                                             *)
putIdempotent(r) ==
  /\ Busy(r, "done")
  /\ LET k == req[r].key
     IN /\ stored' = IF stored[k] # None THEN stored
                     ELSE [stored EXCEPT ![k] = req[r].symbol]
        /\ clashed' = IF stored[k] = Foreign THEN clashed \cup {k} ELSE clashed \ {k}
  /\ To(r, "answered")
  /\ UNCHANGED <<items, version, lock, page, answered>>

(* Another user's request, on a list of their own, with this key. *)
OthersStore(k) ==
  /\ stored[k] = None
  /\ stored' = [stored EXCEPT ![k] = Foreign]
  /\ UNCHANGED <<items, version, lock, req, page, told>>

(* Housekeeping: the answers of a day ago.  No request of this user that    *)
(* found its key stored is still under way.                                *)
pruneIdempotent(k) ==
  /\ stored[k] # None
  /\ \/ stored[k] = Foreign /\ UNCHANGED told
     \/ /\ stored[k] # Foreign
        /\ \A r \in Requests : req[r] # None => req[r].key # k
        /\ answered' = answered \ {k} /\ clashed' = clashed \ {k}
  /\ stored' = [stored EXCEPT ![k] = None]
  /\ UNCHANGED <<items, version, lock, req, page>>

(* Takes the items with it.  The DELETE waits for the row too. *)
deleteWatchlist ==
  /\ version # 0 /\ lock = None
  /\ version' = 0 /\ items' = Empty
  /\ UNCHANGED <<lock, stored, req, page, told>>

Next ==
  \/ \E b \in Browsers :
       \/ watchlists(b) \/ ListsRead(b) \/ GotLists(b) \/ ListsFail(b)
       \/ StartLoad(b) \/ LoadReads(b) \/ LoadDone(b) \/ LoadFails(b)
       \/ \E r \in Requests, s \in Symbols, op \in Ops \ {"reorder"} : Click(r, b, op, s)
  \/ \E r \in Requests :
       \/ \E s \in Symbols, op \in Ops : Script(r, op, s)
       \/ Replay(r) \/ Handle(r)
       \/ requireOwned(r) \/ Write(r) \/ EmptyPatch(r) \/ NotOnList(r) \/ putIdempotent(r)
       \/ Receive(r) \/ Lose(r)
  \/ \E k \in Keys : OthersStore(k) \/ pruneIdempotent(k)
  \/ deleteWatchlist

Spec == Init /\ [][Next]_vars
-----------------------------------------------------------------------------
(* The types, and the limit of the list: whoever adds at once, a list never *)
(* holds more than MaxSymbols.                                             *)
TypeOK ==
  /\ items \in Contents /\ version \in Versions \cup {0}
  /\ Count(items) <= MaxSymbols
  /\ lock \in Requests \cup {None}
  /\ stored \in [Keys -> Symbols \cup {None, Foreign}]
  /\ req \in [Requests -> Request \cup {None}]
  /\ copy \in [Browsers -> Versions \cup {None}]
  /\ lists \in [Browsers -> [step : Steps, got : Versions \cup {None}]]
  /\ rows \in [Browsers -> Contents]
  /\ load \in [Browsers -> [step : Steps, got : Contents \cup {None}]]
  /\ error \in [Browsers -> BOOLEAN] /\ answered \subseteq Keys
  /\ clashed \subseteq Keys

(* A change a browser sends with the version it knows is applied only to   *)
(* the list its page was showing, unless the page was reloading or showing *)
(* an error when the user clicked: no edit lands unseen on another's edit. *)
NoBlindWrite ==
  [][\A r \in Requests :
       (/\ Busy(r, "locked") /\ req[r].saw # None
        /\ req'[r] # None /\ req'[r].answer = "ok") => req[r].saw = items]_vars

(* While a key is kept, a request whose key has been answered does not run *)
(* the handler again: a client that repeats what it never saw answered is  *)
(* told what happened.  Not so when the answer was given while another     *)
(* user's was stored under the key: it was not stored.                     *)
AnsweredOnce ==
  [][\A r \in Requests :
       (Busy(r, "sent") /\ req'[r] # None /\ req'[r].phase = "tx") =>
         req[r].key \notin answered \ clashed]_vars

(* Without that exception, what the comment on the table says of a retried *)
(* request (db/schema.ts:253).  No run checks it: OthersStore breaks it.   *)
RepeatsAreReplayed ==
  [][\A r \in Requests :
       (Busy(r, "sent") /\ req'[r] # None /\ req'[r].phase = "tx") =>
         req[r].key \notin answered]_vars
=============================================================================
