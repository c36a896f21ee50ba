------------------------------- MODULE Stream -------------------------------
(***************************************************************************)
(* How a browser learns that something moved: the change bus of            *)
(* services/events.ts, the server-sent events of api/routes/stream.ts, and *)
(* the client of web/src/lib/stream.ts and App.tsx, which reloads when it  *)
(* hears of a change.  The timer of its poll is left out: the page may     *)
(* reload at any time of its own accord, and need not.                     *)
(*                                                                         *)
(* One browser is modelled in full, from the sign-in of its user to the    *)
(* sign-out.  Other browsers matter only because the bus discards what is  *)
(* published while nobody listens.  The data is a version number that      *)
(* grows with every change of a watched symbol; a load reads it at one     *)
(* instant, from a replica that may lag behind, and shows it at another.   *)
(***************************************************************************)
EXTENDS Integers, Sequences, FiniteSets

CONSTANTS
  Symbols,
  Watched,      \* the symbols on the lists of this browser's user
  Replicated,   \* whether reads go to a replica
  HistorySize,  \* events the bus keeps for a reconnect
  Limit,        \* MAX_CONNECTIONS and MAX_PER_USER
  MaxLoads,     \* bound on the loads in flight at once
  MaxVersion,   \* bound on the changes of watched symbols
  MaxSeq,       \* bound on the events of one process
  MaxRestarts,  \* bound on the restarts of the server
  None

ASSUME WatchedAssumption == Watched \subseteq Symbols /\ Watched # {}
ASSUME BoundsAssumption ==
  /\ Replicated \in BOOLEAN
  /\ HistorySize \in Nat \ {0} /\ Limit \in Nat \ {0} /\ MaxLoads \in Nat \ {0}
  /\ MaxVersion \in Nat /\ MaxSeq \in Nat /\ MaxRestarts \in Nat

Versions == 0 .. MaxVersion
Seqs == 0 .. MaxSeq
Events == [seq : Seqs, symbols : SUBSET Symbols]
ASSUME NoneAssumption == None \notin Versions \cup Seqs /\ None \notin Seq(Events)
Messages == [kind : {"hello", "market", "resync", "bye"}, seq : Seqs, symbols : SUBSET Symbols,
             process : 0 .. MaxRestarts]

(* A load in flight: whether a newer one has started, the version it read, *)
(* and the version there was at that instant.                              *)
Loads == [latest : BOOLEAN, read : Versions \cup {None}, asked : Versions \cup {None}]

VARIABLES
  version, replica,         \* the data, and what the replica has of it
  owed,                     \* watched symbols changed, not yet published
  pending, seq, kept,       \* the bus: the batch being gathered, seq, history
  ticket,                   \* whether the client's ticket would be accepted
  attached,                 \* the server has a stream open to this client
  ghosts,                   \* streams whose client is gone, not yet noticed
  leaked,                   \* streams that a failed write has ended
  others,                   \* whether another browser is connected
  connections,              \* the counter the limits are tested with
  wire,                     \* messages on their way to the client
  phase, lastSeq,           \* the client's connection: "waiting", "ticketed", "connected"
  loads, shown, error,      \* the page
  rows,                     \* the symbols of the rows last shown: watchedRef
  \* history
  told,       \* the newest version whose change was published or discarded
  unheard,    \* versions of whose change no event will tell this client
  seen,       \* the version there was when what is shown was read
  counted,    \* the process that counted lastSeq
  restarts

data == <<version, replica, owed>>
bus == <<pending, seq, kept>>
server == <<ticket, attached, ghosts, leaked, others, connections>>
client == <<wire, phase, lastSeq>>
page == <<loads, shown, seen, rows, error>>
history == <<told, unheard, counted, restarts>>
vars == <<data, bus, server, client, page, history>>

Init ==
  /\ version = 0 /\ replica = 0 /\ owed = {}
  /\ pending = {} /\ seq = 0 /\ kept = <<>>
  /\ ticket = FALSE /\ attached = FALSE /\ ghosts = 0 /\ leaked = 0 /\ others = FALSE
  /\ connections = 0
  /\ wire = <<>> /\ phase = "waiting" /\ lastSeq = None
  /\ loads = {} /\ shown = 0 /\ seen = 0 /\ rows = {} /\ error = FALSE
  /\ told = 0 /\ unheard = {} /\ counted = 0 /\ restarts = 0

-----------------------------------------------------------------------------
(* Ingest and the bus. *)

(* A refresh stores a quote or a signal, and publishes it afterwards; of   *)
(* the symbols this browser does not watch only the publishing matters.    *)
Change(s) ==
  /\ s \in Watched \ owed /\ version < MaxVersion
  /\ version' = version + 1
  /\ replica' = IF Replicated THEN replica ELSE version'
  /\ owed' = owed \cup {s}
  /\ UNCHANGED <<bus, server, client, page, history>>

(* The replica catches up, some time or other. *)
Replicate ==
  /\ replica < version
  /\ replica' = replica + 1
  /\ UNCHANGED <<version, owed, bus, server, client, page, history>>

(* A stream that a failed write has ended stays subscribed. *)
subscribers == (IF attached THEN 1 ELSE 0) + (IF others THEN 1 ELSE 0) + ghosts + leaked

(* Nobody will be told of the change of s.  While another watched symbol   *)
(* is still to be published, what is published of it makes good for that.  *)
Untold(s) ==
  /\ told' = IF owed \cap Watched \subseteq {s} THEN version ELSE told
  /\ unheard' = unheard \cup (told + 1) .. told'

(* The refresh fails after the quote is stored: nothing is published. *)
RefreshBreaks(s) ==
  /\ s \in owed
  /\ owed' = owed \ {s}
  /\ Untold(s)
  /\ UNCHANGED <<version, replica, bus, server, client, page, counted, restarts>>

publish(s) ==
  /\ s \in owed \cup (Symbols \ Watched)
  /\ owed' = owed \ {s}
  /\ IF subscribers = 0
     THEN Untold(s) /\ UNCHANGED pending
     ELSE /\ pending' = pending \cup {s}
          /\ told' = IF s \in Watched THEN version ELSE told
          /\ UNCHANGED unheard
  /\ UNCHANGED <<version, replica, seq, kept, server, client, page, counted, restarts>>

Market(e) == [kind |-> "market", seq |-> e.seq, symbols |-> e.symbols, process |-> restarts]
Control(kind) == [kind |-> kind, seq |-> seq, symbols |-> {}, process |-> restarts]

(* The timer of the batch fires: one event for everything gathered. *)
flush ==
  /\ pending # {} /\ seq < MaxSeq
  /\ LET event == [seq |-> seq + 1, symbols |-> pending]
         all == Append(kept, event)
     IN /\ seq' = seq + 1
        /\ kept' = IF Len(all) > HistorySize THEN Tail(all) ELSE all
        /\ wire' = IF attached THEN Append(wire, Market(event)) ELSE wire
  /\ pending' = {}
  /\ UNCHANGED <<data, server, phase, lastSeq, page, history>>

(* The events after `from` are not all kept. *)
Gap(from) == IF kept = <<>> THEN TRUE ELSE from < Head(kept).seq - 1

(* The events after `from`: as they are numbered one by one, and kept in   *)
(* that order, they are the last seq - from.                               *)
After(from) == SubSeq(kept, Len(kept) - (seq - from) + 1, Len(kept))

(* Mutant: what is left of it is answered, though some of it is gone. *)
sinceWhatIsLeft(from) == SelectSeq(kept, LAMBDA e : e.seq > from)

(* What a client that has seen `from` missed, or None. *)
since(from) == IF from >= seq THEN <<>> ELSE IF Gap(from) THEN None ELSE After(from)

-----------------------------------------------------------------------------
(* Connections. *)

streamTicket ==
  /\ phase = "waiting"
  /\ phase' = "ticketed" /\ ticket' = TRUE
  /\ UNCHANGED <<data, bus, attached, ghosts, leaked, others, connections>>
  /\ UNCHANGED <<wire, lastSeq, page, history>>

TicketExpires ==
  /\ ticket
  /\ ticket' = FALSE
  /\ UNCHANGED <<data, bus, attached, ghosts, leaked, others, connections, client, page, history>>

Refused == ~ticket \/ connections >= Limit

(* A refusal is an error event like any other: the client starts again. *)
ConnectRefused ==
  /\ phase = "ticketed" /\ Refused
  /\ phase' = "waiting" /\ ticket' = FALSE
  /\ UNCHANGED <<data, bus, attached, ghosts, leaked, others, connections>>
  /\ UNCHANGED <<wire, lastSeq, page, history>>

(* The first messages of a stream: a greeting, what was missed, or the     *)
(* admission that it cannot be known.                                      *)
Greeting ==
  IF lastSeq = None THEN <<Control("hello")>>
  ELSE IF since(lastSeq) = None THEN <<Control("resync")>>
  ELSE [k \in 1 .. Len(since(lastSeq)) |-> Market(since(lastSeq)[k])]

Resync == lastSeq # None /\ Greeting = <<Control("resync")>>

(* GET /api/stream.  The greeting and the subscription are one step: no    *)
(* event can fall between them.                                            *)
Connect ==
  /\ phase = "ticketed" /\ ~Refused
  /\ phase' = "connected" /\ ticket' = FALSE
  /\ attached' = TRUE /\ connections' = connections + 1
  /\ wire' = Greeting
  /\ unheard' = IF (lastSeq = None \/ counted # restarts) /\ ~Resync THEN unheard \cup 1 .. version
                ELSE unheard
  /\ UNCHANGED <<data, bus, ghosts, leaked, others, lastSeq, page, told, counted, restarts>>

(* The client's side is closed; the server has not noticed yet. *)
Closed ==
  /\ phase' = "waiting" /\ wire' = <<>>
  /\ attached' = FALSE
  /\ ghosts' = IF attached THEN ghosts + 1 ELSE ghosts
  /\ UNCHANGED <<data, bus, ticket, leaked, others, connections, lastSeq, page, history>>

(* The connection breaks, and the client is told. *)
Disconnect == phase = "connected" /\ Closed

(* The connection breaks and only the server notices: a stream that stays  *)
(* open and silent.                                                        *)
Silence ==
  /\ attached
  /\ attached' = FALSE /\ connections' = connections - 1
  /\ UNCHANGED <<data, bus, ticket, ghosts, leaked, others, client, page, history>>

(* A write throws: the stream counts as closed from then on, and cleanup   *)
(* returns at once when the socket is seen to close.  The subscription,    *)
(* the slot and the entry for the shutdown stay until the process ends.    *)
WriteFails ==
  /\ \/ attached /\ attached' = FALSE /\ UNCHANGED <<others, ghosts>>
     \/ others /\ others' = FALSE /\ UNCHANGED <<attached, ghosts>>
     \/ ghosts > 0 /\ ghosts' = ghosts - 1 /\ UNCHANGED <<attached, others>>
  /\ leaked' = leaked + 1
  /\ UNCHANGED <<data, bus, ticket, connections, client, page, history>>

(* Mutant: closing takes the subscription away and keeps the slot. *)
CleanupKeepsSlot ==
  /\ ghosts > 0
  /\ ghosts' = ghosts - 1
  /\ UNCHANGED <<data, bus, ticket, attached, leaked, others, connections, client, page, history>>

(* Mutant: the close and the error of one socket both give the slot back. *)
CleanupTwice ==
  /\ ghosts > 0
  /\ ghosts' = ghosts - 1 /\ connections' = connections - 2
  /\ UNCHANGED <<data, bus, ticket, attached, leaked, others, client, page, history>>

(* cleanup, when the server sees a socket closed. *)
Cleanup ==
  /\ ghosts > 0
  /\ ghosts' = ghosts - 1 /\ connections' = connections - 1
  /\ UNCHANGED <<data, bus, ticket, attached, leaked, others, client, page, history>>

OthersJoin ==
  /\ ~others /\ connections < Limit
  /\ others' = TRUE /\ connections' = connections + 1
  /\ UNCHANGED <<data, bus, ticket, attached, ghosts, leaked, client, page, history>>

OthersLeave ==
  /\ others
  /\ others' = FALSE /\ connections' = connections - 1
  /\ UNCHANGED <<data, bus, ticket, attached, ghosts, leaked, client, page, history>>

(* The process is replaced.  A graceful one says bye; either way the bus,  *)
(* the tickets and what was not yet published are gone.                    *)
Restart ==
  /\ restarts < MaxRestarts
  /\ restarts' = restarts + 1
  /\ wire' \in {wire, IF attached THEN Append(wire, Control("bye")) ELSE wire}
  /\ owed' = {} /\ pending' = {} /\ seq' = 0 /\ kept' = <<>>
  /\ ticket' = FALSE /\ attached' = FALSE /\ ghosts' = 0 /\ leaked' = 0
  /\ others' = FALSE /\ connections' = 0
  /\ unheard' = 1 .. version /\ told' = version
  /\ UNCHANGED <<version, replica, phase, lastSeq, page, counted>>

-----------------------------------------------------------------------------
(* The page. *)

(* Mutant: whatever arrives is shown. *)
ShowsAny(l) == TRUE

(* A newer load has started meanwhile: the older is discarded. *)
Shows(l) == l.latest

(* Bound: at most MaxLoads loads are in flight. *)
load ==
  /\ Cardinality(loads) < MaxLoads
  /\ loads' = {[l EXCEPT !.latest = FALSE] : l \in loads}
                \cup {[latest |-> TRUE, read |-> None, asked |-> None]}

(* GET /api/digest and the rows: market data, from the replica. *)
LoadReads ==
  \E l \in loads :
    /\ l.read = None
    /\ loads' = (loads \ {l}) \cup {[l EXCEPT !.read = replica, !.asked = version]}
    /\ UNCHANGED <<data, bus, server, client, shown, seen, rows, error, history>>

(* With the render that follows. *)
LoadDone ==
  \E l \in loads :
    /\ l.read # None
    /\ loads' = loads \ {l}
    /\ IF Shows(l) THEN shown' = l.read /\ seen' = l.asked /\ rows' = Watched /\ error' = FALSE
                   ELSE UNCHANGED <<shown, seen, rows, error>>
    /\ UNCHANGED <<data, bus, server, client, history>>

(* The page says so until a later load succeeds. *)
LoadFails ==
  \E l \in loads :
    /\ loads' = loads \ {l}
    /\ error' = (error \/ Shows(l))
    /\ UNCHANGED <<data, bus, server, client, shown, seen, rows, history>>

(* After the sign-in, on a poll, and when the tab comes back: whether or   *)
(* not other loads are in flight.                                          *)
Reload ==
  /\ load
  /\ UNCHANGED <<data, bus, server, client, shown, seen, rows, error, history>>

(* What the event says of the user's symbols, and what makes the page      *)
(* reload: it knows those symbols from the rows it shows, none at first.   *)
Touches(msg, symbols) ==
  msg.kind = "resync" \/ (msg.kind = "market" /\ msg.symbols \cap symbols # {})

Relevant(msg) == Touches(msg, rows)

(* An event that matters is passed over, and no load will read what it is  *)
(* about.                                                                  *)
PassedOver(msg) ==
  /\ Touches(msg, Watched) /\ ~Relevant(msg)
  /\ \A l \in loads : ~(l.latest /\ l.read = None)

(* The stream is followed whether the tab is visible or not. *)
Receive ==
  /\ phase = "connected" /\ wire # <<>> /\ Head(wire).kind # "bye"
  /\ lastSeq' = Head(wire).seq /\ counted' = Head(wire).process
  /\ wire' = Tail(wire)
  /\ IF Relevant(Head(wire)) THEN load ELSE UNCHANGED loads
  /\ unheard' = IF PassedOver(Head(wire)) THEN unheard \cup 1 .. told ELSE unheard
  /\ UNCHANGED <<data, bus, server, phase, shown, seen, rows, error, told, restarts>>

(* bye: closed by the client, which comes back later. *)
Bye ==
  /\ phase = "connected" /\ wire # <<>> /\ Head(wire).kind = "bye"
  /\ Closed

Next ==
  \/ \E s \in Symbols : Change(s) \/ publish(s) \/ RefreshBreaks(s)
  \/ Replicate \/ flush \/ streamTicket \/ TicketExpires \/ ConnectRefused \/ Connect
  \/ Disconnect \/ Silence \/ WriteFails \/ Cleanup \/ OthersJoin \/ OthersLeave \/ Restart
  \/ LoadReads \/ LoadDone \/ LoadFails \/ Reload \/ Receive \/ Bye

Spec == Init /\ [][Next]_vars
-----------------------------------------------------------------------------
TypeOK ==
  /\ version \in Versions /\ replica \in Versions /\ owed \subseteq Symbols
  /\ pending \subseteq Symbols /\ seq \in Seqs /\ kept \in Seq(Events)
  /\ ticket \in BOOLEAN /\ attached \in BOOLEAN /\ others \in BOOLEAN
  /\ ghosts \in 0 .. Limit /\ leaked \in 0 .. Limit /\ connections \in 0 .. Limit
  /\ wire \in Seq(Messages)
  /\ phase \in {"waiting", "ticketed", "connected"} /\ lastSeq \in Seqs \cup {None}
  /\ loads \subseteq Loads /\ shown \in Versions /\ seen \in Versions
  /\ rows \subseteq Watched /\ error \in BOOLEAN
  /\ told \in Versions /\ unheard \subseteq Versions /\ counted \in 0 .. MaxRestarts
  /\ restarts \in 0 .. MaxRestarts

(* Every slot belongs to a stream that is open, to one whose end has not   *)
(* been noticed yet, or to one that a failed write has ended: nothing else *)
(* can fill the limits up, and nobody gets in above them.                  *)
SlotsCounted == connections = subscribers /\ connections <= Limit

(* A client that is connected, has read everything sent and has no request *)
(* under way shows every change, except one that no event will tell it of: *)
(* published while nobody listened, not published because the refresh      *)
(* broke, older than a first connection, from before a restart it cannot   *)
(* know of, or passed over before the page had rows.  If reads go to a     *)
(* replica, it may show what that had when the change was there to be      *)
(* read.                                                                   *)
NoSilentGap ==
  (/\ attached /\ wire = <<>> /\ loads = {} /\ ~error
   /\ (owed \cup pending) \cap Watched = {}) =>
    \A v \in 1 .. version : v <= shown \/ v \in unheard \/ (Replicated /\ v <= seen)

(* The numbers on the screen never go back to older ones, in whatever      *)
(* order the answers arrive.                                               *)
DisplayNeverOlder == [][shown' >= shown]_vars
=============================================================================
