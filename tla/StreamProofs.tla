---------------------------- MODULE StreamProofs ----------------------------
(***************************************************************************)
(* Theorems about Stream for any sets of symbols, any limit, any number of *)
(* loads in flight and any length of the history of the bus.               *)
(***************************************************************************)
EXTENDS Stream, TLAPS

(* A stream the server has open is one the client has not closed. *)
Slots ==
  /\ ghosts \in Nat /\ leaked \in Nat
  /\ connections = (IF attached THEN 1 ELSE 0) + (IF others THEN 1 ELSE 0) + ghosts + leaked
  /\ connections <= Limit
  /\ attached => phase = "connected"

(* What a load has read is not newer than the data; of the loads in flight *)
(* one at most is the latest, and it has read nothing older than what is   *)
(* shown, because it read after whatever is shown had been read.           *)
Fresh ==
  /\ version \in Versions /\ replica \in Versions /\ shown \in Versions /\ seen \in Versions
  /\ shown <= replica /\ replica <= version /\ seen <= version
  /\ loads \subseteq Loads
  /\ \A l \in loads :
       l.read # None => /\ l.asked # None /\ l.read <= replica /\ l.asked <= version
                        /\ l.latest => shown <= l.read /\ seen <= l.asked
  /\ \A l, m \in loads : (l.latest /\ m.latest) => l = m

(* Without a replica nothing lags. *)
Straight ==
  ~Replicated => replica = version /\ shown = seen /\ \A l \in loads : l.read = l.asked

(* The events kept are numbered one by one up to seq. *)
Numbered == \A i \in 1 .. Len(kept) : kept[i].seq = seq - Len(kept) + i

(* A position is how far a client has read: the number of an event, and    *)
(* the process that counted it.  Lost(n, p): reconnecting there, the       *)
(* client is told of something it watches, or no event tells it of         *)
(* anything so far (see unheard).                                          *)
Lost(n, p) ==
  \/ n = None \/ p # restarts
  \/ n < seq /\ (Gap(n) \/ \E i \in 1 .. Len(kept) :
                             kept[i].seq > n /\ kept[i].symbols \cap Watched # {})

(* What is on the wire follows what was read, in order, and is what the    *)
(* bus has kept, as far as it is kept.                                     *)
OnWire ==
  /\ phase # "connected" => wire = <<>>
  /\ attached => /\ phase = "connected"
                 /\ \A i \in 1 .. Len(wire) : wire[i].process = restarts
  /\ counted <= restarts
  /\ lastSeq # None /\ counted = restarts => lastSeq <= seq
  /\ \A i \in 1 .. Len(wire) :
       LET m == wire[i]
       IN /\ counted <= m.process /\ m.process <= restarts
          /\ m.process = restarts => m.seq <= seq
          /\ m.kind = "bye" => m.process < restarts
          /\ m.kind \in {"hello", "resync"} => i = 1
          /\ counted = m.process /\ lastSeq # None =>
               lastSeq <= m.seq /\ (m.kind # "bye" => lastSeq < m.seq)
          /\ counted = restarts /\ m.kind = "resync" => lastSeq # None /\ Gap(lastSeq)
          /\ m.process = restarts /\ m.kind = "market" =>
               \A j \in 1 .. Len(kept) : kept[j].seq = m.seq => kept[j].symbols = m.symbols
  /\ \A i, j \in 1 .. Len(wire) :
       i < j => wire[i].process = wire[j].process /\ wire[i].seq <= wire[j].seq
                /\ (wire[j].kind # "bye" => wire[i].seq < wire[j].seq)

(* Why a change that is told of, and that the page does not show, will     *)
(* still reach it.                                                         *)
Loading(v) == \E l \in loads : l.latest /\ (l.read = None \/ l.asked >= v)
Failed == error /\ \A l \in loads : ~l.latest
Sent == \E i \in 1 .. Len(wire) : Touches(wire[i], Watched)

(* Where the client will be when it has read the wire. *)
Ahead ==
  IF wire = <<>> THEN [seq |-> lastSeq, process |-> counted]
  ELSE [seq |-> wire[Len(wire)].seq, process |-> wire[Len(wire)].process]

Undelivered == Sent \/ (~attached /\ Lost(Ahead.seq, Ahead.process))

Coming ==
  /\ told <= version
  /\ told < version => owed \cap Watched # {}
  /\ \A v \in 1 .. told :
       \/ v \in unheard \/ v <= seen \/ pending \cap Watched # {}
       \/ Loading(v) \/ Failed \/ Undelivered

GapInv == TypeOK /\ Slots /\ Fresh /\ Straight /\ Numbered /\ OnWire /\ Coming

-----------------------------------------------------------------------------
LEMMA SlotsInductive == Slots /\ [Next]_vars => Slots'
<1> SUFFICES ASSUME Slots, [Next]_vars PROVE Slots'
  OBVIOUS
<1>1. /\ ghosts \in Nat /\ leaked \in Nat /\ Limit \in Nat
      /\ connections = (IF attached THEN 1 ELSE 0) + (IF others THEN 1 ELSE 0) + ghosts + leaked
      /\ connections <= Limit
      /\ attached => phase = "connected"
  BY BoundsAssumption DEF Slots
<1>2. CASE /\ UNCHANGED <<attached, others, ghosts, leaked, connections>>
           /\ UNCHANGED phase \/ phase' = "connected" \/ phase # "connected"
  BY <1>1, <1>2 DEF Slots
<1>3. CASE Connect
  <2>1. /\ attached' = TRUE /\ connections' = connections + 1
        /\ UNCHANGED <<others, ghosts, leaked>> /\ phase' = "connected" /\ phase = "ticketed"
        /\ ~(connections >= Limit)
    BY <1>3 DEF Connect, Refused
  <2>2. QED
    BY <1>1, <2>1, SMT DEF Slots
<1>4. CASE Closed
  <2>1. /\ attached' = FALSE /\ UNCHANGED <<others, leaked, connections>>
        /\ ghosts' = IF attached THEN ghosts + 1 ELSE ghosts
    BY <1>4 DEF Closed
  <2>2. QED
    BY <1>1, <2>1, SMT DEF Slots
<1>5. CASE Silence
  <2>1. /\ attached' = FALSE /\ attached /\ connections' = connections - 1
        /\ UNCHANGED <<others, ghosts, leaked>>
    BY <1>5 DEF Silence
  <2>2. QED
    BY <1>1, <2>1, SMT DEF Slots
<1>5a. CASE WriteFails
  <2>1. /\ \/ attached /\ attached' = FALSE /\ UNCHANGED <<others, ghosts>>
           \/ others /\ others' = FALSE /\ UNCHANGED <<attached, ghosts>>
           \/ ghosts > 0 /\ ghosts' = ghosts - 1 /\ UNCHANGED <<attached, others>>
        /\ leaked' = leaked + 1 /\ UNCHANGED <<connections, phase>>
    BY <1>5a DEF WriteFails, client
  <2>2. QED
    BY <1>1, <2>1, SMT DEF Slots
<1>6. CASE Cleanup
  <2>1. /\ ghosts > 0 /\ ghosts' = ghosts - 1 /\ connections' = connections - 1
        /\ UNCHANGED <<attached, leaked, others, phase>>
    BY <1>6 DEF Cleanup, client
  <2>2. QED
    BY <1>1, <2>1, SMT DEF Slots
<1>7. CASE OthersJoin
  <2>1. /\ ~others /\ others' = TRUE /\ connections < Limit /\ connections' = connections + 1
        /\ UNCHANGED <<attached, ghosts, leaked, phase>>
    BY <1>7 DEF OthersJoin, client
  <2>2. QED
    BY <1>1, <2>1, SMT DEF Slots
<1>8. CASE OthersLeave
  <2>1. /\ others /\ others' = FALSE /\ connections' = connections - 1
        /\ UNCHANGED <<attached, ghosts, leaked, phase>>
    BY <1>8 DEF OthersLeave, client
  <2>2. QED
    BY <1>1, <2>1, SMT DEF Slots
<1>9. CASE Restart
  BY <1>1, <1>9 DEF Restart, Slots
<1>10. QED
  BY <1>1, <1>2, <1>3, <1>4, <1>5, <1>5a, <1>6, <1>7, <1>8, <1>9
     DEF Next, vars, server, client, Change, Replicate, RefreshBreaks, publish, flush,
         streamTicket, TicketExpires, ConnectRefused, Disconnect, LoadReads, LoadDone, LoadFails,
         Reload, Receive, Bye

(* The limits on open streams are not passed, and each slot is given back  *)
(* once, whoever ends the stream; the slot of a stream that a failed write *)
(* has ended is not given back, and nothing else keeps one                 *)
(* (routes/stream.ts, write and cleanup).                                  *)
THEOREM SlotsKept == Spec => []SlotsCounted
<1>1. Init => Slots
  BY BoundsAssumption DEF Init, Slots
<1>2. Slots => SlotsCounted
  BY DEF Slots, SlotsCounted, subscribers
<1>3. QED
  BY <1>1, <1>2, SlotsInductive, PTL DEF Spec

-----------------------------------------------------------------------------
(* A new load: every other one is late from now on. *)
LEMMA LoadFresh ==
  ASSUME Fresh, load, UNCHANGED <<version, replica, shown, seen>>
  PROVE  Fresh'
<1> DEFINE new == [latest |-> TRUE, read |-> None, asked |-> None]
<1>1. loads' = {[l EXCEPT !.latest = FALSE] : l \in loads} \cup {new}
  BY DEF load
<1>2. \A l \in loads : /\ [l EXCEPT !.latest = FALSE] \in Loads
                       /\ [l EXCEPT !.latest = FALSE].read = l.read
                       /\ [l EXCEPT !.latest = FALSE].asked = l.asked
                       /\ ~[l EXCEPT !.latest = FALSE].latest
  BY DEF Fresh, Loads
<1>3. new \in Loads /\ new.read = None
  BY DEF Loads
<1> HIDE DEF new
<1>4. \A m \in loads' :
        \/ m = new
        \/ \E l \in loads : m \in Loads /\ m.read = l.read /\ m.asked = l.asked /\ ~m.latest
  BY <1>1, <1>2
<1>5. loads' \subseteq Loads
  BY <1>3, <1>4
<1>6. \A m \in loads' :
        m.read # None => /\ m.asked # None /\ m.read <= replica /\ m.asked <= version
                         /\ m.latest => shown <= m.read /\ seen <= m.asked
  BY <1>3, <1>4 DEF Fresh
<1>7. \A l, m \in loads' : (l.latest /\ m.latest) => l = m
  BY <1>4
<1>8. QED
  BY <1>5, <1>6, <1>7 DEF Fresh

LEMMA LoadReadsFresh ==
  ASSUME Fresh, LoadReads
  PROVE  Fresh'
<1>1. PICK l \in loads :
        /\ l.read = None
        /\ loads' = (loads \ {l}) \cup {[l EXCEPT !.read = replica, !.asked = version]}
        /\ UNCHANGED <<version, replica, shown, seen>>
  BY DEF LoadReads, data
<1>2. PICK new : new = [l EXCEPT !.read = replica, !.asked = version]
  OBVIOUS
<1>3. new \in Loads /\ new.read = replica /\ new.asked = version /\ new.latest = l.latest
  BY <1>2 DEF Fresh, Loads
<1>4. \A m \in loads' : m \in loads \ {l} \/ m = new
  BY <1>1, <1>2
<1>5. /\ version \in Int /\ replica \in Int /\ version # None
      /\ shown <= replica /\ replica <= version /\ seen <= version
  BY NoneAssumption DEF Fresh, Versions
<1>6. loads' \subseteq Loads
  BY <1>3, <1>4 DEF Fresh
<1>7. \A m \in loads' :
        m.read # None => /\ m.asked # None /\ m.read <= replica /\ m.asked <= version
                         /\ m.latest => shown <= m.read /\ seen <= m.asked
  BY <1>3, <1>4, <1>5 DEF Fresh
<1>8. \A m, n \in loads' : (m.latest /\ n.latest) => m = n
  BY <1>1, <1>3, <1>4 DEF Fresh
<1>9. QED
  BY <1>1, <1>6, <1>7, <1>8 DEF Fresh

LEMMA LoadDoneFresh ==
  ASSUME Fresh, LoadDone \/ LoadFails
  PROVE  Fresh' /\ shown' >= shown /\ seen' >= seen
<1>1. CASE LoadDone
  <2>1. PICK l \in loads : /\ l.read # None /\ loads' = loads \ {l}
                           /\ UNCHANGED <<version, replica>>
                           /\ IF l.latest THEN shown' = l.read /\ seen' = l.asked
                              ELSE UNCHANGED <<shown, seen>>
    BY <1>1 DEF LoadDone, Shows, data
  <2>2. /\ l.read \in Versions /\ l.read <= replica /\ shown \in Int
        /\ l.asked \in Versions /\ l.asked <= version /\ seen \in Int
    BY <2>1 DEF Fresh, Loads, Versions
  <2>3. CASE l.latest
    <3>1. \A m \in loads' : m \in loads /\ ~m.latest
      BY <2>1, <2>3 DEF Fresh
    <3>2. shown' = l.read /\ shown <= l.read /\ seen' = l.asked /\ seen <= l.asked
      BY <2>1, <2>3 DEF Fresh
    <3>3. QED
      BY <2>1, <2>2, <3>1, <3>2 DEF Fresh, Versions
  <2>4. CASE ~l.latest
    BY <2>1, <2>2, <2>4 DEF Fresh, Versions
  <2>5. QED
    BY <2>3, <2>4
<1>2. CASE LoadFails
  <2>1. loads' \subseteq loads /\ UNCHANGED <<version, replica, shown, seen>>
    BY <1>2 DEF LoadFails, data
  <2>2. QED
    BY <2>1 DEF Fresh, Versions
<1>3. QED
  BY <1>1, <1>2

LEMMA FreshInductive == Fresh /\ [Next]_vars => Fresh' /\ shown' >= shown
<1> SUFFICES ASSUME Fresh, [Next]_vars PROVE Fresh' /\ shown' >= shown
  OBVIOUS
<1>1. shown \in Int /\ version \in Versions /\ replica \in Versions
  BY DEF Fresh, Versions
<1>2. CASE UNCHANGED <<version, replica, shown, seen, loads>>
  BY <1>1, <1>2 DEF Fresh
<1>3. ASSUME /\ version' \in Versions /\ replica' \in Versions /\ replica' <= version'
             /\ version <= version' /\ replica <= replica'
             /\ UNCHANGED <<shown, seen, loads>>
      PROVE  Fresh' /\ shown' >= shown
  <2>1. version \in Int /\ version' \in Int /\ replica \in Int /\ replica' \in Int
        /\ shown \in Int /\ seen \in Int
    BY <1>3 DEF Fresh, Versions
  <2>2. \A l \in loads : l.read # None => l.read \in Int /\ l.asked \in Int
    BY DEF Fresh, Loads, Versions
  <2>3. \A l \in loads' :
          l.read # None => /\ l.asked # None /\ l.read <= replica' /\ l.asked <= version'
                           /\ l.latest => shown' <= l.read /\ seen' <= l.asked
    BY <1>3, <2>1, <2>2 DEF Fresh
  <2>4. shown' <= replica' /\ seen' <= version'
    BY <1>3, <2>1 DEF Fresh
  <2>5. QED
    BY <1>3, <2>1, <2>3, <2>4 DEF Fresh
<1>4. ASSUME NEW s \in Symbols, Change(s) PROVE Fresh' /\ shown' >= shown
  <2>1. /\ version' = version + 1 /\ version < MaxVersion /\ UNCHANGED <<shown, seen, loads>>
        /\ replica' = replica \/ replica' = version'
    BY <1>4 DEF Change, page
  <2>2. version \in Nat /\ replica \in Nat /\ MaxVersion \in Nat /\ replica <= version
    BY BoundsAssumption DEF Fresh, Versions
  <2>3. version' \in Versions /\ replica' \in Versions /\ replica' <= version'
        /\ version <= version' /\ replica <= replica'
    BY <2>1, <2>2 DEF Versions
  <2>4. QED
    BY <1>3, <2>1, <2>3
<1>5. CASE Replicate
  <2>1. replica < version /\ replica' = replica + 1 /\ version' = version
        /\ UNCHANGED <<shown, seen, loads>>
    BY <1>5 DEF Replicate, page
  <2>2. version' \in Versions /\ replica' \in Versions /\ replica' <= version'
        /\ version <= version' /\ replica <= replica'
    BY <1>1, <2>1, BoundsAssumption DEF Versions
  <2>3. QED
    BY <1>3, <2>1, <2>2
<1>6. CASE load /\ UNCHANGED <<version, replica, shown, seen>>
  BY <1>6, <1>1, LoadFresh
<1>7. CASE LoadReads
  <2>1. Fresh'
    BY <1>7, LoadReadsFresh
  <2>2. shown' = shown
    BY <1>7 DEF LoadReads
  <2>3. QED
    BY <1>1, <2>1, <2>2
<1>8. CASE LoadDone \/ LoadFails
  BY <1>8, LoadDoneFresh
<1>9. CASE Reload \/ Receive
  BY <1>9, <1>2, <1>6 DEF Reload, Receive, data
<1>10. QED
  BY <1>2, <1>4, <1>5, <1>7, <1>8, <1>9
     DEF Next, vars, data, page, RefreshBreaks, publish, flush, streamTicket, TicketExpires,
         ConnectRefused, Connect, Disconnect, Silence, WriteFails, Cleanup, OthersJoin,
         OthersLeave, Restart, Bye, Closed

LEMMA StraightInductive == Fresh /\ Straight /\ [Next]_vars => Straight'
<1> SUFFICES ASSUME Fresh, Straight, [Next]_vars, ~Replicated
             PROVE  replica' = version' /\ shown' = seen' /\ \A l \in loads' : l.read = l.asked
  BY DEF Straight
<1>1. replica = version /\ shown = seen /\ (\A l \in loads : l.read = l.asked)
  BY DEF Straight
<1>2. CASE UNCHANGED <<version, replica, shown, seen, loads>>
  BY <1>1, <1>2
<1>3. ASSUME NEW s \in Symbols, Change(s)
      PROVE  replica' = version' /\ shown' = seen' /\ \A l \in loads' : l.read = l.asked
  BY <1>1, <1>3 DEF Change, page
<1>4. CASE Replicate
  BY <1>1, <1>4 DEF Replicate, Fresh, Versions
<1>5. ASSUME load PROVE \A l \in loads' : l.read = l.asked
  <2>1. \A l \in loads : [l EXCEPT !.latest = FALSE].read = [l EXCEPT !.latest = FALSE].asked
    BY <1>1 DEF Fresh, Loads
  <2>2. PICK new : new = [latest |-> TRUE, read |-> None, asked |-> None]
    OBVIOUS
  <2>3. loads' = {[l EXCEPT !.latest = FALSE] : l \in loads} \cup {new}
    BY <1>5, <2>2 DEF load
  <2>4. new.read = new.asked
    BY <2>2
  <2>5. QED
    BY <2>1, <2>3, <2>4
<1>6. CASE Reload \/ Receive
  BY <1>1, <1>5, <1>6 DEF Reload, Receive, data
<1>7. CASE LoadReads
  <2>1. PICK l \in loads :
          /\ loads' = (loads \ {l}) \cup {[l EXCEPT !.read = replica, !.asked = version]}
          /\ UNCHANGED <<version, replica, shown, seen>>
    BY <1>7 DEF LoadReads, data
  <2>2. LET new == [l EXCEPT !.read = replica, !.asked = version]
        IN  new.read = replica /\ new.asked = version
    BY DEF Fresh, Loads
  <2>3. QED
    BY <1>1, <2>1, <2>2
<1>8. CASE LoadDone \/ LoadFails
  BY <1>1, <1>8 DEF LoadDone, LoadFails, data
<1>9. QED
  BY <1>2, <1>3, <1>4, <1>6, <1>7, <1>8
     DEF Next, vars, data, page, RefreshBreaks, publish, flush, streamTicket, TicketExpires,
         ConnectRefused, Connect, Disconnect, Silence, WriteFails, Cleanup, OthersJoin,
         OthersLeave, Restart, Bye, Closed

(* The page never goes back to older numbers, however many loads are in    *)
(* flight and in whatever order they are answered (App.tsx, refresh).      *)
THEOREM NothingOlderShown == Spec => DisplayNeverOlder
<1>1. Init => Fresh
  BY BoundsAssumption DEF Init, Fresh, Versions
<1>2. Fresh /\ [Next]_vars => [shown' >= shown]_vars
  BY FreshInductive
<1>3. QED
  BY <1>1, <1>2, FreshInductive, PTL DEF Spec, DisplayNeverOlder

-----------------------------------------------------------------------------
(* Type correctness. *)

LEMMA BoundsType ==
  /\ Seqs = 0 .. MaxSeq /\ Versions = 0 .. MaxVersion
  /\ MaxSeq \in Nat /\ MaxVersion \in Nat /\ MaxRestarts \in Nat /\ HistorySize \in Nat \ {0}
  /\ Limit \in Nat /\ 0 \in Seqs /\ 0 \in Versions
  /\ \A n \in Seqs : n \in Int /\ n >= 0 /\ n # None
  /\ \A n \in Versions : n \in Int /\ n >= 0 /\ n # None
  BY BoundsAssumption, NoneAssumption DEF Seqs, Versions

LEMMA SlotsBound ==
  Slots => ghosts \in 0 .. Limit /\ leaked \in 0 .. Limit /\ connections \in 0 .. Limit
<1> SUFFICES ASSUME Slots
             PROVE ghosts \in 0 .. Limit /\ leaked \in 0 .. Limit /\ connections \in 0 .. Limit
  OBVIOUS
<1>1. /\ ghosts \in Nat /\ leaked \in Nat /\ Limit \in Nat /\ connections <= Limit
      /\ connections = (IF attached THEN 1 ELSE 0) + (IF others THEN 1 ELSE 0) + ghosts + leaked
  BY BoundsType DEF Slots
<1>2. connections >= ghosts /\ connections >= leaked /\ connections \in Int
  BY <1>1
<1>3. QED
  BY <1>1, <1>2

(* The messages of an event and of the stream itself. *)
LEMMA MessageType ==
  ASSUME restarts \in 0 .. MaxRestarts, seq \in Seqs
  PROVE  /\ \A e \in Events : Market(e) \in Messages
         /\ Control("hello") \in Messages /\ Control("resync") \in Messages
         /\ Control("bye") \in Messages
  BY DEF Market, Control, Messages, Events

(* The events that follow one that the bus has kept, or whose successor it *)
(* has kept: as many as were counted since, the last ones.                 *)
LEMMA AfterType ==
  ASSUME TypeOK, Numbered, NEW n \in Seqs, n < seq, ~Gap(n)
  PROVE  /\ since(n) = After(n) /\ After(n) \in Seq(Events) /\ Len(After(n)) = seq - n
         /\ seq - n <= Len(kept)
         /\ \A i \in 1 .. seq - n : /\ After(n)[i] = kept[Len(kept) - (seq - n) + i]
                                    /\ After(n)[i].seq = n + i
<1> DEFINE l == Len(kept)
           d == l - (seq - n)
<1>1. /\ n \in Int /\ seq \in Int /\ kept \in Seq(Events) /\ l \in Nat
      /\ kept # <<>> /\ ~(n < Head(kept).seq - 1)
  BY BoundsType DEF TypeOK, Gap
<1>2. l >= 1 /\ Head(kept) = kept[1]
  BY <1>1
<1>3. kept[1].seq = seq - l + 1
  BY <1>1, <1>2 DEF Numbered
<1>4. d \in Nat /\ d <= l
  BY <1>1, <1>2, <1>3
<1>5. After(n) = SubSeq(kept, d + 1, l)
  BY DEF After
<1> HIDE DEF d
<1>6. /\ SubSeq(kept, d + 1, l) \in Seq(Events) /\ Len(SubSeq(kept, d + 1, l)) = l - d
      /\ \A i \in 1 .. l - d : SubSeq(kept, d + 1, l)[i] = kept[d + i]
  BY <1>1, <1>4
<1>7. \A i \in 1 .. l - d : d + i \in 1 .. l
  BY <1>1, <1>4
<1>8. \A i \in 1 .. l - d : kept[d + i].seq = seq - l + (d + i)
  BY <1>7 DEF Numbered
<1>9. l - d = seq - n /\ d = l - (seq - n)
  BY <1>1, <1>4 DEF d
<1>10. \A i \in 1 .. l - d : seq - l + (d + i) = n + i
  BY <1>1, <1>4, <1>9
<1>11. since(n) = After(n)
  BY <1>1 DEF since
<1>12. seq - n <= l
  BY <1>1, <1>4, <1>9
<1>13. \A i \in 1 .. seq - n : /\ After(n)[i] = kept[d + i] /\ After(n)[i].seq = n + i
  BY <1>5, <1>6, <1>8, <1>9, <1>10
<1>14. After(n) \in Seq(Events) /\ Len(After(n)) = seq - n
  BY <1>5, <1>6, <1>9
<1>15. QED
  BY <1>9, <1>11, <1>12, <1>13, <1>14

(* since() filters the history by number: that leaves the events of After, *)
(* those that follow the first Len(kept) - (seq - n).                      *)
LEMMA AfterIsWhatFollows ==
  ASSUME TypeOK, Numbered, NEW n \in Seqs, NEW j \in 1 .. Len(kept)
  PROVE  kept[j].seq > n <=> j > Len(kept) - (seq - n)
<1>1. kept[j].seq = seq - Len(kept) + j
  BY DEF Numbered
<1>2. n \in Int /\ seq \in Int /\ Len(kept) \in Nat /\ j \in Int
  BY BoundsType DEF TypeOK
<1>3. QED
  BY <1>1, <1>2

(* What a stream begins with, in the four cases there are. *)
LEMMA GreetingCases ==
  ASSUME TypeOK, Numbered
  PROVE  \/ lastSeq = None /\ Greeting = <<Control("hello")>> /\ ~Resync
         \/ lastSeq # None /\ lastSeq < seq /\ Gap(lastSeq) /\ Greeting = <<Control("resync")>>
            /\ Resync
         \/ lastSeq # None /\ lastSeq >= seq /\ Greeting = <<>> /\ ~Resync
         \/ /\ lastSeq # None /\ lastSeq < seq /\ ~Gap(lastSeq) /\ ~Resync
            /\ Greeting = [k \in 1 .. seq - lastSeq |-> Market(After(lastSeq)[k])]
<1>1. CASE lastSeq = None
  BY <1>1 DEF Greeting, Resync
<1>2. CASE lastSeq # None
  <2>1. lastSeq \in Seqs /\ lastSeq \in Int /\ seq \in Int
    BY <1>2, BoundsType DEF TypeOK
  <2>2. CASE lastSeq >= seq
    <3>1. <<>> \in Seq(Events)
      OBVIOUS
    <3>2. since(lastSeq) = <<>> /\ <<>> # None
      BY <2>2, <3>1, NoneAssumption DEF since
    <3>3. Greeting = [k \in 1 .. 0 |-> Market(since(lastSeq)[k])]
      BY <1>2, <3>2 DEF Greeting
    <3>4. Greeting = <<>>
      BY <3>3
    <3>5. QED
      BY <1>2, <2>2, <3>4 DEF Resync
  <2>3. CASE lastSeq < seq /\ Gap(lastSeq)
    <3>1. since(lastSeq) = None
      BY <2>1, <2>3 DEF since
    <3>2. QED
      BY <1>2, <2>3, <3>1 DEF Greeting, Resync
  <2>4. CASE lastSeq < seq /\ ~Gap(lastSeq)
    <3>1. /\ since(lastSeq) = After(lastSeq) /\ After(lastSeq) \in Seq(Events)
          /\ Len(After(lastSeq)) = seq - lastSeq
      BY <2>1, <2>4, AfterType
    <3>2. since(lastSeq) # None
      BY <3>1, NoneAssumption
    <3>3. Greeting = [k \in 1 .. seq - lastSeq |-> Market(After(lastSeq)[k])]
      BY <1>2, <3>1, <3>2 DEF Greeting
    <3>4. seq - lastSeq \in Nat /\ seq - lastSeq >= 1
      BY <2>1, <2>4
    <3>5. Greeting[1].kind = "market"
      BY <3>3, <3>4 DEF Market
    <3>6. ~Resync
      BY <3>5 DEF Resync, Control
    <3>7. QED
      BY <1>2, <2>4, <3>3, <3>6
  <2>5. QED
    BY <2>1, <2>2, <2>3, <2>4
<1>3. QED
  BY <1>1, <1>2

LEMMA GreetingType ==
  ASSUME TypeOK, Numbered
  PROVE  Greeting \in Seq(Messages)
<1>1. /\ \A e \in Events : Market(e) \in Messages
      /\ Control("hello") \in Messages /\ Control("resync") \in Messages
  BY MessageType DEF TypeOK
<1>2. CASE /\ lastSeq # None /\ lastSeq < seq /\ ~Gap(lastSeq)
           /\ Greeting = [k \in 1 .. seq - lastSeq |-> Market(After(lastSeq)[k])]
  <2>1. lastSeq \in Seqs /\ seq - lastSeq \in Nat
    BY <1>2, BoundsType DEF TypeOK
  <2>2. After(lastSeq) \in Seq(Events) /\ Len(After(lastSeq)) = seq - lastSeq
    BY <1>2, <2>1, AfterType
  <2>3. \A k \in 1 .. seq - lastSeq : After(lastSeq)[k] \in Events
    BY <2>2
  <2>4. \A k \in 1 .. seq - lastSeq : Greeting[k] \in Messages
    BY <1>1, <1>2, <2>3
  <2>5. QED
    BY <1>2, <2>1, <2>4
<1>3. <<Control("hello")>> \in Seq(Messages) /\ <<Control("resync")>> \in Seq(Messages)
      /\ <<>> \in Seq(Messages)
  BY <1>1
<1>4. QED
  BY <1>2, <1>3, GreetingCases

LEMMA InitTypeOK == Init => TypeOK
<1> SUFFICES ASSUME Init PROVE TypeOK
  OBVIOUS
<1>1. <<>> \in Seq(Events) /\ <<>> \in Seq(Messages) /\ 0 \in 0 .. Limit /\ 0 \in 0 .. MaxRestarts
  BY BoundsType
<1>2. QED
  BY <1>1, BoundsType DEF Init, TypeOK

(* What the other two invariants say of the types. *)
LEMMA RestTyped ==
  ASSUME Slots, Fresh
  PROVE  /\ ghosts \in 0 .. Limit /\ leaked \in 0 .. Limit /\ connections \in 0 .. Limit
         /\ version \in Versions /\ replica \in Versions /\ loads \subseteq Loads
         /\ shown \in Versions /\ seen \in Versions
  BY SlotsBound DEF Fresh

Typed ==
  /\ owed \subseteq Symbols
  /\ pending \subseteq Symbols /\ seq \in Seqs /\ kept \in Seq(Events)
  /\ ticket \in BOOLEAN /\ attached \in BOOLEAN /\ others \in BOOLEAN
  /\ wire \in Seq(Messages)
  /\ phase \in {"waiting", "ticketed", "connected"} /\ lastSeq \in Seqs \cup {None}
  /\ rows \subseteq Watched /\ error \in BOOLEAN
  /\ told \in Versions /\ unheard \subseteq Versions /\ counted \in 0 .. MaxRestarts
  /\ restarts \in 0 .. MaxRestarts

LEMMA UntoldTyped ==
  ASSUME told \in Versions, version \in Versions, unheard \subseteq Versions,
         NEW s \in Symbols, Untold(s)
  PROVE  unheard' \subseteq Versions
<1>1. told' \in Versions /\ told \in Nat /\ told' \in Nat
  BY BoundsType DEF Untold
<1>2. (told + 1) .. told' \subseteq Versions
  BY <1>1, BoundsType
<1>3. QED
  BY <1>2 DEF Untold

LEMMA StepTyped == TypeOK /\ Numbered /\ [Next]_vars => Typed'
<1> SUFFICES ASSUME TypeOK, Numbered, [Next]_vars PROVE Typed'
  OBVIOUS
<1> USE DEF data, bus, server, client, page, history
<1>1. Typed /\ version \in Versions
  BY DEF TypeOK, Typed
<1>2. CASE UNCHANGED vars
  BY <1>1, <1>2 DEF Typed, vars
<1>3. ASSUME NEW s \in Symbols, Change(s) PROVE Typed'
  BY <1>1, <1>3 DEF Typed, Change
<1>4. ASSUME NEW s \in Symbols, publish(s) PROVE Typed'
  <2>1. told' \in Versions /\ (unheard' = unheard \/ Untold(s))
    BY <1>1, <1>4 DEF Typed, publish, Untold
  <2>2. unheard' \subseteq Versions
    BY <1>1, <2>1, UntoldTyped DEF Typed
  <2>3. pending' \subseteq Symbols /\ owed' \subseteq Symbols
    BY <1>1, <1>4 DEF Typed, publish
  <2>4. QED
    BY <1>1, <1>4, <2>1, <2>2, <2>3 DEF Typed, publish
<1>4a. ASSUME NEW s \in Symbols, RefreshBreaks(s) PROVE Typed'
  <2>1. told' \in Versions /\ unheard' \subseteq Versions
    BY <1>1, <1>4a, UntoldTyped DEF Typed, RefreshBreaks, Untold
  <2>2. QED
    BY <1>1, <1>4a, <2>1 DEF Typed, RefreshBreaks
<1>5. CASE flush
  <2> DEFINE event == [seq |-> seq + 1, symbols |-> pending]
  <2>1. seq + 1 \in Seqs
    BY <1>1, <1>5, BoundsType DEF Typed, flush
  <2>2. event \in Events
    BY <1>1, <2>1 DEF Events, Typed
  <2>3. Market(event) \in Messages
    BY <1>1, <2>2, MessageType DEF Typed
  <2> HIDE DEF event
  <2>4. Append(kept, event) \in Seq(Events) /\ Append(kept, event) # <<>>
        /\ Append(wire, Market(event)) \in Seq(Messages)
    BY <1>1, <2>2, <2>3 DEF Typed
  <2>5. Tail(Append(kept, event)) \in Seq(Events)
    BY <2>4
  <2>6. seq' = seq + 1 /\ kept' \in {Append(kept, event), Tail(Append(kept, event))}
        /\ wire' \in {wire, Append(wire, Market(event))} /\ pending' = {}
    BY <1>5 DEF flush, event
  <2>7. QED
    BY <1>1, <1>5, <2>1, <2>4, <2>5, <2>6 DEF Typed, flush
<1>6. CASE streamTicket \/ TicketExpires \/ ConnectRefused
  BY <1>1, <1>6 DEF Typed, streamTicket, TicketExpires, ConnectRefused
<1>7. CASE Connect
  <2>1. Greeting \in Seq(Messages)
    BY GreetingType
  <2>2. 1 .. version \subseteq Versions
    BY <1>1, BoundsType
  <2>3. unheard' \subseteq Versions
    BY <1>1, <1>7, <2>2 DEF Typed, Connect
  <2>4. QED
    BY <1>1, <1>7, <2>1, <2>3 DEF Typed, Connect
<1>8. CASE Disconnect \/ Bye
  <2>1. Closed /\ <<>> \in Seq(Messages)
    BY <1>8 DEF Disconnect, Bye
  <2>2. QED
    BY <1>1, <2>1 DEF Typed, Closed
<1>9. CASE Silence \/ WriteFails \/ Cleanup \/ OthersJoin \/ OthersLeave \/ Replicate
  BY <1>1, <1>9 DEF Typed, Silence, WriteFails, Cleanup, OthersJoin, OthersLeave, Replicate
<1>10. CASE Restart
  <2>1. Control("bye") \in Messages
    BY <1>1, MessageType DEF Typed
  <2>2. wire' \in Seq(Messages)
    BY <1>1, <1>10, <2>1 DEF Typed, Restart
  <2>3. 1 .. version \subseteq Versions /\ restarts' \in 0 .. MaxRestarts
    BY <1>1, <1>10, BoundsType DEF Typed, Restart
  <2>4. <<>> \in Seq(Events) /\ 0 \in Seqs
    BY BoundsType
  <2>5. QED
    BY <1>1, <1>10, <2>2, <2>3, <2>4 DEF Typed, Restart
<1>11. CASE LoadReads \/ LoadDone
  BY <1>1, <1>11 DEF Typed, LoadReads, LoadDone
<1>12. CASE LoadFails
  <2>1. error' \in BOOLEAN
    BY <1>12 DEF LoadFails
  <2>2. QED
    BY <1>1, <1>12, <2>1 DEF Typed, LoadFails
<1>13. CASE Reload
  BY <1>1, <1>13 DEF Typed, Reload
<1>14. CASE Receive
  <2>1. wire # <<>> /\ wire \in Seq(Messages)
    BY <1>1, <1>14 DEF Typed, Receive
  <2>2. Head(wire) \in Messages /\ Tail(wire) \in Seq(Messages)
    BY <2>1
  <2>3. Head(wire).seq \in Seqs /\ Head(wire).process \in 0 .. MaxRestarts
    BY <2>2 DEF Messages
  <2>4. 1 .. told \subseteq Versions
    BY <1>1, BoundsType DEF Typed
  <2>5. unheard' \subseteq Versions
    BY <1>1, <1>14, <2>4 DEF Typed, Receive
  <2>6. QED
    BY <1>1, <1>14, <2>2, <2>3, <2>5 DEF Typed, Receive
<1>15. QED
  BY <1>2, <1>3, <1>4, <1>4a, <1>5, <1>6, <1>7, <1>8, <1>9, <1>10, <1>11, <1>12, <1>13, <1>14
     DEF Next

LEMMA StepTypeOK == TypeOK /\ Numbered /\ Slots' /\ Fresh' /\ [Next]_vars => TypeOK'
<1> SUFFICES ASSUME TypeOK, Numbered, Slots', Fresh', [Next]_vars PROVE TypeOK'
  OBVIOUS
<1>1. Typed'
  BY StepTyped
<1>2. /\ (ghosts \in 0 .. Limit /\ leaked \in 0 .. Limit /\ connections \in 0 .. Limit)'
      /\ (version \in Versions /\ replica \in Versions /\ loads \subseteq Loads)'
      /\ (shown \in Versions /\ seen \in Versions)'
  BY RestTyped, PTL
<1>3. QED
  BY <1>1, <1>2 DEF Typed, TypeOK

-----------------------------------------------------------------------------
(* The bus. *)

(* A new event is the last one kept, and the first may give way to it. *)
LEMMA FlushKept ==
  ASSUME TypeOK, flush
  PROVE  /\ seq' = seq + 1
         /\ \E d \in {0, 1} :
              /\ d <= Len(kept) /\ Len(kept') = Len(kept) + 1 - d
              /\ \A i \in 1 .. Len(kept) - d : kept'[i] = kept[i + d]
              /\ kept'[Len(kept')] = [seq |-> seq + 1, symbols |-> pending]
<1> DEFINE event == [seq |-> seq + 1, symbols |-> pending]
           all == Append(kept, event)
<1>1. /\ seq' = seq + 1 /\ kept \in Seq(Events)
      /\ kept' = IF Len(all) > HistorySize THEN Tail(all) ELSE all
  BY DEF flush, TypeOK
<1>2. seq + 1 \in Seqs /\ pending \in SUBSET Symbols
  BY BoundsType DEF flush, TypeOK
<1>3. event \in Events
  BY <1>2 DEF Events
<1> HIDE DEF event
<1>4. /\ all \in Seq(Events) /\ Len(all) = Len(kept) + 1 /\ Len(kept) \in Nat
      /\ all[Len(kept) + 1] = event /\ \A i \in 1 .. Len(kept) : all[i] = kept[i]
  BY <1>1, <1>3
<1>5. CASE Len(all) > HistorySize
  <2>1. Len(kept) >= 1
    BY <1>4, <1>5, BoundsType
  <2>2. /\ Len(Tail(all)) = Len(kept)
        /\ \A i \in 1 .. Len(kept) : Tail(all)[i] = all[i + 1]
    <3> HIDE DEF all
    <3> QED
      BY <1>4, <2>1
  <2>3. \A i \in 1 .. Len(kept) - 1 : kept'[i] = kept[i + 1]
    BY <1>1, <1>4, <1>5, <2>2
  <2>4. kept'[Len(kept)] = event
    BY <1>1, <1>4, <1>5, <2>1, <2>2
  <2>5. Len(kept') = Len(kept) /\ Len(kept) = Len(kept) + 1 - 1
    BY <1>1, <1>4, <1>5, <2>2
  <2>6. QED
    BY <1>1, <2>1, <2>3, <2>4, <2>5 DEF event
<1>6. CASE ~(Len(all) > HistorySize)
  <2>1. kept' = all
    BY <1>1, <1>6
  <2>2. Len(kept') = Len(kept) + 1 - 0 /\ Len(kept') = Len(kept) + 1
    BY <1>4, <2>1
  <2>3. \A i \in 1 .. Len(kept) - 0 : kept'[i] = kept[i + 0]
    BY <1>4, <2>1
  <2>4. kept'[Len(kept')] = event
    BY <1>4, <2>1, <2>2
  <2>5. QED
    BY <1>1, <1>4, <2>2, <2>3, <2>4 DEF event
<1>7. QED
  BY <1>5, <1>6

LEMMA StepNumbered == TypeOK /\ Numbered /\ [Next]_vars => Numbered'
<1> SUFFICES ASSUME TypeOK, Numbered, [Next]_vars PROVE Numbered'
  OBVIOUS
<1>1. CASE UNCHANGED <<seq, kept>>
  BY <1>1 DEF Numbered
<1>2. CASE flush
  <2>1. PICK d \in {0, 1} :
          /\ d <= Len(kept) /\ Len(kept') = Len(kept) + 1 - d
          /\ \A i \in 1 .. Len(kept) - d : kept'[i] = kept[i + d]
          /\ kept'[Len(kept')] = [seq |-> seq + 1, symbols |-> pending]
    BY <1>2, FlushKept
  <2>2. seq' = seq + 1 /\ Len(kept) \in Nat /\ seq \in Int
    BY <1>2, FlushKept, BoundsType DEF TypeOK
  <2>3. ASSUME NEW i \in 1 .. Len(kept') PROVE kept'[i].seq = seq' - Len(kept') + i
    <3>1. CASE i = Len(kept')
      BY <2>1, <2>2, <3>1
    <3>2. CASE i # Len(kept')
      <4>1. i \in 1 .. Len(kept) - d /\ i + d \in 1 .. Len(kept) /\ i \in Int
        BY <2>1, <2>2, <3>2
      <4>2. kept'[i].seq = seq - Len(kept) + (i + d)
        BY <2>1, <4>1 DEF Numbered
      <4>3. seq - Len(kept) + (i + d) = seq' - Len(kept') + i
        BY <2>1, <2>2, <4>1
      <4>4. QED
        BY <4>2, <4>3
    <3>3. QED
      BY <3>1, <3>2
  <2>4. QED
    BY <2>3 DEF Numbered
<1>3. CASE Restart
  <2>1. kept' = <<>> /\ Len(<<>>) = 0
    BY <1>3 DEF Restart
  <2>2. QED
    BY <2>1 DEF Numbered
<1>4. QED
  BY <1>1, <1>2, <1>3
     DEF Next, vars, bus, Change, Replicate, RefreshBreaks, publish, streamTicket, TicketExpires,
         ConnectRefused, Connect, Disconnect, Bye, Closed, Silence, WriteFails, Cleanup,
         OthersJoin, OthersLeave, LoadReads, LoadDone, LoadFails, Reload, Receive

(* What was kept no more stays lost. *)
LEMMA GapStays ==
  ASSUME TypeOK, Numbered, flush, NEW n \in Seqs, n < seq, Gap(n)
  PROVE  Gap(n)'
<1>1. PICK d \in {0, 1} :
        /\ d <= Len(kept) /\ Len(kept') = Len(kept) + 1 - d
        /\ \A i \in 1 .. Len(kept) - d : kept'[i] = kept[i + d]
        /\ kept'[Len(kept')] = [seq |-> seq + 1, symbols |-> pending]
  BY FlushKept
<1>2. /\ seq' = seq + 1 /\ Len(kept) \in Nat /\ seq \in Int /\ n \in Int /\ kept \in Seq(Events)
  BY FlushKept, BoundsType DEF TypeOK
<1>3. Numbered' /\ TypeOK
  BY StepNumbered DEF Next
<1>4. Len(kept') \in 1 .. Len(kept) + 1 /\ 1 \in 1 .. Len(kept')
  BY <1>1, <1>2
<1>5. kept'[1].seq = seq' - Len(kept') + 1
  BY <1>3, <1>4 DEF Numbered
<1>6. n < kept'[1].seq - 1
  <2>1. CASE kept = <<>>
    <3>1. Len(kept) = 0
      BY <2>1
    <3>2. QED
      BY <1>1, <1>2, <1>5, <3>1
  <2>2. CASE kept # <<>>
    <3>1. Head(kept) = kept[1] /\ Len(kept) >= 1
      BY <1>2, <2>2
    <3>2. kept[1].seq = seq - Len(kept) + 1
      BY <1>2, <3>1 DEF Numbered
    <3>3. n < kept[1].seq - 1
      BY <2>2, <3>1 DEF Gap
    <3>4. QED
      BY <1>1, <1>2, <1>5, <3>2, <3>3
  <2>3. QED
    BY <2>1, <2>2
<1>7. Head(kept') = kept'[1]
  OBVIOUS
<1>8. QED
  BY <1>6, <1>7 DEF Gap

-----------------------------------------------------------------------------
(* What is lost to a position. *)

Positions == Seqs \cup {None}

LEMMA LostStays ==
  ASSUME TypeOK, Numbered, flush, NEW n \in Positions, NEW p, Lost(n, p)
  PROVE  Lost(n, p)'
<1>1. restarts' = restarts
  BY DEF flush, history
<1>2. CASE n = None \/ p # restarts
  BY <1>1, <1>2 DEF Lost
<1>3. CASE ~(n = None \/ p # restarts)
  <2>1. n \in Seqs /\ n < seq /\ seq' = seq + 1 /\ n \in Int /\ seq \in Int
    BY <1>3, FlushKept, BoundsType DEF Lost, Positions, TypeOK
  <2>2. n < seq'
    BY <2>1
  <2>3. CASE Gap(n)
    BY <2>1, <2>2, <2>3, GapStays DEF Lost
  <2>4. CASE ~Gap(n)
    <3>1. PICK i \in 1 .. Len(kept) : kept[i].seq > n /\ kept[i].symbols \cap Watched # {}
      BY <1>3, <2>4 DEF Lost
    <3>2. PICK d \in {0, 1} :
            /\ d <= Len(kept) /\ Len(kept') = Len(kept) + 1 - d
            /\ \A j \in 1 .. Len(kept) - d : kept'[j] = kept[j + d]
      BY FlushKept
    <3>3. Len(kept) \in Nat /\ i \in Int /\ i >= 1 /\ i <= Len(kept)
      BY DEF TypeOK
    <3>4. CASE i - d >= 1
      <4>1. i - d \in 1 .. Len(kept) - d /\ i - d \in 1 .. Len(kept')
        BY <3>2, <3>3, <3>4
      <4>2. kept'[i - d] = kept[(i - d) + d] /\ (i - d) + d = i
        BY <3>2, <3>3, <4>1
      <4>3. kept'[i - d].seq > n /\ kept'[i - d].symbols \cap Watched # {}
        BY <3>1, <4>2
      <4>4. QED
        BY <2>2, <4>1, <4>3 DEF Lost
    <3>5. CASE ~(i - d >= 1)
      <4>1. d = 1 /\ i = 1
        BY <3>2, <3>3, <3>5
      <4>2. kept[1].seq = seq - Len(kept) + 1
        BY <4>1 DEF Numbered
      <4>3. Len(kept') = Len(kept) /\ Len(kept) >= 1
        BY <3>2, <3>3, <4>1
      <4>4. Numbered'
        BY StepNumbered DEF Next
      <4>5. kept'[1].seq = seq' - Len(kept') + 1
        BY <3>3, <4>3, <4>4 DEF Numbered
      <4>6. n < kept'[1].seq - 1
        BY <2>1, <3>1, <3>3, <4>1, <4>2, <4>3, <4>5
      <4>7. Head(kept') = kept'[1]
        OBVIOUS
      <4>8. Gap(n)'
        BY <4>6, <4>7 DEF Gap
      <4>9. QED
        BY <2>2, <4>8 DEF Lost
    <3>6. QED
      BY <3>4, <3>5
  <2>5. QED
    BY <2>3, <2>4
<1>4. QED
  BY <1>2, <1>3

(* The new event is lost to every position before it. *)
LEMMA LostNew ==
  ASSUME TypeOK, flush, pending \cap Watched # {}, NEW n \in Positions, NEW p,
         p = restarts /\ n # None => n <= seq
  PROVE  Lost(n, p)'
<1>1. PICK d \in {0, 1} :
        /\ d <= Len(kept) /\ Len(kept') = Len(kept) + 1 - d
        /\ kept'[Len(kept')] = [seq |-> seq + 1, symbols |-> pending]
  BY FlushKept
<1>2. restarts' = restarts /\ seq' = seq + 1 /\ seq \in Int /\ Len(kept) \in Nat
  BY FlushKept, BoundsType DEF flush, history, TypeOK
<1>3. CASE n = None \/ p # restarts
  BY <1>2, <1>3 DEF Lost
<1>4. CASE ~(n = None \/ p # restarts)
  <2>1. n \in Int /\ n <= seq
    BY <1>4, BoundsType DEF Positions
  <2>2. n < seq' /\ seq + 1 > n
    BY <1>2, <2>1
  <2>3. Len(kept') \in 1 .. Len(kept')
    BY <1>1, <1>2
  <2>4. kept'[Len(kept')].seq > n /\ kept'[Len(kept')].symbols \cap Watched # {}
    BY <1>1, <2>2
  <2>5. QED
    BY <2>2, <2>3, <2>4 DEF Lost
<1>5. QED
  BY <1>3, <1>4

(* What is lost to a position is lost to the ones before it. *)
LEMMA LostEarlier ==
  ASSUME TypeOK, NEW n \in Seqs, NEW k \in Positions, NEW q,
         Lost(n, restarts), q = restarts /\ k # None => k <= n
  PROVE  Lost(k, q)
<1>1. CASE k = None \/ q # restarts
  BY <1>1 DEF Lost
<1>2. CASE ~(k = None \/ q # restarts)
  <2>1. k \in Int /\ n \in Int /\ k <= n /\ n # None /\ seq \in Int
    BY <1>2, BoundsType DEF Positions, TypeOK
  <2>2. n < seq
    BY <2>1 DEF Lost
  <2>3. k < seq
    BY <2>1, <2>2
  <2>4. CASE Gap(n)
    <3>1. CASE kept = <<>>
      BY <2>3, <3>1 DEF Gap, Lost
    <3>2. CASE kept # <<>>
      <4>1. kept \in Seq(Events) /\ n < Head(kept).seq - 1
        BY <2>4, <3>2 DEF Gap, TypeOK
      <4>2. Head(kept) \in Events
        BY <3>2, <4>1
      <4>3. Head(kept).seq \in Int
        BY <4>2, BoundsType DEF Events
      <4>4. k < Head(kept).seq - 1
        BY <2>1, <4>1, <4>3
      <4>5. QED
        BY <2>3, <3>2, <4>4 DEF Gap, Lost
    <3>3. QED
      BY <3>1, <3>2
  <2>5. CASE ~Gap(n)
    <3>1. PICK i \in 1 .. Len(kept) : kept[i].seq > n /\ kept[i].symbols \cap Watched # {}
      BY <2>1, <2>5 DEF Lost
    <3>2. kept[i] \in Events
      BY <3>1 DEF TypeOK
    <3>3. kept[i].seq > k
      BY <2>1, <3>1, <3>2, BoundsType DEF Events
    <3>4. QED
      BY <2>3, <3>1, <3>3 DEF Lost
  <2>6. QED
    BY <2>4, <2>5
<1>3. QED
  BY <1>1, <1>2

(* A message on the wire that matters is lost to a client that has not     *)
(* read it, should the wire be cut.                                        *)
LEMMA WireLost ==
  ASSUME TypeOK, Numbered, OnWire, Sent
  PROVE  Lost(lastSeq, counted)
<1>1. PICK i \in 1 .. Len(wire) : Touches(wire[i], Watched)
  BY DEF Sent
<1>2. PICK m \in Messages : m = wire[i]
  BY DEF TypeOK
<1>3. m.kind = "resync" \/ (m.kind = "market" /\ m.symbols \cap Watched # {})
  BY <1>1, <1>2 DEF Touches
<1>4. CASE lastSeq = None \/ counted # restarts
  BY <1>4 DEF Lost
<1>5. CASE ~(lastSeq = None \/ counted # restarts)
  <2>1. /\ counted <= m.process /\ m.process <= restarts
        /\ m.process = restarts => m.seq <= seq
        /\ counted = m.process /\ lastSeq # None =>
             lastSeq <= m.seq /\ (m.kind # "bye" => lastSeq < m.seq)
        /\ counted = restarts /\ m.kind = "resync" => lastSeq # None /\ Gap(lastSeq)
        /\ m.process = restarts /\ m.kind = "market" =>
             \A j \in 1 .. Len(kept) : kept[j].seq = m.seq => kept[j].symbols = m.symbols
    BY <1>2 DEF OnWire
  <2>2. m.process \in Int /\ counted \in Int /\ restarts \in Int
    BY DEF Messages, TypeOK
  <2>3. counted = m.process /\ m.process = restarts
    BY <1>5, <2>1, <2>2
  <2>4. lastSeq < m.seq /\ m.seq <= seq
    BY <1>3, <1>5, <2>1, <2>3
  <2>5. lastSeq \in Int /\ m.seq \in Int /\ seq \in Int
    BY <1>5, BoundsType DEF TypeOK, Messages
  <2>6. lastSeq < seq
    BY <2>4, <2>5
  <2>7. CASE m.kind = "resync"
    BY <1>5, <2>1, <2>6, <2>7 DEF Lost
  <2>8. CASE m.kind = "market" /\ m.symbols \cap Watched # {}
    <3> DEFINE l == Len(kept)
               j == m.seq - seq + l
    <3>1. l \in Nat /\ j \in Int
      BY <2>5 DEF TypeOK
    <3>2. CASE j >= 1
      <4>1. j \in 1 .. l
        BY <2>4, <2>5, <3>1, <3>2
      <4>2. kept[j].seq = seq - l + j
        BY <4>1 DEF Numbered
      <4>3. kept[j].seq = m.seq
        BY <2>5, <3>1, <4>2
      <4>4. kept[j].symbols = m.symbols
        BY <2>1, <2>3, <2>8, <4>1, <4>3
      <4> HIDE DEF j
      <4>5. QED
        BY <2>4, <2>6, <2>8, <4>1, <4>3, <4>4 DEF Lost
    <3>3. CASE ~(j >= 1)
      <4>1. CASE kept = <<>>
        BY <2>6, <4>1 DEF Gap, Lost
      <4>2. CASE kept # <<>>
        <5>1. kept \in Seq(Events)
          BY DEF TypeOK
        <5>2. 1 \in 1 .. l /\ Head(kept) = kept[1]
          BY <4>2, <5>1
        <5>3. kept[1].seq = seq - l + 1
          BY <5>2 DEF Numbered
        <5>4. lastSeq < Head(kept).seq - 1
          BY <2>4, <2>5, <3>1, <3>3, <5>2, <5>3
        <5>5. QED
          BY <2>6, <4>2, <5>4 DEF Gap, Lost
      <4>3. QED
        BY <4>1, <4>2
    <3>4. QED
      BY <3>2, <3>3
  <2>9. QED
    BY <1>3, <2>7, <2>8
<1>6. QED
  BY <1>4, <1>5

LEMMA AheadType ==
  ASSUME TypeOK, OnWire
  PROVE  /\ Ahead.seq \in Positions
         /\ Ahead.process = restarts /\ Ahead.seq # None => Ahead.seq <= seq
<1>1. CASE wire = <<>>
  BY <1>1 DEF Ahead, Positions, TypeOK, OnWire
<1>2. CASE wire # <<>>
  <2>1. wire \in Seq(Messages)
    BY DEF TypeOK
  <2>2. Len(wire) \in 1 .. Len(wire)
    BY <1>2, <2>1
  <2>3. PICK m \in Messages : m = wire[Len(wire)]
    BY <2>1, <2>2
  <2>4. m.process = restarts => m.seq <= seq
    BY <2>2, <2>3 DEF OnWire
  <2>5. QED
    BY <1>2, <2>3, <2>4 DEF Ahead, Positions, Messages
<1>3. QED
  BY <1>1, <1>2

LEMMA AheadLost ==
  ASSUME TypeOK, OnWire, Lost(Ahead.seq, Ahead.process)
  PROVE  Lost(lastSeq, counted)
<1>1. CASE wire = <<>>
  BY <1>1 DEF Ahead
<1>2. CASE wire # <<>>
  <2>1. wire \in Seq(Messages)
    BY DEF TypeOK
  <2>2. Len(wire) \in 1 .. Len(wire)
    BY <1>2, <2>1
  <2>3. PICK m \in Messages : m = wire[Len(wire)]
    BY <2>1, <2>2
  <2>4. /\ counted <= m.process /\ m.process <= restarts
        /\ counted = m.process /\ lastSeq # None => lastSeq <= m.seq
    BY <2>2, <2>3 DEF OnWire
  <2>5. Lost(m.seq, m.process)
    BY <1>2, <2>3 DEF Ahead
  <2>6. m.process \in Int /\ counted \in Int /\ restarts \in Int /\ lastSeq \in Positions
    BY DEF Messages, TypeOK, Positions
  <2>7. CASE counted # restarts
    BY <2>7 DEF Lost
  <2>8. CASE counted = restarts
    <3>1. m.process = restarts
      BY <2>4, <2>6, <2>8
    <3>2. QED
      BY <2>4, <2>5, <2>6, <2>8, <3>1, LostEarlier DEF Messages
  <2>9. QED
    BY <2>7, <2>8
<1>3. QED
  BY <1>1, <1>2

-----------------------------------------------------------------------------
(* The wire. *)

LEMMA QuietOnWire ==
  ASSUME OnWire, UNCHANGED <<wire, lastSeq, counted, restarts, seq, kept>>,
         phase' = phase \/ (phase # "connected" /\ phase' # "connected"),
         attached' => attached
  PROVE  OnWire'
<1>1. /\ phase' # "connected" => wire' = <<>>
      /\ attached' => phase' = "connected"
  BY DEF OnWire
<1>2. \A n : Gap(n)' <=> Gap(n)
  BY DEF Gap
<1>3. QED
  BY <1>1, <1>2 DEF OnWire

LEMMA EmptyOnWire ==
  ASSUME OnWire, UNCHANGED <<lastSeq, counted, restarts, seq>>, wire' = <<>>, attached' = FALSE
  PROVE  OnWire'
<1>1. Len(wire') = 0 /\ 1 .. 0 = {}
  OBVIOUS
<1>2. \A i \in 1 .. Len(wire') : FALSE
  BY <1>1
<1>3. QED
  BY <1>2 DEF OnWire

LEMMA RestartOnWire ==
  ASSUME TypeOK, OnWire, Restart
  PROVE  OnWire'
<1> DEFINE bye == Control("bye")
<1>1. /\ restarts' = restarts + 1 /\ attached' = FALSE /\ UNCHANGED <<phase, lastSeq, counted>>
      /\ wire' = wire \/ (attached /\ wire' = Append(wire, bye))
      /\ kept' = <<>> /\ seq' = 0
  BY DEF Restart
<1>2. /\ restarts \in Int /\ counted \in Int /\ counted <= restarts /\ seq \in Seqs
      /\ wire \in Seq(Messages)
      /\ lastSeq # None /\ counted = restarts => lastSeq <= seq
  BY DEF TypeOK, OnWire
<1>3. bye \in Messages /\ bye.kind = "bye" /\ bye.seq = seq /\ bye.process = restarts
  BY <1>2, MessageType DEF Control, TypeOK
<1> HIDE DEF bye
<1>4. /\ phase' # "connected" => wire' = <<>>
      /\ counted' <= restarts' /\ ~(counted' = restarts')
  BY <1>1, <1>2 DEF OnWire
<1>5. ASSUME NEW i \in 1 .. Len(wire'), ~(i \in 1 .. Len(wire) /\ wire'[i] = wire[i])
      PROVE  i = Len(wire) + 1 /\ wire'[i] = bye /\ attached
  BY <1>1, <1>2, <1>3, <1>5
<1>6. \A i \in 1 .. Len(wire) : wire[i] \in Messages
  BY <1>2
<1>7. ASSUME NEW i \in 1 .. Len(wire')
      PROVE  LET m == wire'[i]
             IN /\ counted <= m.process /\ m.process < restarts'
                /\ m.kind \in {"hello", "resync"} => i = 1
                /\ counted = m.process /\ lastSeq # None =>
                     lastSeq <= m.seq /\ (m.kind # "bye" => lastSeq < m.seq)
  <2>1. CASE i \in 1 .. Len(wire) /\ wire'[i] = wire[i]
    <3>1. PICK m \in Messages : m = wire[i]
      BY <1>6, <2>1
    <3>2. m.process \in Int
      BY DEF Messages
    <3>3. /\ counted <= m.process /\ m.process <= restarts
          /\ m.kind \in {"hello", "resync"} => i = 1
          /\ counted = m.process /\ lastSeq # None =>
               lastSeq <= m.seq /\ (m.kind # "bye" => lastSeq < m.seq)
      BY <2>1, <3>1 DEF OnWire
    <3>4. QED
      BY <1>1, <1>2, <2>1, <3>1, <3>2, <3>3
  <2>2. CASE ~(i \in 1 .. Len(wire) /\ wire'[i] = wire[i])
    BY <1>1, <1>2, <1>3, <1>5, <2>2
  <2>3. QED
    BY <2>1, <2>2
<1>8. \A i \in 1 .. Len(wire') : wire'[i] \in Messages
  BY <1>3, <1>5, <1>6
<1>9. \A m \in Messages : m.process \in Int
  BY DEF Messages
<1>10. \A i \in 1 .. Len(wire') : wire'[i].process # restarts' /\ wire'[i].process <= restarts'
  BY <1>1, <1>2, <1>7, <1>8, <1>9
<1>11. ASSUME NEW i \in 1 .. Len(wire'), NEW j \in 1 .. Len(wire'), i < j
       PROVE  wire'[i].process = wire'[j].process /\ wire'[i].seq <= wire'[j].seq
              /\ (wire'[j].kind # "bye" => wire'[i].seq < wire'[j].seq)
  <2>1. i \in 1 .. Len(wire) /\ wire'[i] = wire[i]
    BY <1>1, <1>2, <1>3, <1>11
  <2>2. CASE j \in 1 .. Len(wire) /\ wire'[j] = wire[j]
    BY <1>11, <2>1, <2>2 DEF OnWire
  <2>3. CASE ~(j \in 1 .. Len(wire) /\ wire'[j] = wire[j])
    <3>1. wire'[j] = bye /\ attached
      BY <1>5, <2>3
    <3>2. wire[i].process = restarts /\ wire[i].seq <= seq
      BY <2>1, <3>1 DEF OnWire
    <3>3. QED
      BY <1>3, <2>1, <3>1, <3>2
  <2>4. QED
    BY <2>2, <2>3
<1>12. QED
  BY <1>1, <1>4, <1>7, <1>10, <1>11 DEF OnWire

LEMMA ReceiveOnWire ==
  ASSUME TypeOK, OnWire, Receive
  PROVE  OnWire'
<1>1. /\ wire # <<>> /\ wire \in Seq(Messages) /\ phase = "connected"
      /\ wire' = Tail(wire) /\ lastSeq' = Head(wire).seq /\ counted' = Head(wire).process
      /\ UNCHANGED <<phase, attached, restarts, seq, kept>>
  BY DEF Receive, TypeOK, server, bus
<1>2. PICK m \in Messages : m = wire[1] /\ m = Head(wire)
  BY <1>1
<1>3. 1 \in 1 .. Len(wire)
  BY <1>1
<1>4. /\ counted' = m.process /\ lastSeq' = m.seq
      /\ m.process <= restarts /\ (m.process = restarts => m.seq <= seq)
  BY <1>1, <1>2, <1>3 DEF OnWire
<1>5. ASSUME NEW i \in 1 .. Len(wire')
      PROVE  i + 1 \in 1 .. Len(wire) /\ wire'[i] = wire[i + 1] /\ i + 1 # 1 /\ 1 < i + 1
  BY <1>1
<1>6. ASSUME NEW i \in 1 .. Len(wire')
      PROVE  LET n == wire'[i]
             IN /\ n.process = m.process
                /\ n.process = restarts => n.seq <= seq
                /\ n.kind = "bye" => n.process < restarts
                /\ n.kind \notin {"hello", "resync"}
                /\ m.seq <= n.seq /\ (n.kind # "bye" => m.seq < n.seq)
                /\ n.process = restarts /\ n.kind = "market" =>
                     \A j \in 1 .. Len(kept) : kept[j].seq = n.seq => kept[j].symbols = n.symbols
  <2>1. i + 1 \in 1 .. Len(wire) /\ wire'[i] = wire[i + 1] /\ i + 1 # 1 /\ 1 < i + 1
    BY <1>5
  <2>2. PICK n \in Messages : n = wire[i + 1]
    BY <1>1, <2>1
  <2>3. /\ n.process = restarts => n.seq <= seq
        /\ n.kind = "bye" => n.process < restarts
        /\ n.kind \notin {"hello", "resync"}
        /\ n.process = restarts /\ n.kind = "market" =>
             \A j \in 1 .. Len(kept) : kept[j].seq = n.seq => kept[j].symbols = n.symbols
    BY <2>1, <2>2 DEF OnWire
  <2>4. /\ m.process = n.process /\ m.seq <= n.seq
        /\ n.kind # "bye" => m.seq < n.seq
    BY <1>2, <1>3, <2>1, <2>2 DEF OnWire
  <2>5. QED
    BY <2>1, <2>2, <2>3, <2>4
<1>7. m.process \in Int
  BY DEF Messages
<1>8. ASSUME NEW i \in 1 .. Len(wire'), NEW j \in 1 .. Len(wire'), i < j
      PROVE  wire'[i].process = wire'[j].process /\ wire'[i].seq <= wire'[j].seq
             /\ (wire'[j].kind # "bye" => wire'[i].seq < wire'[j].seq)
  <2>1. /\ i + 1 \in 1 .. Len(wire) /\ wire'[i] = wire[i + 1]
        /\ j + 1 \in 1 .. Len(wire) /\ wire'[j] = wire[j + 1] /\ i + 1 < j + 1
    BY <1>5, <1>8
  <2>2. /\ wire[i + 1].process = wire[j + 1].process /\ wire[i + 1].seq <= wire[j + 1].seq
        /\ wire[j + 1].kind # "bye" => wire[i + 1].seq < wire[j + 1].seq
    BY <2>1 DEF OnWire
  <2>3. QED
    BY <2>1, <2>2
<1>9. attached' => /\ phase' = "connected"
                   /\ \A i \in 1 .. Len(wire') : wire'[i].process = restarts'
  <2>1. ASSUME attached, NEW i \in 1 .. Len(wire') PROVE wire'[i].process = restarts'
    <3>1. i + 1 \in 1 .. Len(wire) /\ wire'[i] = wire[i + 1]
      BY <1>5
    <3>2. wire[i + 1].process = restarts
      BY <2>1, <3>1 DEF OnWire
    <3>3. QED
      BY <1>1, <3>1, <3>2
  <2>2. QED
    BY <1>1, <2>1
<1>10. \A i \in 1 .. Len(wire') :
         LET n == wire'[i]
         IN /\ counted' <= n.process /\ n.process <= restarts'
            /\ n.process = restarts' => n.seq <= seq'
            /\ n.kind = "bye" => n.process < restarts'
            /\ n.kind \in {"hello", "resync"} => i = 1
            /\ counted' = n.process /\ lastSeq' # None =>
                 lastSeq' <= n.seq /\ (n.kind # "bye" => lastSeq' < n.seq)
            /\ counted' = restarts' /\ n.kind = "resync" => lastSeq' # None /\ Gap(lastSeq)'
            /\ n.process = restarts' /\ n.kind = "market" =>
                 \A j \in 1 .. Len(kept') : kept'[j].seq = n.seq => kept'[j].symbols = n.symbols
  BY <1>1, <1>4, <1>6, <1>7
<1>11. QED
  BY <1>1, <1>4, <1>8, <1>9, <1>10 DEF OnWire

LEMMA FlushOnWire ==
  ASSUME TypeOK, Numbered, OnWire, flush
  PROVE  OnWire'
<1> DEFINE new == Market([seq |-> seq + 1, symbols |-> pending])
<1>1. /\ UNCHANGED <<phase, attached, lastSeq, counted, restarts>>
      /\ wire' = IF attached THEN Append(wire, new) ELSE wire
      /\ wire \in Seq(Messages) /\ seq \in Int /\ Len(kept) \in Nat
      /\ counted \in Int /\ restarts \in Int /\ seq + 1 \in Seqs
  BY BoundsType DEF flush, server, history, TypeOK
<1>2. [seq |-> seq + 1, symbols |-> pending] \in Events
  BY <1>1 DEF Events, TypeOK
<1>3. /\ new \in Messages /\ new.kind = "market" /\ new.process = restarts
      /\ new.seq = seq + 1 /\ new.symbols = pending
  BY <1>2, MessageType DEF Market, TypeOK
<1> HIDE DEF new
<1>4. PICK d \in {0, 1} :
        /\ d <= Len(kept) /\ Len(kept') = Len(kept) + 1 - d
        /\ \A i \in 1 .. Len(kept) - d : kept'[i] = kept[i + d]
        /\ kept'[Len(kept')] = [seq |-> seq + 1, symbols |-> pending]
  BY FlushKept
<1>5. seq' = seq + 1
  BY FlushKept
<1>6. \A m \in Messages : m.process \in Int /\ m.seq \in Int
  BY BoundsType DEF Messages
<1>7. \A i \in 1 .. Len(wire) : wire[i] \in Messages
  BY <1>1
<1>8. ASSUME NEW i \in 1 .. Len(wire'), ~(i \in 1 .. Len(wire) /\ wire'[i] = wire[i])
      PROVE  i = Len(wire) + 1 /\ wire'[i] = new /\ attached
  BY <1>1, <1>3, <1>8
<1>9. /\ phase' # "connected" => wire' = <<>>
      /\ counted' <= restarts'
      /\ lastSeq' # None /\ counted' = restarts' => lastSeq' <= seq'
  <2>1. lastSeq # None => lastSeq \in Int
    BY BoundsType DEF TypeOK
  <2>2. QED
    BY <1>1, <1>5, <2>1 DEF OnWire
<1>10. \A j \in 1 .. Len(kept') : \/ kept'[j].seq = seq + 1 /\ kept'[j].symbols = pending
                                  \/ \E k \in 1 .. Len(kept) : kept'[j] = kept[k]
  <2>1. ASSUME NEW j \in 1 .. Len(kept'), j # Len(kept')
        PROVE  j \in 1 .. Len(kept) - d /\ j + d \in 1 .. Len(kept)
    BY <1>1, <1>4, <2>1
  <2>2. ASSUME NEW j \in 1 .. Len(kept'), j # Len(kept')
        PROVE  kept'[j] = kept[j + d] /\ j + d \in 1 .. Len(kept)
    BY <1>4, <2>1, <2>2
  <2>3. QED
    BY <1>4, <2>2
<1>11. \A k \in 1 .. Len(kept) : kept[k].seq <= seq
  <2>1. \A k \in 1 .. Len(kept) : kept[k].seq = seq - Len(kept) + k
    BY DEF Numbered
  <2>2. QED
    BY <1>1, <2>1
<1>12. ASSUME NEW i \in 1 .. Len(wire')
       PROVE  LET m == wire'[i]
              IN /\ counted <= m.process /\ m.process <= restarts
                 /\ m.process = restarts => m.seq <= seq'
                 /\ m.kind = "bye" => m.process < restarts
                 /\ m.kind \in {"hello", "resync"} => i = 1
                 /\ counted = m.process /\ lastSeq # None =>
                      lastSeq <= m.seq /\ (m.kind # "bye" => lastSeq < m.seq)
                 /\ counted = restarts /\ m.kind = "resync" => lastSeq # None /\ Gap(lastSeq)'
                 /\ m.process = restarts /\ m.kind = "market" =>
                      \A j \in 1 .. Len(kept') :
                        kept'[j].seq = m.seq => kept'[j].symbols = m.symbols
  <2>1. CASE i \in 1 .. Len(wire) /\ wire'[i] = wire[i]
    <3>1. PICK m \in Messages : m = wire[i]
      BY <1>7, <2>1
    <3>2. /\ counted <= m.process /\ m.process <= restarts
          /\ m.process = restarts => m.seq <= seq
          /\ m.kind = "bye" => m.process < restarts
          /\ m.kind \in {"hello", "resync"} => i = 1
          /\ counted = m.process /\ lastSeq # None =>
               lastSeq <= m.seq /\ (m.kind # "bye" => lastSeq < m.seq)
          /\ counted = restarts /\ m.kind = "resync" => lastSeq # None /\ Gap(lastSeq)
          /\ m.process = restarts /\ m.kind = "market" =>
               \A j \in 1 .. Len(kept) : kept[j].seq = m.seq => kept[j].symbols = m.symbols
      BY <2>1, <3>1 DEF OnWire
    <3>3. m.process = restarts => m.seq <= seq' /\ m.seq # seq + 1
      BY <1>1, <1>5, <1>6, <3>2
    <3>4. ASSUME counted = restarts, m.kind = "resync"
          PROVE  lastSeq # None /\ Gap(lastSeq)'
      <4>1. lastSeq # None /\ Gap(lastSeq) /\ m.process \in Int
        BY <1>6, <3>2, <3>4
      <4>2. m.process = restarts
        BY <1>1, <3>2, <3>4, <4>1
      <4>3. lastSeq \in Seqs /\ lastSeq \in Int /\ m.seq \in Int
        BY <1>6, <4>1, BoundsType DEF TypeOK
      <4>4. lastSeq < m.seq /\ m.seq <= seq
        BY <3>2, <3>4, <4>1, <4>2
      <4>5. lastSeq < seq
        BY <1>1, <4>3, <4>4
      <4>6. Gap(lastSeq)'
        <5>1. PICK n \in Seqs : n = lastSeq
          BY <4>3
        <5>2. Gap(n)'
          BY <4>1, <4>5, <5>1, GapStays
        <5>3. lastSeq' = n
          BY <1>1, <5>1
        <5>4. QED
          BY <5>2, <5>3 DEF Gap
      <4>7. QED
        BY <4>1, <4>6
    <3>5. ASSUME m.process = restarts, m.kind = "market", NEW j \in 1 .. Len(kept'),
                 kept'[j].seq = m.seq
          PROVE  kept'[j].symbols = m.symbols
      <4>1. PICK k \in 1 .. Len(kept) : kept'[j] = kept[k]
        BY <1>10, <3>3, <3>5
      <4>2. QED
        BY <3>2, <3>5, <4>1
    <3>6. QED
      BY <2>1, <3>1, <3>2, <3>3, <3>4, <3>5
  <2>2. CASE ~(i \in 1 .. Len(wire) /\ wire'[i] = wire[i])
    <3>1. wire'[i] = new
      BY <1>8, <2>2
    <3>2. counted <= restarts /\ (lastSeq # None /\ counted = restarts => lastSeq <= seq)
      BY DEF OnWire
    <3>3. lastSeq # None => lastSeq \in Int
      BY BoundsType DEF TypeOK
    <3>4. counted = restarts /\ lastSeq # None => lastSeq <= new.seq /\ lastSeq < new.seq
      BY <1>1, <1>3, <3>2, <3>3
    <3>5. \A k \in 1 .. Len(kept) : kept[k].seq # seq + 1
      <4>1. \A k \in 1 .. Len(kept) : kept[k].seq = seq - Len(kept) + k
        BY DEF Numbered
      <4>2. QED
        BY <1>1, <4>1
    <3>6. \A j \in 1 .. Len(kept') : kept'[j].seq = new.seq => kept'[j].symbols = new.symbols
      BY <1>3, <1>10, <3>5
    <3>7. QED
      BY <1>1, <1>3, <1>5, <3>1, <3>2, <3>4, <3>6
  <2>3. QED
    BY <2>1, <2>2
<1>13. ASSUME NEW i \in 1 .. Len(wire'), NEW j \in 1 .. Len(wire'), i < j
       PROVE  wire'[i].process = wire'[j].process /\ wire'[i].seq <= wire'[j].seq
              /\ (wire'[j].kind # "bye" => wire'[i].seq < wire'[j].seq)
  <2>1. i \in 1 .. Len(wire) /\ wire'[i] = wire[i]
    BY <1>1, <1>3, <1>13
  <2>2. CASE j \in 1 .. Len(wire) /\ wire'[j] = wire[j]
    BY <1>13, <2>1, <2>2 DEF OnWire
  <2>3. CASE ~(j \in 1 .. Len(wire) /\ wire'[j] = wire[j])
    <3>1. wire'[j] = new /\ attached
      BY <1>8, <2>3
    <3>2. wire[i].process = restarts /\ wire[i].seq <= seq
      BY <2>1, <3>1 DEF OnWire
    <3>3. wire[i].seq \in Int
      BY <1>6, <1>7, <2>1
    <3>4. QED
      BY <1>1, <1>3, <2>1, <3>1, <3>2, <3>3
  <2>4. QED
    BY <2>2, <2>3
<1>14. attached' => /\ phase' = "connected"
                    /\ \A i \in 1 .. Len(wire') : wire'[i].process = restarts'
  <2>1. ASSUME attached, NEW i \in 1 .. Len(wire') PROVE wire'[i].process = restarts
    BY <1>3, <1>8, <2>1 DEF OnWire
  <2>2. attached => phase = "connected"
    BY DEF OnWire
  <2>3. QED
    BY <1>1, <2>1, <2>2
<1>15. QED
  BY <1>1, <1>9, <1>12, <1>13, <1>14 DEF OnWire

LEMMA ConnectOnWire ==
  ASSUME TypeOK, Numbered, OnWire, Connect
  PROVE  OnWire'
<1>1. /\ phase' = "connected" /\ attached' = TRUE /\ wire' = Greeting
      /\ UNCHANGED <<lastSeq, counted, restarts, seq, kept>>
      /\ seq \in Int /\ Len(kept) \in Nat /\ restarts \in Int /\ counted \in Int
  BY BoundsType DEF Connect, bus, TypeOK
<1>2. /\ counted <= restarts
      /\ lastSeq # None /\ counted = restarts => lastSeq <= seq
  BY DEF OnWire
<1>3. /\ phase' # "connected" => wire' = <<>>
      /\ counted' <= restarts'
      /\ lastSeq' # None /\ counted' = restarts' => lastSeq' <= seq'
  BY <1>1, <1>2
<1>4. (\A n : Gap(n)' <=> Gap(n)) /\ Gap(lastSeq)' <=> Gap(lastSeq)
  BY <1>1 DEF Gap
<1>5. CASE lastSeq = None /\ Greeting = <<Control("hello")>>
  <2>1. Len(wire') = 1 /\ wire'[1] = Control("hello") /\ \A i \in 1 .. 1 : i = 1
    BY <1>1, <1>5
  <2>2. wire'[1].kind = "hello" /\ wire'[1].seq = seq /\ wire'[1].process = restarts
    BY <2>1 DEF Control
  <2>3. \A i \in 1 .. Len(wire') : i = 1 /\ ~(\E j \in 1 .. Len(wire') : i < j)
    BY <2>1
  <2>4. QED
    BY <1>1, <1>2, <1>3, <1>5, <2>2, <2>3 DEF OnWire
<1>6. CASE lastSeq # None /\ lastSeq < seq /\ Gap(lastSeq) /\ Greeting = <<Control("resync")>>
  <2>1. Len(wire') = 1 /\ wire'[1] = Control("resync") /\ \A i \in 1 .. 1 : i = 1
    BY <1>1, <1>6
  <2>2. wire'[1].kind = "resync" /\ wire'[1].seq = seq /\ wire'[1].process = restarts
    BY <2>1 DEF Control
  <2>3. \A i \in 1 .. Len(wire') : i = 1 /\ ~(\E j \in 1 .. Len(wire') : i < j)
    BY <2>1
  <2>4. lastSeq <= seq /\ Gap(lastSeq)'
    BY <1>1, <1>4, <1>6, BoundsType DEF TypeOK
  <2>5. QED
    BY <1>1, <1>2, <1>3, <1>6, <2>2, <2>3, <2>4 DEF OnWire
<1>7. CASE Greeting = <<>>
  <2>1. \A i \in 1 .. Len(wire') : FALSE
    BY <1>1, <1>7
  <2>2. QED
    BY <1>1, <1>3, <2>1 DEF OnWire
<1>8. CASE /\ lastSeq # None /\ lastSeq < seq /\ ~Gap(lastSeq)
           /\ Greeting = [k \in 1 .. seq - lastSeq |-> Market(After(lastSeq)[k])]
  <2>1. lastSeq \in Seqs /\ lastSeq \in Int /\ seq - lastSeq \in Nat
    BY <1>1, <1>8, BoundsType DEF TypeOK
  <2>2. /\ seq - lastSeq <= Len(kept)
        /\ \A i \in 1 .. seq - lastSeq :
             /\ After(lastSeq)[i] = kept[Len(kept) - (seq - lastSeq) + i]
             /\ After(lastSeq)[i].seq = lastSeq + i
    BY <1>8, <2>1, AfterType
  <2>3. Len(wire') = seq - lastSeq
    BY <1>1, <1>8, <2>1
  <2>4. ASSUME NEW i \in 1 .. Len(wire')
        PROVE  /\ i \in 1 .. seq - lastSeq /\ i \in Int /\ i >= 1 /\ i <= seq - lastSeq
               /\ wire'[i] = Market(After(lastSeq)[i])
    BY <1>1, <1>8, <2>1, <2>3
  <2>5. ASSUME NEW i \in 1 .. Len(wire')
        PROVE  /\ wire'[i].kind = "market" /\ wire'[i].process = restarts
               /\ wire'[i].seq = lastSeq + i
               /\ wire'[i].symbols = kept[Len(kept) - (seq - lastSeq) + i].symbols
    <3>1. wire'[i] = Market(After(lastSeq)[i]) /\ i \in 1 .. seq - lastSeq
      BY <2>4
    <3>2. /\ After(lastSeq)[i] = kept[Len(kept) - (seq - lastSeq) + i]
          /\ After(lastSeq)[i].seq = lastSeq + i
      BY <2>2, <3>1
    <3>3. PICK e : e = After(lastSeq)[i]
      OBVIOUS
    <3>4. wire'[i] = [kind |-> "market", seq |-> e.seq, symbols |-> e.symbols,
                      process |-> restarts]
      BY <3>1, <3>3 DEF Market
    <3>5. e = kept[Len(kept) - (seq - lastSeq) + i] /\ e.seq = lastSeq + i
      BY <3>2, <3>3
    <3>6. QED
      BY <3>4, <3>5
  <2>6. ASSUME NEW i \in 1 .. Len(wire'), NEW j \in 1 .. Len(kept), kept[j].seq = wire'[i].seq
        PROVE  kept[j].symbols = wire'[i].symbols
    <3>1. kept[j].seq = seq - Len(kept) + j
      BY DEF Numbered
    <3>2. j = Len(kept) - (seq - lastSeq) + i
      <4>1. seq - Len(kept) + j = lastSeq + i
        BY <2>5, <2>6, <3>1
      <4>2. i \in Int /\ j \in Int
        BY <2>4
      <4>3. QED
        BY <1>1, <2>1, <4>1, <4>2
    <3>3. QED
      BY <2>5, <3>2
  <2>7. ASSUME NEW i \in 1 .. Len(wire')
        PROVE  wire'[i].seq <= seq /\ lastSeq <= wire'[i].seq /\ lastSeq < wire'[i].seq
    <3>1. wire'[i].seq = lastSeq + i /\ i \in Int /\ i >= 1 /\ i <= seq - lastSeq
      BY <2>4, <2>5
    <3>2. lastSeq + i <= seq /\ lastSeq <= lastSeq + i /\ lastSeq < lastSeq + i
      BY <1>1, <2>1, <3>1
    <3>3. QED
      BY <3>1, <3>2
  <2>8. ASSUME NEW i \in 1 .. Len(wire'), NEW j \in 1 .. Len(wire'), i < j
        PROVE  wire'[i].process = wire'[j].process /\ wire'[i].seq <= wire'[j].seq
               /\ (wire'[j].kind # "bye" => wire'[i].seq < wire'[j].seq)
    <3>1. wire'[i].seq = lastSeq + i /\ wire'[j].seq = lastSeq + j /\ i \in Int /\ j \in Int
      BY <2>4, <2>5
    <3>2. lastSeq + i <= lastSeq + j /\ lastSeq + i < lastSeq + j
      BY <2>1, <2>8, <3>1
    <3>3. wire'[i].process = wire'[j].process
      BY <2>5
    <3>4. QED
      BY <3>1, <3>2, <3>3
  <2>9. \A i \in 1 .. Len(wire') :
          LET n == wire'[i]
          IN /\ counted' <= n.process /\ n.process <= restarts'
             /\ n.process = restarts' => n.seq <= seq'
             /\ n.kind = "bye" => n.process < restarts'
             /\ n.kind \in {"hello", "resync"} => i = 1
             /\ counted' = n.process /\ lastSeq' # None =>
                  lastSeq' <= n.seq /\ (n.kind # "bye" => lastSeq' < n.seq)
             /\ counted' = restarts' /\ n.kind = "resync" => lastSeq' # None /\ Gap(lastSeq)'
             /\ n.process = restarts' /\ n.kind = "market" =>
                  \A j \in 1 .. Len(kept') : kept'[j].seq = n.seq => kept'[j].symbols = n.symbols
    BY <1>1, <1>2, <2>5, <2>6, <2>7
  <2>10. QED
    BY <1>1, <1>3, <2>5, <2>8, <2>9 DEF OnWire
<1>9. QED
  BY <1>5, <1>6, <1>7, <1>8, GreetingCases

LEMMA StepOnWire == TypeOK /\ Slots /\ Numbered /\ OnWire /\ [Next]_vars => OnWire'
<1> SUFFICES ASSUME TypeOK, Slots, Numbered, OnWire, [Next]_vars PROVE OnWire'
  OBVIOUS
<1>1. CASE /\ UNCHANGED <<wire, lastSeq, counted, restarts, seq, kept>>
           /\ phase' = phase \/ (phase # "connected" /\ phase' # "connected")
           /\ attached' => attached
  BY <1>1, QuietOnWire
<1>2. CASE UNCHANGED vars \/ (\E s \in Symbols : Change(s) \/ publish(s) \/ RefreshBreaks(s))
           \/ Replicate \/ LoadReads \/ LoadDone \/ LoadFails \/ Reload
  <2>1. UNCHANGED <<wire, lastSeq, counted, restarts, seq, kept, phase, attached>>
    BY <1>2
       DEF vars, bus, server, client, history, Change, Replicate, RefreshBreaks, publish,
           LoadReads, LoadDone, LoadFails, Reload
  <2>2. QED
    BY <1>1, <2>1
<1>2a. CASE streamTicket \/ TicketExpires \/ ConnectRefused \/ Silence \/ WriteFails \/ Cleanup
            \/ OthersJoin \/ OthersLeave
  BY <1>1, <1>2a
     DEF bus, client, history, streamTicket, TicketExpires, ConnectRefused, Silence, WriteFails,
         Cleanup, OthersJoin, OthersLeave
<1>3. CASE Disconnect \/ Bye
  BY <1>3, EmptyOnWire DEF Disconnect, Bye, Closed, bus, history
<1>4. QED
  BY <1>2, <1>2a, <1>3, FlushOnWire, ConnectOnWire, RestartOnWire, ReceiveOnWire DEF Next

-----------------------------------------------------------------------------
(* What is still to reach the page. *)

LEMMA PageSame ==
  ASSUME UNCHANGED <<loads, error>>
  PROVE  (\A v : Loading(v)' <=> Loading(v)) /\ (Failed' <=> Failed)
  BY DEF Loading, Failed

LEMMA UndeliveredSame ==
  ASSUME UNCHANGED <<wire, lastSeq, counted, attached, restarts, seq, kept>>
  PROVE  Undelivered' <=> Undelivered
<1>1. Sent' <=> Sent
  BY DEF Sent, Touches
<1>2. Ahead' = Ahead
  BY DEF Ahead
<1>3. Lost(Ahead.seq, Ahead.process)' <=> Lost(Ahead.seq, Ahead.process)
  BY <1>2 DEF Lost, Gap
<1>4. QED
  BY <1>1, <1>3 DEF Undelivered

LEMMA ComingBounds ==
  ASSUME TypeOK, Coming
  PROVE  /\ told \in Int /\ version \in Int /\ told <= version
         /\ \A v \in 1 .. told : v \in Int /\ v \in 1 .. version
  BY BoundsType DEF TypeOK, Coming

LEMMA QuietComing ==
  ASSUME TypeOK, Coming, UNCHANGED <<told, version, owed, unheard, seen, pending>>,
         UNCHANGED <<loads, error>>, Undelivered => Undelivered'
  PROVE  Coming'
  BY PageSame DEF Coming

LEMMA PublishComing ==
  ASSUME TypeOK, Coming, NEW s \in Symbols, publish(s) \/ RefreshBreaks(s)
  PROVE  Coming'
<1>1. /\ owed' = owed \ {s} /\ version' = version /\ UNCHANGED <<seen, loads, error>>
      /\ UNCHANGED <<wire, lastSeq, counted, attached, restarts, seq, kept>>
  BY DEF publish, RefreshBreaks, server, client, page, bus
<1>2. /\ pending' = pending \/ pending' = pending \cup {s}
      /\ \/ Untold(s)
         \/ /\ unheard' = unheard /\ pending' = pending \cup {s}
            /\ told' = IF s \in Watched THEN version ELSE told
  BY DEF publish, RefreshBreaks, bus
<1>3. told \in Int /\ version \in Int /\ told <= version
  BY ComingBounds
<1>4. /\ \A v : Loading(v)' <=> Loading(v)
      /\ Failed' <=> Failed
      /\ Undelivered' <=> Undelivered
  BY <1>1, PageSame, UndeliveredSame
<1>5. told' <= version'
  BY <1>1, <1>2, <1>3 DEF Untold
<1>6. told' < version' => owed' \cap Watched # {}
  <2> SUFFICES ASSUME told' < version PROVE owed' \cap Watched # {}
    BY <1>1
  <2>1. told' # version
    BY <1>3
  <2>2. CASE Untold(s)
    <3>1. ~(owed \cap Watched \subseteq {s})
      BY <2>1, <2>2 DEF Untold
    <3>2. QED
      BY <1>1, <3>1
  <2>3. CASE told' = IF s \in Watched THEN version ELSE told
    <3>1. s \notin Watched /\ told' = told
      BY <2>1, <2>3
    <3>2. owed \cap Watched # {}
      BY <3>1 DEF Coming
    <3>3. QED
      BY <1>1, <3>1, <3>2
  <2>4. QED
    BY <1>2, <2>2, <2>3
<1>7. ASSUME NEW v \in 1 .. told'
      PROVE  \/ v \in unheard' \/ v <= seen' \/ pending' \cap Watched # {}
             \/ Loading(v)' \/ Failed' \/ Undelivered'
  <2>1. CASE v \in 1 .. told
    <3>1. unheard \subseteq unheard' /\ pending \subseteq pending'
      BY <1>2 DEF Untold
    <3>2. QED
      BY <1>1, <1>4, <2>1, <3>1 DEF Coming
  <2>2. CASE v \notin 1 .. told
    <3>1. told' # told
      BY <2>2
    <3>2. CASE Untold(s)
      <4>1. told' \in Int /\ v \in Int
        BY <1>3, <3>2 DEF Untold
      <4>2. v \in (told + 1) .. told'
        BY <1>3, <2>2, <4>1
      <4>3. QED
        BY <3>2, <4>2 DEF Untold
    <3>3. CASE ~Untold(s)
      BY <1>2, <3>1, <3>3
    <3>4. QED
      BY <3>2, <3>3
  <2>3. QED
    BY <2>1, <2>2
<1>8. QED
  BY <1>5, <1>6, <1>7 DEF Coming

LEMMA FlushComing ==
  ASSUME TypeOK, Numbered, OnWire, Coming, flush
  PROVE  Coming'
<1> DEFINE new == Market([seq |-> seq + 1, symbols |-> pending])
<1>1. /\ UNCHANGED <<told, version, owed, unheard, seen, loads, error, lastSeq, counted, attached>>
      /\ wire' = IF attached THEN Append(wire, new) ELSE wire
      /\ wire \in Seq(Messages) /\ pending' = {}
  BY DEF flush, data, server, history, page, TypeOK
<1>2. new.kind = "market" /\ new.symbols = pending
  BY DEF Market
<1>3. [seq |-> seq + 1, symbols |-> pending] \in Events
  BY BoundsType DEF Events, TypeOK, flush
<1>4. new \in Messages
  BY <1>3, MessageType DEF TypeOK
<1> HIDE DEF new
<1>5. (\A v : Loading(v)' <=> Loading(v)) /\ (Failed' <=> Failed)
  BY <1>1, PageSame
<1>6. Sent => Sent'
  <2>1. ASSUME NEW i \in 1 .. Len(wire) PROVE i \in 1 .. Len(wire') /\ wire'[i] = wire[i]
    BY <1>1, <1>4
  <2>2. QED
    BY <2>1 DEF Sent
<1>7. ~attached => Ahead' = Ahead
  BY <1>1 DEF Ahead
<1>8. PICK n \in Positions : n = Ahead.seq
  BY AheadType
<1>9. PICK p : p = Ahead.process
  OBVIOUS
<1>10. p = restarts /\ n # None => n <= seq
  BY <1>8, <1>9, AheadType
<1>11. ASSUME ~attached, Lost(n, p)'
       PROVE  Undelivered'
  <2>1. Ahead.seq' = n /\ Ahead.process' = p
    BY <1>7, <1>8, <1>9, <1>11
  <2>2. Lost(Ahead.seq, Ahead.process)'
    BY <1>11, <2>1 DEF Lost, Gap
  <2>3. QED
    BY <1>1, <1>11, <2>2 DEF Undelivered
<1>12. Undelivered => Undelivered'
  <2>1. CASE Sent
    BY <1>6, <2>1 DEF Undelivered
  <2>2. CASE ~attached /\ Lost(Ahead.seq, Ahead.process)
    BY <1>8, <1>9, <1>11, <2>2, LostStays
  <2>3. QED
    BY <2>1, <2>2 DEF Undelivered
<1>13. pending \cap Watched # {} => Undelivered'
  <2> SUFFICES ASSUME pending \cap Watched # {} PROVE Undelivered'
    OBVIOUS
  <2>1. CASE attached
    <3>1. wire' = Append(wire, new)
      BY <1>1, <2>1
    <3>2. Len(wire) + 1 \in 1 .. Len(wire') /\ wire'[Len(wire) + 1] = new
      BY <1>1, <1>4, <3>1
    <3>3. Touches(new, Watched)
      BY <1>2 DEF Touches
    <3>4. QED
      BY <3>2, <3>3 DEF Sent, Undelivered, Touches
  <2>2. CASE ~attached
    BY <1>10, <1>11, <2>2, LostNew
  <2>3. QED
    BY <2>1, <2>2
<1>14. QED
  BY <1>1, <1>5, <1>12, <1>13 DEF Coming

(* What is lost to a client that comes back is what the greeting tells. *)
LEMMA GreetingTells ==
  ASSUME TypeOK, Numbered, Lost(lastSeq, counted)
  PROVE  \/ (lastSeq = None \/ counted # restarts) /\ ~Resync
         \/ \E i \in 1 .. Len(Greeting) : Touches(Greeting[i], Watched)
<1>1. CASE Greeting = <<Control("resync")>>
  <2>1. 1 \in 1 .. Len(Greeting) /\ Greeting[1].kind = "resync"
    BY <1>1 DEF Control
  <2>2. QED
    BY <2>1 DEF Touches
<1>2. CASE ~(lastSeq = None \/ counted # restarts) /\ Greeting # <<Control("resync")>>
  <2>1. lastSeq \in Seqs /\ lastSeq \in Int /\ seq \in Int /\ Len(kept) \in Nat /\ lastSeq < seq
    BY <1>2, BoundsType DEF TypeOK, Lost
  <2>2. ~Gap(lastSeq) /\ Greeting = [k \in 1 .. seq - lastSeq |-> Market(After(lastSeq)[k])]
    BY <1>2, <2>1, GreetingCases
  <2>3. PICK i \in 1 .. Len(kept) : kept[i].seq > lastSeq /\ kept[i].symbols \cap Watched # {}
    BY <1>2, <2>2 DEF Lost
  <2>4. kept[i].seq = seq - Len(kept) + i /\ i \in Int /\ i <= Len(kept)
    BY <2>3 DEF Numbered
  <2>5. seq - Len(kept) + i - lastSeq \in Int
    BY <2>1, <2>4
  <2>6. PICK k \in Int : k = seq - Len(kept) + i - lastSeq
    BY <2>5, ZenonT(60)
  <2>7. k \in 1 .. seq - lastSeq /\ Len(kept) - (seq - lastSeq) + k = i
    BY <2>1, <2>3, <2>4, <2>6
  <2>8. After(lastSeq)[k] = kept[i]
    BY <2>1, <2>2, <2>7, AfterType
  <2>9. Len(Greeting) = seq - lastSeq
    BY <2>1, <2>2
  <2>10. Greeting[k] = Market(kept[i])
    BY <2>2, <2>7, <2>8
  <2>11. Touches(Greeting[k], Watched)
    BY <2>3, <2>10 DEF Touches, Market
  <2>12. QED
    BY <2>7, <2>9, <2>11
<1>3. QED
  BY <1>1, <1>2, GreetingCases DEF Resync

LEMMA ConnectComing ==
  ASSUME TypeOK, Slots, Numbered, OnWire, Coming, Connect
  PROVE  Coming'
<1>1. /\ UNCHANGED <<told, version, owed, seen, loads, error, pending>>
      /\ wire' = Greeting /\ phase = "ticketed" /\ attached' = TRUE
      /\ unheard' = IF (lastSeq = None \/ counted # restarts) /\ ~Resync
                    THEN unheard \cup 1 .. version ELSE unheard
  BY DEF Connect, data, bus, page
<1>2. wire = <<>> /\ ~attached
  BY <1>1 DEF OnWire, Slots
<1>3. (\A v : Loading(v)' <=> Loading(v)) /\ (Failed' <=> Failed)
  BY <1>1, PageSame
<1>4. Undelivered => Lost(lastSeq, counted)
  <2>1. \A i \in 1 .. Len(wire) : FALSE
    BY <1>2
  <2>2. QED
    BY <1>2, <2>1 DEF Undelivered, Sent, Ahead
<1>5. ASSUME \E i \in 1 .. Len(Greeting) : Touches(Greeting[i], Watched)
      PROVE  Undelivered'
  BY <1>1, <1>5 DEF Undelivered, Sent, Touches
<1>6. Undelivered => Undelivered' \/ unheard' = unheard \cup 1 .. version
  BY <1>1, <1>4, <1>5, GreetingTells
<1>7. unheard \subseteq unheard' /\ \A v \in 1 .. told : v \in 1 .. version
  BY <1>1, ComingBounds
<1>8. QED
  BY <1>1, <1>3, <1>6, <1>7 DEF Coming

LEMMA ClosedComing ==
  ASSUME TypeOK, Numbered, OnWire, Coming, Closed
  PROVE  Coming'
<1>1. /\ UNCHANGED <<told, version, owed, unheard, seen, loads, error, pending, lastSeq, counted,
                     restarts, seq, kept>>
      /\ wire' = <<>> /\ attached' = FALSE
  BY DEF Closed, data, bus, page, history
<1>2. Ahead' = [seq |-> lastSeq, process |-> counted]
  BY <1>1 DEF Ahead
<1>3. Ahead.seq' = lastSeq /\ Ahead.process' = counted
  BY <1>2
<1>4. Undelivered => Lost(lastSeq, counted)
  BY WireLost, AheadLost DEF Undelivered
<1>5. ASSUME Lost(lastSeq, counted) PROVE Lost(Ahead.seq, Ahead.process)'
  BY <1>1, <1>3, <1>5 DEF Lost, Gap
<1>6. Undelivered => Undelivered'
  BY <1>1, <1>4, <1>5 DEF Undelivered
<1>7. QED
  BY <1>1, <1>6, QuietComing

LEMMA SilenceComing ==
  ASSUME TypeOK, Coming, Silence \/ WriteFails
  PROVE  Coming'
<1>1. /\ UNCHANGED <<told, version, owed, unheard, seen, loads, error, pending, wire>>
      /\ UNCHANGED <<lastSeq, counted, restarts, seq, kept>>
      /\ attached' = attached \/ (attached /\ attached' = FALSE)
  BY DEF Silence, WriteFails, data, bus, client, page, history
<1>2. Sent' <=> Sent
  BY <1>1 DEF Sent, Touches
<1>3. CASE attached /\ attached' = FALSE
  BY <1>1, <1>2, <1>3, QuietComing DEF Undelivered
<1>4. CASE attached' = attached
  BY <1>1, <1>4, UndeliveredSame, QuietComing
<1>5. QED
  BY <1>1, <1>3, <1>4

LEMMA RestartComing ==
  ASSUME TypeOK, Restart
  PROVE  Coming'
<1>1. unheard' = 1 .. version /\ told' = version /\ version' = version
  BY DEF Restart
<1>2. version \in Int
  BY BoundsType DEF TypeOK
<1>3. QED
  BY <1>1, <1>2 DEF Coming

(* A new load will read what there is. *)
LEMMA LoadComing ==
  ASSUME Coming, load, UNCHANGED <<told, version, owed>>
  PROVE  Coming'
<1>1. [latest |-> TRUE, read |-> None, asked |-> None] \in loads'
  BY DEF load
<1>2. \A v : Loading(v)'
  BY <1>1 DEF Loading
<1>3. QED
  BY <1>2 DEF Coming

LEMMA LoadReadsComing ==
  ASSUME TypeOK, Fresh, Coming, LoadReads
  PROVE  Coming'
<1>1. PICK l \in loads :
        /\ l.read = None
        /\ loads' = (loads \ {l}) \cup {[l EXCEPT !.read = replica, !.asked = version]}
        /\ UNCHANGED <<version, told, owed, unheard, seen, error, pending>>
        /\ UNCHANGED <<wire, lastSeq, counted, attached, restarts, seq, kept>>
  BY DEF LoadReads, data, bus, server, client, history
<1>2. PICK new : new = [l EXCEPT !.read = replica, !.asked = version]
  OBVIOUS
<1>3. new.asked = version /\ new.latest = l.latest /\ new \in loads'
      /\ \A m \in loads' : m \in loads \/ m = new
  BY <1>1, <1>2 DEF Fresh, Loads
<1>4. \A v \in 1 .. told : version >= v
  BY ComingBounds
<1>5. ASSUME NEW v \in 1 .. told, Loading(v) PROVE Loading(v)'
  <2>1. PICK m \in loads : m.latest /\ (m.read = None \/ m.asked >= v)
    BY <1>5 DEF Loading
  <2>2. CASE m = l
    BY <1>3, <1>4, <2>1, <2>2 DEF Loading
  <2>3. CASE m # l
    BY <1>1, <2>1, <2>3 DEF Loading
  <2>4. QED
    BY <2>2, <2>3
<1>6. Failed => Failed'
  BY <1>1, <1>3 DEF Failed
<1>7. Undelivered' <=> Undelivered
  BY <1>1, UndeliveredSame
<1>8. QED
  BY <1>1, <1>5, <1>6, <1>7 DEF Coming

LEMMA LoadDoneComing ==
  ASSUME TypeOK, Fresh, Coming, LoadDone
  PROVE  Coming'
<1>1. PICK l \in loads : /\ l.read # None /\ loads' = loads \ {l}
                         /\ IF l.latest THEN seen' = l.asked /\ error' = FALSE
                            ELSE UNCHANGED <<seen, error>>
                         /\ UNCHANGED <<version, told, owed, unheard, pending>>
                         /\ UNCHANGED <<wire, lastSeq, counted, attached, restarts, seq, kept>>
  BY DEF LoadDone, Shows, data, bus, server, client, history
<1>2. seen' >= seen
  BY LoadDoneFresh
<1>3. Undelivered' <=> Undelivered
  BY <1>1, UndeliveredSame
<1>4. l.asked \in Versions /\ l.asked \in Int /\ seen \in Int
  BY <1>1, BoundsType DEF Fresh, Loads, Versions
<1>5. CASE l.latest
  <2>1. seen' = l.asked /\ ~Failed
    BY <1>1, <1>5 DEF Failed
  <2>2. ASSUME NEW v \in 1 .. told, v <= seen \/ Loading(v) PROVE v <= seen'
    <3>1. v \in Int
      OBVIOUS
    <3>2. CASE v <= seen
      BY <1>2, <1>4, <2>1, <3>1, <3>2
    <3>3. CASE Loading(v)
      <4>1. PICK m \in loads : m.latest /\ (m.read = None \/ m.asked >= v)
        BY <3>3 DEF Loading
      <4>2. m = l
        BY <1>5, <4>1 DEF Fresh
      <4>3. QED
        BY <1>1, <1>4, <2>1, <3>1, <4>1, <4>2
    <3>4. QED
      BY <2>2, <3>2, <3>3
  <2>3. QED
    BY <1>1, <1>3, <2>1, <2>2 DEF Coming
<1>6. CASE ~l.latest
  <2>1. seen' = seen /\ error' = error
    BY <1>1, <1>6
  <2>2. \A v : Loading(v) => Loading(v)'
    BY <1>1, <1>6 DEF Loading
  <2>3. Failed => Failed'
    BY <1>1, <2>1 DEF Failed
  <2>4. QED
    BY <1>1, <1>3, <2>1, <2>2, <2>3 DEF Coming
<1>7. QED
  BY <1>5, <1>6

LEMMA LoadFailsComing ==
  ASSUME TypeOK, Fresh, Coming, LoadFails
  PROVE  Coming'
<1>1. PICK l \in loads : /\ loads' = loads \ {l}
                         /\ error' = (error \/ l.latest)
                         /\ UNCHANGED <<version, told, owed, unheard, pending, seen>>
                         /\ UNCHANGED <<wire, lastSeq, counted, attached, restarts, seq, kept>>
  BY DEF LoadFails, Shows, data, bus, server, client, history
<1>2. Undelivered' <=> Undelivered
  BY <1>1, UndeliveredSame
<1>3. CASE l.latest
  <2>1. \A m \in loads' : ~m.latest
    BY <1>1, <1>3 DEF Fresh
  <2>2. error'
    BY <1>1, <1>3
  <2>3. Failed'
    BY <2>1, <2>2 DEF Failed
  <2>4. QED
    BY <1>1, <2>3 DEF Coming
<1>4. CASE ~l.latest
  <2>1. error => error'
    BY <1>1
  <2>2. \A v : Loading(v) => Loading(v)'
    BY <1>1, <1>4 DEF Loading
  <2>3. Failed => Failed'
    BY <1>1, <2>1 DEF Failed
  <2>4. QED
    BY <1>1, <1>2, <2>2, <2>3 DEF Coming
<1>5. QED
  BY <1>3, <1>4

LEMMA ReceiveComing ==
  ASSUME TypeOK, Coming, Receive
  PROVE  Coming'
<1>1. /\ wire # <<>> /\ wire \in Seq(Messages) /\ wire' = Tail(wire)
      /\ lastSeq' = Head(wire).seq /\ counted' = Head(wire).process
      /\ UNCHANGED <<version, told, owed, pending, seen, error, attached, restarts, seq, kept>>
  BY DEF Receive, TypeOK, data, bus, server
<1>2. CASE load
  BY <1>1, <1>2, LoadComing
<1>2a. CASE ~Relevant(Head(wire)) /\ Touches(Head(wire), Watched) /\ UNCHANGED loads
  <2>1. CASE PassedOver(Head(wire))
    <3>1. unheard' = unheard \cup 1 .. told
      BY <2>1 DEF Receive
    <3>2. QED
      BY <1>1, <3>1 DEF Coming
  <2>2. CASE ~PassedOver(Head(wire))
    <3>1. PICK l \in loads : l.latest /\ l.read = None
      BY <1>2a, <2>2 DEF PassedOver
    <3>2. \A v : Loading(v)'
      BY <1>2a, <3>1 DEF Loading
    <3>3. QED
      BY <1>1, <3>2 DEF Coming
  <2>3. QED
    BY <2>1, <2>2
<1>3. CASE ~Touches(Head(wire), Watched) /\ UNCHANGED loads
  <2>1. Head(wire) = wire[1]
    BY <1>1
  <2>2. Sent => Sent'
    <3>1. ASSUME NEW i \in 1 .. Len(wire), i # 1
          PROVE  i - 1 \in 1 .. Len(wire') /\ wire'[i - 1] = wire[i]
      BY <1>1, <3>1
    <3>2. ASSUME NEW i \in 1 .. Len(wire), Touches(wire[i], Watched)
          PROVE  Sent'
      <4>1. i # 1
        BY <1>3, <2>1, <3>2
      <4>2. i - 1 \in 1 .. Len(wire') /\ wire'[i - 1] = wire[i]
        BY <3>1, <4>1
      <4>3. QED
        BY <3>2, <4>2 DEF Sent, Touches
    <3>3. QED
      BY <3>2 DEF Sent
  <2>3. Ahead' = Ahead
    <3>1. CASE Len(wire) = 1
      <4>1. wire' = <<>>
        BY <1>1, <3>1
      <4>2. QED
        BY <1>1, <2>1, <3>1, <4>1 DEF Ahead
    <3>2. CASE Len(wire) # 1
      <4>1. 1 \in 1 .. Len(wire) /\ Len(wire) \in Nat
        BY <1>1
      <4>2. PICK n \in Nat : n = Len(wire)
        BY <4>1
      <4>3. n > 1 /\ n - 1 # 0
        BY <3>2, <4>1, <4>2
      <4>4. Len(Tail(wire)) = n - 1 /\ Tail(wire)[n - 1] = wire[n]
        BY <1>1, <4>2, <4>3
      <4>5. Len(<<>>) = 0
        OBVIOUS
      <4>6. wire' # <<>>
        BY <1>1, <4>3, <4>4, <4>5
      <4>7. wire'[Len(wire')] = wire[Len(wire)]
        BY <1>1, <4>2, <4>4
      <4>8. QED
        BY <1>1, <4>6, <4>7 DEF Ahead
    <3>3. QED
      BY <3>1, <3>2
  <2>4. Lost(Ahead.seq, Ahead.process) => Lost(Ahead.seq, Ahead.process)'
    BY <1>1, <2>3 DEF Lost, Gap
  <2>5. Undelivered => Undelivered'
    BY <1>1, <2>2, <2>4 DEF Undelivered
  <2>6. unheard' = unheard
    BY <1>3 DEF Receive, PassedOver
  <2>7. QED
    BY <1>1, <1>3, <2>5, <2>6, QuietComing
<1>4. Touches(Head(wire), rows) => Touches(Head(wire), Watched)
  BY DEF Touches, TypeOK
<1>5. QED
  BY <1>2, <1>2a, <1>3, <1>4 DEF Receive, Relevant

LEMMA ChangeComing ==
  ASSUME TypeOK, Coming, NEW s \in Symbols, Change(s)
  PROVE  Coming'
<1>1. /\ version' = version + 1 /\ owed' = owed \cup {s} /\ s \in Watched
      /\ UNCHANGED <<told, unheard, seen, loads, error, pending>>
      /\ UNCHANGED <<wire, lastSeq, counted, attached, restarts, seq, kept>>
  BY DEF Change, bus, server, client, page, history
<1>2. told' <= version'
  BY <1>1, ComingBounds
<1>3. QED
  BY <1>1, <1>2, PageSame, UndeliveredSame DEF Coming

LEMMA StepComing ==
  TypeOK /\ Slots /\ Fresh /\ Numbered /\ OnWire /\ Coming /\ [Next]_vars => Coming'
<1> SUFFICES ASSUME TypeOK, Slots, Fresh, Numbered, OnWire, Coming, [Next]_vars PROVE Coming'
  OBVIOUS
<1>1. CASE /\ UNCHANGED <<told, version, owed, unheard, seen, pending, loads, error>>
           /\ UNCHANGED <<wire, lastSeq, counted, attached, restarts, seq, kept>>
  BY <1>1, QuietComing, UndeliveredSame
<1>2. CASE UNCHANGED vars \/ Replicate \/ streamTicket \/ TicketExpires \/ ConnectRefused
           \/ Cleanup \/ OthersJoin \/ OthersLeave
  BY <1>1, <1>2
     DEF vars, data, bus, server, client, page, history, Replicate, streamTicket, TicketExpires,
         ConnectRefused, Cleanup, OthersJoin, OthersLeave
<1>3. CASE Reload
  BY <1>3, LoadComing DEF Reload, data, history
<1>4. CASE Disconnect \/ Bye
  BY <1>4, ClosedComing DEF Disconnect, Bye
<1>5. QED
  BY <1>2, <1>3, <1>4, ChangeComing, PublishComing, FlushComing, ConnectComing, SilenceComing,
     RestartComing, LoadReadsComing, LoadDoneComing, LoadFailsComing, ReceiveComing DEF Next

LEMMA InitGapInv == Init => GapInv
<1> SUFFICES ASSUME Init PROVE GapInv
  OBVIOUS
<1>1. TypeOK
  BY InitTypeOK
<1>2. Slots /\ Fresh /\ Straight
  BY BoundsAssumption DEF Init, Slots, Fresh, Straight, Versions
<1>3. kept = <<>> /\ wire = <<>> /\ Len(<<>>) = 0 /\ 1 .. 0 = {}
  BY DEF Init
<1>4. Numbered /\ (\A i \in 1 .. Len(wire) : FALSE)
  BY <1>3 DEF Numbered
<1>5. OnWire
  BY <1>3, <1>4 DEF Init, OnWire
<1>6. Coming
  BY <1>3 DEF Init, Coming
<1>7. QED
  BY <1>1, <1>2, <1>4, <1>5, <1>6 DEF GapInv

LEMMA StepGapInv == GapInv /\ [Next]_vars => GapInv'
<1> SUFFICES ASSUME GapInv, [Next]_vars PROVE GapInv'
  OBVIOUS
<1>1. TypeOK /\ Slots /\ Fresh /\ Straight /\ Numbered /\ OnWire /\ Coming
  BY DEF GapInv
<1>2. Slots' /\ Fresh' /\ Straight'
  BY <1>1, SlotsInductive, FreshInductive, StraightInductive
<1>3. TypeOK' /\ Numbered' /\ OnWire' /\ Coming'
  BY <1>1, <1>2, StepTypeOK, StepNumbered, StepOnWire, StepComing
<1>4. QED
  BY <1>2, <1>3 DEF GapInv

(* The inductive invariant: how the numbers of the bus, the wire and the   *)
(* loads in flight hang together (services/events.ts, routes/stream.ts,    *)
(* App.tsx).                                                               *)
THEOREM GapInvariant == Spec => []GapInv
  BY InitGapInv, StepGapInv, PTL DEF Spec

(* Every variable keeps its type, the counter of connections its limit. *)
THEOREM StreamTypeCorrect == Spec => []TypeOK
<1>1. GapInv => TypeOK
  BY DEF GapInv
<1>2. QED
  BY <1>1, GapInvariant, PTL

LEMMA NothingUnderWay == GapInv => NoSilentGap
<1> SUFFICES ASSUME GapInv, attached, wire = <<>>, loads = {}, ~error,
                    (owed \cup pending) \cap Watched = {}, NEW v \in 1 .. version
             PROVE  v <= shown \/ v \in unheard \/ (Replicated /\ v <= seen)
  BY DEF NoSilentGap
<1>1. TypeOK /\ Coming /\ Straight
  BY DEF GapInv
<1>2. told = version
  BY <1>1, ComingBounds DEF Coming
<1>3. pending \cap Watched = {} /\ ~Loading(v) /\ ~Failed
  BY DEF Loading, Failed
<1>4. \A i \in 1 .. Len(wire) : FALSE
  OBVIOUS
<1>5. ~Undelivered
  BY <1>4 DEF Undelivered, Sent
<1>6. v \in unheard \/ v <= seen
  BY <1>1, <1>2, <1>3, <1>5 DEF Coming
<1>7. QED
  BY <1>1, <1>6, BoundsAssumption DEF Straight

(* However the stream breaks, whatever the bus has dropped meanwhile and   *)
(* however the loads race, a page that is up to date as far as its client  *)
(* can tell shows every change that an event could have told it of, but    *)
(* for what it passed over before it had rows and for the lag of a replica *)
(* (routes/stream.ts, services/events.ts, App.tsx).                        *)
THEOREM NoGapIsSilent == Spec => []NoSilentGap
  BY NothingUnderWay, GapInvariant, PTL
=============================================================================
