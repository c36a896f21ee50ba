--------------------------- MODULE SessionsProofs ---------------------------
(***************************************************************************)
(* A theorem about Sessions for any number of tabs and sessions, any times *)
(* under which slides land in time, and any number of slides that fail, as *)
(* long as no session loses more than MaxLost in a row.                    *)
(***************************************************************************)
EXTENDS Sessions, TLAPS

(* What n lost slides cost a session of its person's margin. *)
Cost(n) == n * (Gap + Landing)

Rows ==
  /\ DOMAIN left \subseteq issued /\ \A t \in DOMAIN left : left[t] \in Nat
  /\ ended \subseteq issued /\ ended \cap DOMAIN left = {}
  /\ sinceUse \in [issued -> Nat]
  /\ slides \subseteq [token : issued, age : 0 .. Landing]
  /\ lost \in [issued -> 0 .. MaxLost]

(* Where the margin of a session is: it had enough of it when it was last  *)
(* used, or a slide is under way that was asked for in time.               *)
HadEnough(t) == left[t] + sinceUse[t] + Cost(lost[t]) >= SlideAfter
IsSliding(t) ==
  \E s \in slides : s.token = t /\ left[t] + s.age + Gap + Cost(lost[t]) >= SlideAfter

InUse(t) == t \in issued \ ended /\ sinceUse[t] <= Gap
Margin(t) == t \in DOMAIN left /\ (HadEnough(t) \/ IsSliding(t))

IInv == Rows /\ \A t \in issued : InUse(t) => Margin(t)

-----------------------------------------------------------------------------
LEMMA Distributive ==
  ASSUME NEW a \in Nat, NEW b \in Nat, NEW k \in Nat
  PROVE  (a + b + 1) * k = a * k + b * k + k /\ a * k \in Nat /\ b * k \in Nat
  OBVIOUS

LEMMA CostFacts ==
  ASSUME NEW n \in 0 .. MaxLost
  PROVE  /\ Cost(n) \in Nat
         /\ Cost(n) + Gap + Landing < SlideAfter
         /\ Cost(n + 1) = Cost(n) + Gap + Landing
<1> DEFINE K == Gap + Landing
<1>1. K \in Nat /\ n \in Nat /\ MaxLost - n \in Nat /\ SlideAfter \in Nat
  BY SessionsAssumption
<1> HIDE DEF K
<1>2. n * K \in Nat /\ (MaxLost - n) * K \in Nat
  BY <1>1, Distributive
<1>3. (MaxLost + 1) * K = n * K + (MaxLost - n) * K + K
  <2>1. (n + (MaxLost - n) + 1) * K = n * K + (MaxLost - n) * K + K
    BY <1>1, Distributive
  <2>2. n + (MaxLost - n) + 1 = MaxLost + 1
    BY <1>1, SessionsAssumption
  <2>3. QED
    BY <2>1, <2>2
<1>4. (n + 1) * K = n * K + K
  <2>1. (n + 0 + 1) * K = n * K + 0 * K + K /\ 0 * K = 0
    BY <1>1, Distributive
  <2>2. n + 0 + 1 = n + 1
    BY <1>1
  <2>3. QED
    BY <1>1, <1>2, <2>1, <2>2
<1>5. (MaxLost + 1) * K < SlideAfter
  BY SlidesLandInTime DEF K
<1>6. n * K + K < SlideAfter
  BY <1>1, <1>2, <1>3, <1>5
<1>7. Cost(n) = n * K /\ Cost(n + 1) = (n + 1) * K /\ K = Gap + Landing
  BY DEF Cost, K
<1>8. QED
  BY <1>1, <1>2, <1>4, <1>6, <1>7, SessionsAssumption

(* Whoever has margin has time left. *)
LEMMA MarginIsTime ==
  ASSUME Rows, NEW t, InUse(t), Margin(t)
  PROVE  left[t] > 0
<1>1. /\ Cost(lost[t]) \in Nat /\ Cost(lost[t]) + Gap + Landing < SlideAfter
  <2>1. lost[t] \in 0 .. MaxLost
    BY DEF Rows, InUse
  <2>2. QED
    BY <2>1, CostFacts
<1>2. /\ left[t] \in Nat /\ sinceUse[t] \in Nat /\ sinceUse[t] <= Gap
      /\ \A s \in slides : s.age \in 0 .. Landing
  BY DEF Rows, InUse, Margin
<1>3. CASE HadEnough(t)
  BY <1>1, <1>2, <1>3, SessionsAssumption DEF HadEnough
<1>4. CASE IsSliding(t)
  BY <1>1, <1>2, <1>4, SessionsAssumption DEF IsSliding
<1>5. QED
  BY <1>3, <1>4 DEF Margin

LEMMA InvGives == IInv => EndsOnlyWhenEnded
<1> SUFFICES ASSUME IInv, NEW t \in issued
             PROVE  /\ t \in ended => t \notin DOMAIN left
                    /\ t \notin ended /\ Active(t) => Resolves(t)
  BY DEF EndsOnlyWhenEnded
<1>1. t \in ended => t \notin DOMAIN left
  BY DEF IInv, Rows
<1>2. ASSUME t \notin ended, Active(t) PROVE Resolves(t)
  <2>1. InUse(t) /\ Margin(t)
    BY <1>2 DEF InUse, Active, IInv
  <2>2. QED
    BY <2>1, MarginIsTime DEF IInv, Resolves, Margin
<1>3. QED
  BY <1>1, <1>2

LEMMA InitIInv == Init => IInv
  BY SessionsAssumption DEF Init, IInv, Rows

-----------------------------------------------------------------------------
(* A step that touches neither rows nor slides keeps every margin. *)
LEMMA Frame ==
  ASSUME IInv, UNCHANGED <<left, slides, issued, ended, sinceUse, lost>>
  PROVE  IInv'
  BY DEF IInv, Rows, InUse, Margin, HadEnough, IsSliding

(* Rows that are deleted belong to sessions that end, or have expired. *)
LEMMA DeleteKeeps ==
  ASSUME IInv, NEW ts,
         Delete(ts),
         \/ ended' = ended \cup (ts \cap DOMAIN left)
         \/ ended' = ended /\ \A t \in ts \cap DOMAIN left : left[t] = 0,
         UNCHANGED <<slides, issued, sinceUse, lost>>
  PROVE  IInv'
<1>1. DOMAIN left' = DOMAIN left \ ts /\ \A t \in DOMAIN left' : left'[t] = left[t]
  BY DEF Delete, Restrict
<1>2. Rows'
  BY <1>1 DEF IInv, Rows
<1>3. ASSUME NEW t \in issued', InUse(t)' PROVE Margin(t)'
  <2>1. InUse(t) /\ Margin(t)
    BY <1>3 DEF InUse, IInv
  <2>2. t \notin ts
    <3>1. t \in DOMAIN left /\ left[t] > 0
      BY <2>1, MarginIsTime DEF Margin, IInv
    <3>2. QED
      BY <3>1, <1>3 DEF InUse
  <2>3. QED
    BY <1>1, <2>1, <2>2 DEF Margin, HadEnough, IsSliding
<1>4. QED
  BY <1>2, <1>3 DEF IInv

(* Using a session restores its margin, or asks for the slide that will. *)
LEMMA UseKeeps ==
  ASSUME IInv, NEW u, Resolves(u), Used(u), UNCHANGED <<left, issued, ended, lost>>
  PROVE  IInv'
<1>1. u \in issued /\ u \in DOMAIN left /\ left[u] \in Nat /\ sinceUse[u] \in Nat
  BY DEF Resolves, IInv, Rows
<1>2. /\ slides \subseteq slides'
      /\ slides' \subseteq slides \cup {[token |-> u, age |-> 0]}
      /\ left[u] < SlideAfter => [token |-> u, age |-> 0] \in slides'
  BY DEF Used, Slides
<1>3. [token |-> u, age |-> 0] \in [token : issued, age : 0 .. Landing]
  BY <1>1, SessionsAssumption
<1>4. /\ sinceUse' \in [issued -> Nat]
      /\ \A t \in issued : t # u => sinceUse'[t] = sinceUse[t]
      /\ sinceUse'[u] = IF sinceUse[u] > Gap THEN sinceUse[u] ELSE 0
  BY <1>1 DEF Used, IInv, Rows
<1>5. Rows'
  BY <1>2, <1>3, <1>4 DEF IInv, Rows
<1>6. ASSUME NEW t \in issued', InUse(t)' PROVE Margin(t)'
  <2>1. CASE t # u
    <3>1. InUse(t) /\ Margin(t)
      BY <1>4, <1>6, <2>1 DEF InUse, IInv
    <3>2. QED
      BY <1>2, <1>4, <2>1, <3>1 DEF Margin, HadEnough, IsSliding, InUse
  <2>2. CASE t = u
    <3>1. sinceUse[u] <= Gap /\ sinceUse'[u] = 0
      BY <1>1, <1>4, <1>6, <2>2, SessionsAssumption DEF InUse
    <3>2. InUse(u) /\ Margin(u)
      BY <3>1, <1>1, <1>6, <2>2 DEF InUse, IInv
    <3>3. Cost(lost[u]) \in Nat
      <4>1. lost[u] \in 0 .. MaxLost
        BY <1>1 DEF IInv, Rows
      <4>2. QED
        BY <4>1, CostFacts
    <3>4. CASE left[u] >= SlideAfter
      <4>1. HadEnough(u)'
        BY <3>1, <3>3, <3>4, <1>1, SessionsAssumption DEF HadEnough
      <4>2. QED
        BY <4>1, <1>1, <2>2 DEF Margin
    <3>5. CASE left[u] < SlideAfter /\ HadEnough(u)
      <4>1. left[u] + 0 + Gap + Cost(lost[u]) >= SlideAfter
        BY <3>1, <3>3, <3>5, <1>1, SessionsAssumption DEF HadEnough
      <4>2. [token |-> u, age |-> 0].token = u /\ [token |-> u, age |-> 0].age = 0
        OBVIOUS
      <4>3. IsSliding(u)'
        BY <4>1, <4>2, <3>5, <1>2 DEF IsSliding
      <4>4. QED
        BY <4>3, <1>1, <2>2 DEF Margin
    <3>6. CASE IsSliding(u)
      <4>1. IsSliding(u)'
        BY <3>6, <1>2 DEF IsSliding
      <4>2. QED
        BY <4>1, <1>1, <2>2 DEF Margin
    <3>7. QED
      BY <3>2, <3>4, <3>5, <3>6, <1>1, SessionsAssumption DEF Margin
  <2>3. QED
    BY <2>1, <2>2
<1>7. QED
  BY <1>5, <1>6 DEF IInv

(* A slide that lands gives its session all the margin there is. *)
LEMMA SlideKeeps ==
  ASSUME IInv, NEW s \in slides, slideExpiry(s)
  PROVE  IInv'
<1>1. s.token \in issued /\ s.age \in 0 .. Landing
  BY DEF IInv, Rows
<1>2. /\ DOMAIN left' = DOMAIN left
      /\ \A u \in DOMAIN left : left'[u] = IF u = s.token /\ left[u] + s.age > 0
                                           THEN TTL - s.age ELSE left[u]
      /\ slides' = slides \ {s}
      /\ lost' = [lost EXCEPT ![s.token] = 0]
      /\ UNCHANGED <<issued, ended, sinceUse>>
  BY DEF slideExpiry
<1>3. TTL - s.age \in Nat /\ TTL - s.age >= SlideAfter
  BY <1>1, SessionsAssumption, SlidesLandInTime
<1>4. Rows'
  <2>1. lost' \in [issued -> 0 .. MaxLost]
    BY <1>1, <1>2, SessionsAssumption DEF IInv, Rows
  <2>2. QED
    BY <1>2, <1>3, <2>1 DEF IInv, Rows
<1>5. ASSUME NEW t \in issued', InUse(t)' PROVE Margin(t)'
  <2>1. InUse(t) /\ Margin(t) /\ t \in DOMAIN left
    BY <1>2, <1>5 DEF InUse, IInv, Margin
  <2>2. CASE t = s.token
    <3>1. left[t] > 0 /\ left[t] \in Nat
      BY <2>1, MarginIsTime DEF IInv, Rows
    <3>2. left'[t] = TTL - s.age
      BY <3>1, <2>1, <2>2, <1>1, <1>2
    <3>3. Cost(lost'[t]) \in Nat /\ sinceUse[t] \in Nat
      <4>1. lost'[t] \in 0 .. MaxLost /\ sinceUse[t] \in Nat
        BY <1>5, <1>4, <1>2 DEF Rows
      <4>2. QED
        BY <4>1, CostFacts
    <3>4. HadEnough(t)'
      BY <3>2, <3>3, <1>2, <1>3, SessionsAssumption DEF HadEnough
    <3>5. QED
      BY <3>4, <2>1, <1>2 DEF Margin
  <2>3. CASE t # s.token
    <3>1. left'[t] = left[t] /\ lost'[t] = lost[t]
      BY <2>1, <2>3, <1>2, <1>5 DEF IInv, Rows
    <3>2. QED
      BY <2>1, <2>3, <3>1, <1>2 DEF Margin, HadEnough, IsSliding
  <2>4. QED
    BY <2>2, <2>3
<1>6. QED
  BY <1>4, <1>5 DEF IInv

(* Of some sessions one more slide is lost: the next use asks for another, *)
(* and there is time for it.                                               *)
LEMMA LossKeeps ==
  ASSUME IInv, slides' \subseteq slides, NEW ts,
         \A s \in slides : s \in slides' \/ s.token \in ts,
         \A t \in ts \cap issued : lost[t] < MaxLost,
         lost' = [t \in issued |-> IF t \in ts THEN lost[t] + 1 ELSE lost[t]],
         UNCHANGED <<left, issued, ended, sinceUse>>
  PROVE  IInv'
<1>1. ASSUME NEW t \in issued
      PROVE  /\ lost[t] \in 0 .. MaxLost /\ lost'[t] \in 0 .. MaxLost
             /\ t \in ts => lost'[t] = lost[t] + 1
             /\ t \notin ts => lost'[t] = lost[t]
  BY SessionsAssumption DEF IInv, Rows
<1>2. Rows'
  <2>1. lost' \in [issued -> 0 .. MaxLost]
    <3>1. \A t \in issued : (IF t \in ts THEN lost[t] + 1 ELSE lost[t]) \in 0 .. MaxLost
      BY <1>1
    <3>2. QED
      BY <3>1
  <2>2. QED
    BY <2>1 DEF IInv, Rows
<1>3. ASSUME NEW t \in issued', InUse(t)' PROVE Margin(t)'
  <2>1. InUse(t) /\ Margin(t) /\ t \in DOMAIN left
    BY <1>3 DEF InUse, IInv, Margin
  <2>2. left[t] \in Nat /\ sinceUse[t] \in Nat /\ \A s \in slides : s.age \in 0 .. Landing
    BY <1>3, <2>1 DEF IInv, Rows
  <2>3. CASE t \in ts
    <3>1. /\ Cost(lost[t]) \in Nat
          /\ Cost(lost'[t]) = Cost(lost[t]) + Gap + Landing
      <4>1. lost[t] \in 0 .. MaxLost /\ lost'[t] = lost[t] + 1
        BY <2>3, <1>1, <1>3
      <4>2. QED
        BY <4>1, CostFacts
    <3>2. HadEnough(t)'
      <4>1. CASE HadEnough(t)
        BY <4>1, <2>2, <3>1, SessionsAssumption DEF HadEnough
      <4>2. CASE IsSliding(t)
        BY <4>2, <2>2, <3>1, SessionsAssumption DEF HadEnough, IsSliding
      <4>3. QED
        BY <4>1, <4>2, <2>1 DEF Margin
    <3>3. QED
      BY <2>1, <3>2 DEF Margin
  <2>4. CASE t \notin ts
    <3>1. lost'[t] = lost[t]
      BY <2>4, <1>1, <1>3
    <3>2. \A s \in slides : s.token = t => s \in slides'
      BY <2>4
    <3>3. QED
      BY <2>1, <3>1, <3>2 DEF Margin, HadEnough, IsSliding
  <2>5. QED
    BY <2>3, <2>4
<1>4. QED
  BY <1>2, <1>3 DEF IInv

(* Time passes for a session and for the slide under way alike. *)
LEMMA TickKeeps ==
  ASSUME IInv, Tick
  PROVE  IInv'
<1>1. /\ DOMAIN left' = DOMAIN left
      /\ \A t \in DOMAIN left : left'[t] = IF left[t] > 0 THEN left[t] - 1 ELSE 0
      /\ slides' = {[token |-> s.token, age |-> s.age + 1] : s \in slides}
      /\ sinceUse' = [t \in issued |-> IF sinceUse[t] > Gap THEN Gap + 1 ELSE sinceUse[t] + 1]
      /\ UNCHANGED <<issued, ended, lost>>
  BY DEF Tick
<1>2. \A s \in slides : [token |-> s.token, age |-> s.age + 1] \in [token : issued, age : 0 .. Landing]
  <2> SUFFICES ASSUME NEW s \in slides
               PROVE  [token |-> s.token, age |-> s.age + 1] \in [token : issued, age : 0 .. Landing]
    OBVIOUS
  <2>1. s \in [token : issued, age : 0 .. Landing] /\ s.age < Landing
    BY DEF IInv, Rows, Tick
  <2>2. QED
    BY <2>1, SessionsAssumption
<1>3. Rows'
  <2>1. \A t \in DOMAIN left' : left'[t] \in Nat
    BY <1>1 DEF IInv, Rows
  <2>2. sinceUse' \in [issued -> Nat]
    BY <1>1, SessionsAssumption DEF IInv, Rows
  <2>3. slides' \subseteq [token : issued, age : 0 .. Landing]
    BY <1>1, <1>2
  <2>4. QED
    BY <1>1, <2>1, <2>2, <2>3 DEF IInv, Rows
<1>4. ASSUME NEW t \in issued', InUse(t)' PROVE Margin(t)'
  <2>1. t \in issued /\ sinceUse[t] \in Nat /\ sinceUse[t] <= Gap /\ sinceUse'[t] = sinceUse[t] + 1
    BY <1>1, <1>4, SessionsAssumption DEF InUse, IInv, Rows
  <2>2. InUse(t) /\ Margin(t) /\ t \in DOMAIN left
    BY <1>1, <1>4, <2>1 DEF InUse, IInv, Margin
  <2>3. left[t] > 0 /\ left[t] \in Nat
    BY <2>2, MarginIsTime DEF IInv, Rows
  <2>4. left'[t] = left[t] - 1
    BY <2>2, <2>3, <1>1
  <2>5. Cost(lost[t]) \in Nat
    <3>1. lost[t] \in 0 .. MaxLost
      BY <2>1 DEF IInv, Rows
    <3>2. QED
      BY <3>1, CostFacts
  <2>6. CASE HadEnough(t)
    <3>1. HadEnough(t)'
      BY <2>1, <2>3, <2>4, <2>5, <2>6, <1>1 DEF HadEnough
    <3>2. QED
      BY <3>1, <2>2, <1>1 DEF Margin
  <2>7. CASE IsSliding(t)
    <3>1. PICK s \in slides : s.token = t /\ left[t] + s.age + Gap + Cost(lost[t]) >= SlideAfter
      BY <2>7 DEF IsSliding
    <3>2. s \in [token : issued, age : 0 .. Landing]
      BY DEF IInv, Rows
    <3>3. /\ [token |-> s.token, age |-> s.age + 1] \in slides'
          /\ [token |-> s.token, age |-> s.age + 1].token = t
          /\ [token |-> s.token, age |-> s.age + 1].age = s.age + 1
      BY <3>1, <3>2, <1>1
    <3>4. left'[t] + (s.age + 1) + Gap + Cost(lost[t]) >= SlideAfter
      BY <3>1, <3>2, <2>3, <2>4, <2>5, SessionsAssumption
    <3>5. IsSliding(t)'
      BY <3>3, <3>4, <1>1 DEF IsSliding
    <3>6. QED
      BY <3>5, <2>2, <1>1 DEF Margin
  <2>8. QED
    BY <2>2, <2>6, <2>7 DEF Margin
<1>5. QED
  BY <1>3, <1>4 DEF IInv

LEMMA CreateKeeps ==
  ASSUME IInv, NEW tab \in Tabs, createSession(tab)
  PROVE  IInv'
<1>1. PICK t \in Tokens \ issued :
        /\ left' = [u \in DOMAIN left \cup {t} |-> IF u = t THEN TTL ELSE left[u]]
        /\ issued' = issued \cup {t}
        /\ sinceUse' = [u \in issued \cup {t} |-> IF u = t THEN 0 ELSE sinceUse[u]]
        /\ lost' = [u \in issued \cup {t} |-> IF u = t THEN 0 ELSE lost[u]]
  BY DEF createSession
<1>2. UNCHANGED <<slides, ended>>
  BY DEF createSession
<1>3. TTL \in Nat /\ TTL >= SlideAfter /\ 0 \in 0 .. MaxLost /\ Cost(0) \in Nat
  <2>1. 0 \in 0 .. MaxLost
    BY SessionsAssumption
  <2>2. QED
    BY <2>1, CostFacts, SessionsAssumption, SlidesLandInTime
<1>4. Rows'
  <2>1. /\ DOMAIN left' = DOMAIN left \cup {t} /\ left'[t] = TTL
        /\ \A u \in DOMAIN left : left'[u] = IF u = t THEN TTL ELSE left[u]
    BY <1>1
  <2>2. DOMAIN left' \subseteq issued' /\ \A u \in DOMAIN left' : left'[u] \in Nat
    BY <2>1, <1>1, <1>3 DEF IInv, Rows
  <2>3. ended' \subseteq issued' /\ ended' \cap DOMAIN left' = {}
    BY <2>1, <1>1, <1>2 DEF IInv, Rows
  <2>4. sinceUse' \in [issued' -> Nat]
    BY <1>1 DEF IInv, Rows
  <2>5. slides' \subseteq [token : issued', age : 0 .. Landing]
    BY <1>1, <1>2 DEF IInv, Rows
  <2>6. lost' \in [issued' -> 0 .. MaxLost]
    BY <1>1, <1>3 DEF IInv, Rows
  <2>7. QED
    BY <2>2, <2>3, <2>4, <2>5, <2>6 DEF Rows
<1>5. ASSUME NEW u \in issued', InUse(u)' PROVE Margin(u)'
  <2>1. CASE u = t
    BY <2>1, <1>1, <1>2, <1>3, SessionsAssumption DEF Margin, HadEnough
  <2>2. CASE u # t
    <3>1. InUse(u) /\ Margin(u) /\ u \in DOMAIN left
      BY <2>2, <1>1, <1>2, <1>5 DEF InUse, IInv, Margin
    <3>2. /\ left'[u] = left[u] /\ sinceUse'[u] = sinceUse[u] /\ lost'[u] = lost[u]
          /\ u \in DOMAIN left'
      BY <2>2, <3>1, <1>1 DEF InUse
    <3>3. QED
      BY <3>1, <3>2, <1>2 DEF Margin, HadEnough, IsSliding
  <2>3. QED
    BY <2>1, <2>2
<1>6. QED
  BY <1>4, <1>5 DEF IInv

LEMMA StepIInv == IInv /\ [Next]_vars => IInv'
<1> SUFFICES ASSUME IInv, [Next]_vars PROVE IInv'
  OBVIOUS
<1> USE DEF client, history
<1>1. CASE UNCHANGED vars
  BY <1>1, Frame DEF vars, server
<1>2. CASE Tick
  BY <1>2, TickKeeps
<1>3. CASE pruneExpiredSessions
  <2>1. \A t \in {u \in DOMAIN left : left[u] = 0} \cap DOMAIN left : left[t] = 0
    OBVIOUS
  <2>2. QED
    BY <1>3, <2>1, DeleteKeeps DEF pruneExpiredSessions
<1>4. CASE Restart
  <2>1. slides' \subseteq slides /\ \A s \in slides : s.token \in Sliding
    BY <1>4 DEF Restart, Sliding
  <2>2. /\ \A t \in Sliding \cap issued : lost[t] < MaxLost
        /\ lost' = [t \in issued |-> IF t \in Sliding THEN lost[t] + 1 ELSE lost[t]]
        /\ UNCHANGED <<left, issued, ended, sinceUse>>
    BY <1>4 DEF Restart
  <2>3. QED
    BY <2>1, <2>2, LossKeeps
<1>5. ASSUME NEW s \in slides, slideExpiry(s) PROVE IInv'
  BY <1>5, SlideKeeps
<1>6. ASSUME NEW s \in slides, SlideFails(s) PROVE IInv'
  <2>1. /\ slides' = slides \ {s} /\ lost[s.token] < MaxLost
        /\ lost' = [lost EXCEPT ![s.token] = @ + 1]
        /\ UNCHANGED <<left, issued, ended, sinceUse>>
    BY <1>6 DEF SlideFails
  <2>2. lost' = [t \in issued |-> IF t \in {s.token} THEN lost[t] + 1 ELSE lost[t]]
    BY <2>1 DEF IInv, Rows
  <2>3. \A r \in slides : r \in slides' \/ r.token \in {s.token}
    BY <2>1
  <2>4. \A t \in {s.token} \cap issued : lost[t] < MaxLost
    BY <2>1
  <2>5. QED
    BY <2>1, <2>2, <2>3, <2>4, LossKeeps
<1>7. ASSUME NEW tab \in Tabs, createSession(tab) PROVE IInv'
  BY <1>7, CreateKeeps
<1>8. ASSUME NEW tab \in Tabs, RightPassword(tab) PROVE IInv'
  <2>1. CASE request[tab].weak
    BY <1>8, <2>1, DeleteKeeps DEF RightPassword, End
  <2>2. CASE ~request[tab].weak
    BY <1>8, <2>2, Frame DEF RightPassword
  <2>3. QED
    BY <2>1, <2>2
<1>9. ASSUME NEW tab \in Tabs, Use(tab) PROVE IInv'
  <2>1. CASE Resolves(getToken(tab))
    BY <1>9, <2>1, UseKeeps DEF Use
  <2>2. CASE ~Resolves(getToken(tab))
    BY <1>9, <2>2, Frame DEF Use
  <2>3. QED
    BY <2>1, <2>2
<1>10. ASSUME NEW tab \in Tabs, NEW step, Ask(tab, step) PROVE IInv'
  BY <1>10, UseKeeps DEF Ask
<1>11. ASSUME NEW tab \in Tabs, ChangePassword(tab) PROVE IInv'
  BY <1>11, DeleteKeeps DEF ChangePassword, End
<1>12. ASSUME NEW tab \in Tabs, logoutAll(tab) PROVE IInv'
  BY <1>12, DeleteKeeps DEF logoutAll, End
<1>13. ASSUME NEW tab \in Tabs, Logout(tab) PROVE IInv'
  <2>1. CASE End({getToken(tab)})
    BY <1>13, <2>1, DeleteKeeps DEF Logout, End
  <2>2. CASE UNCHANGED <<left, ended>>
    BY <1>13, <2>2, Frame DEF Logout
  <2>3. QED
    BY <1>13, <2>1, <2>2 DEF Logout
<1>14. ASSUME NEW tab \in Tabs,
              \/ Register(tab) \/ createAccount(tab) \/ Login(tab)
              \/ WrongPassword(tab) \/ Lock(tab) \/ forgetToken(tab)
              \/ LogoutAnswered(tab)
       PROVE  IInv'
  BY <1>14, Frame
  DEF Register, createAccount, Login, WrongPassword, Lock, forgetToken, LogoutAnswered, server
<1>15. QED
  BY <1>1, <1>2, <1>3, <1>4, <1>5, <1>6, <1>7, <1>8, <1>9, <1>10, <1>11, <1>12, <1>13, <1>14
  DEF Next

-----------------------------------------------------------------------------
(* Signed out is signed out, and whoever stays active stays signed in, as  *)
(* long as MaxLost slides of a session in a row at most are lost.          *)
THEOREM SessionsLast == Spec => []EndsOnlyWhenEnded
<1>1. Init => IInv
  BY InitIInv
<1>2. IInv /\ [Next]_vars => IInv'
  BY StepIInv
<1>3. IInv => EndsOnlyWhenEnded
  BY InvGives
<1>4. QED
  BY <1>1, <1>2, <1>3, PTL DEF Spec
=============================================================================
