------------------------- MODULE TransactionsProofs -------------------------
(***************************************************************************)
(* Proofs about Transactions, for every number of transactions, events and *)
(* concurrent requests and every value of the bounds.                      *)
(*                                                                         *)
(* The inductive invariant is a conjunction of parts, each preserved given *)
(* the parts before it:                                                    *)
(*   OwnerInv  whoever processes a transaction holds its claim alone, and  *)
(*             the claim is too young to be pruned;                        *)
(*   SeenInv   how often an event was handled, against the releases of its *)
(*             claim, for the events the owner still has before it;        *)
(*   OrderInv  the owner's position separates the events handled once more *)
(*             from the others;                                            *)
(*   AckInv    an undisturbed transaction is served by the outstanding     *)
(*             request only, and its claim stands for work done or being   *)
(*             done.                                                       *)
(***************************************************************************)
EXTENDS Transactions, TLAPS

OwnerInv ==
    /\ SingleOwner
    /\ old \subseteq claimed
    /\ \A s \in Slots : Owns(s) => txn[s] \notin old

SeenInv ==
    /\ HandledOncePerRelease
    /\ \A t \in Txns \ claimed : \A e \in Events : seen[t][e] <= released[t]
    /\ \A s \in Slots : Owns(s) =>
          \A e \in Events : e >= pos[s] => seen[txn[s]][e] <= released[txn[s]]

OrderInv ==
    /\ EventsInOrder
    /\ \A s \in Slots : Owns(s) =>
          \A e \in Events, f \in Events :
              e < pos[s] /\ pos[s] <= f => seen[txn[s]][f] < seen[txn[s]][e]

Handled(t) == \A e \in Events : seen[t][e] > 0

AckInv ==
    /\ AckedMeansHandled
    /\ \A t \in claimed : t <= next
    /\ \A s \in Slots : pc[s] # "free" =>
          /\ txn[s] <= next
          /\ txn[s] \notin disturbed => s = req
          /\ pc[s] = "process" =>
                \A e \in Events : e < pos[s] => seen[txn[s]][e] > 0
          /\ pc[s] = "respond" /\ status[s] = "ok" /\ txn[s] \notin disturbed
                => Handled(txn[s])
    /\ \A t \in claimed \ disturbed :
          Handled(t) \/ \E s \in Slots : Owns(s) /\ txn[s] = t

-----------------------------------------------------------------------------
\* What the proofs need of the constants.
LEMMA Sizes ==
    /\ NoSlot \notin Slots
    /\ NumTxns \in Nat /\ NumEvents \in Nat
    /\ Txns \subseteq Nat \ {0} /\ Events \subseteq Nat \ {0}
    /\ 1 \in Txns
    /\ \A n \in Nat \ {0} : n <= NumTxns => n \in Txns
    /\ \A t \in Txns : t <= NumTxns
    /\ \A n \in Nat \ {0} : n <= NumEvents => n \in Events
    /\ \A e \in Events : e <= NumEvents
  BY StreamAssumption DEF Txns, Events

\* What handling an event changes.
EventEffect(z) ==
    /\ pc[z] = "process" /\ Owns(z)
    /\ pos[z] \in Events /\ txn[z] \in Txns
    /\ seen' \in [Txns -> [Events -> Nat]]
    /\ pos' \in [Slots -> Nat \ {0}]
    /\ \A s \in Slots :
          /\ txn[s] \in Txns /\ pos[s] \in Nat
          /\ pos'[s] = IF s = z THEN pos[s] + 1 ELSE pos[s]
    /\ \A t \in Txns : released[t] \in Nat
    /\ \A t \in Txns : \A e \in Events :
          /\ e \in Nat
          /\ seen[t][e] \in Nat
          /\ seen'[t][e] = IF t = txn[z] /\ e = pos[z]
                           THEN seen[t][e] + 1 ELSE seen[t][e]
    /\ claimed \subseteq Txns
    /\ UNCHANGED <<claimed, old, pc, txn, status, next, req, released,
                   disturbed, faults, timeouts, crashes>>

LEMMA EventStep ==
    ASSUME TypeOK, NEW z \in Slots, ProcessEvent(z)
    PROVE  EventEffect(z)
  <1>1. /\ pc[z] = "process" /\ Owns(z)
        /\ pos[z] \in Events /\ txn[z] \in Txns
    BY Sizes DEF ProcessEvent, TypeOK, Owns
  <1>2. DEFINE row == [seen[txn[z]] EXCEPT ![pos[z]] = @ + 1]
  <1>3. seen' = [seen EXCEPT ![txn[z]] = row]
    BY DEF ProcessEvent
  <1>4. /\ row \in [Events -> Nat]
        /\ \A e \in Events : row[e] = IF e = pos[z] THEN seen[txn[z]][e] + 1
                                      ELSE seen[txn[z]][e]
    BY <1>1 DEF TypeOK
  <1> HIDE DEF row
  <1>5. seen' \in [Txns -> [Events -> Nat]]
    BY <1>1, <1>3, <1>4 DEF TypeOK
  <1>6. \A t \in Txns : \A e \in Events :
           /\ seen[t][e] \in Nat
           /\ seen'[t][e] = IF t = txn[z] /\ e = pos[z]
                            THEN seen[t][e] + 1 ELSE seen[t][e]
    BY <1>1, <1>3, <1>4 DEF TypeOK
  <1>7. claimed \subseteq Txns /\ \A t \in Txns : released[t] \in Nat
    BY DEF TypeOK
  <1>8. \A e \in Events : e \in Nat
    BY Sizes
  <1>9. /\ pos' \in [Slots -> Nat \ {0}]
        /\ \A s \in Slots :
              /\ txn[s] \in Txns /\ pos[s] \in Nat
              /\ pos'[s] = IF s = z THEN pos[s] + 1 ELSE pos[s]
    BY DEF ProcessEvent, TypeOK
  <1>10. UNCHANGED <<claimed, old, pc, txn, status, next, req, released,
                     disturbed, faults, timeouts, crashes>>
    BY DEF ProcessEvent, budget
  <1> QED
    BY <1>1, <1>5, <1>6, <1>7, <1>8, <1>9, <1>10 DEF EventEffect

\* The owner of a transaction is the only one that works on its events.
LEMMA OtherOwner ==
    ASSUME OwnerInv, NEW z \in Slots, EventEffect(z), NEW s \in Slots,
           Owns(s), s # z
    PROVE  txn[s] # txn[z]
  BY DEF OwnerInv, SingleOwner, EventEffect

\* Handling an event respects the releases of its claim.
LEMMA SeenEvent ==
    ASSUME OwnerInv, SeenInv, NEW z \in Slots, EventEffect(z)
    PROVE  SeenInv'
  <1>1. seen[txn[z]][pos[z]] <= released[txn[z]] /\ txn[z] \in claimed
    BY DEF SeenInv, EventEffect, OwnerInv, SingleOwner
  <1>2. HandledOncePerRelease'
    BY <1>1 DEF SeenInv, HandledOncePerRelease, EventEffect
  <1>3. (\A t \in Txns \ claimed : \A e \in Events :
             seen[t][e] <= released[t])'
    BY <1>1 DEF SeenInv, EventEffect
  <1>4. ASSUME NEW s \in Slots, Owns(s)', NEW e \in Events, e >= pos'[s]
        PROVE  seen'[txn'[s]][e] <= released'[txn'[s]]
    <2>1. /\ txn[s] \in Txns /\ pos[s] \in Nat /\ pos[z] \in Nat /\ e \in Nat
          /\ Owns(s) /\ txn'[s] = txn[s] /\ released' = released
      BY <1>4 DEF EventEffect, Owns
    <2>2. e >= pos[s]
      BY <1>4, <2>1 DEF EventEffect
    <2>3. ~(txn[s] = txn[z] /\ e = pos[z])
      BY <1>4, <2>1, OtherOwner DEF EventEffect
    <2>4. seen[txn[s]][e] <= released[txn[s]]
      BY <2>1, <2>2 DEF SeenInv
    <2> QED
      BY <2>1, <2>3, <2>4 DEF EventEffect
  <1> QED
    BY <1>2, <1>3, <1>4 DEF SeenInv

\* Handling the event at the owner's position keeps the order.
LEMMA OrderEvent ==
    ASSUME OwnerInv, OrderInv, NEW z \in Slots, EventEffect(z)
    PROVE  OrderInv'
  <1>1. \A e \in Events : e < pos[z]
           => seen[txn[z]][pos[z]] < seen[txn[z]][e]
    BY DEF OrderInv, EventEffect
  <1>2. ASSUME NEW t \in Txns, NEW e \in Events, NEW f \in Events, e < f
        PROVE  seen'[t][f] <= seen'[t][e]
    <2>1. seen[t][f] <= seen[t][e]
      BY <1>2 DEF OrderInv, EventsInOrder
    <2> QED
      BY <1>1, <1>2, <2>1 DEF EventEffect
  <1>3. ASSUME NEW s \in Slots, Owns(s)', NEW e \in Events,
               NEW f \in Events, e < pos'[s], pos'[s] <= f
        PROVE  seen'[txn'[s]][f] < seen'[txn'[s]][e]
    <2>1. /\ txn[s] \in Txns /\ pos[s] \in Nat /\ pos[z] \in Nat
          /\ e \in Nat /\ f \in Nat
          /\ Owns(s) /\ txn'[s] = txn[s]
      BY <1>3 DEF EventEffect, Owns
    <2>2. /\ seen[txn[s]][e] \in Nat /\ seen[txn[s]][f] \in Nat
          /\ seen'[txn[s]][e] \in Nat
      BY <2>1 DEF EventEffect
    <2>3. CASE s # z
      <3>1. txn[s] # txn[z] /\ pos'[s] = pos[s]
        BY <2>1, <2>3, OtherOwner DEF EventEffect
      <3>2. seen[txn[s]][f] < seen[txn[s]][e]
        BY <1>3, <2>1, <3>1 DEF OrderInv
      <3> QED
        BY <2>1, <3>1, <3>2 DEF EventEffect
    <2>4. CASE s = z
      <3>1. pos'[s] = pos[z] + 1 /\ pos[z] \in Events
        BY <2>4 DEF EventEffect
      <3>2. pos[z] < f /\ e <= pos[z]
        BY <1>3, <2>1, <3>1
      <3>3. seen'[txn[s]][f] = seen[txn[s]][f]
        BY <2>1, <3>2 DEF EventEffect
      <3>4. CASE e = pos[z]
        <4>1. seen[txn[s]][f] <= seen[txn[s]][e]
          BY <2>1, <3>2, <3>4 DEF OrderInv, EventsInOrder
        <4>2. seen'[txn[s]][e] = seen[txn[s]][e] + 1
          BY <2>1, <2>4, <3>4 DEF EventEffect
        <4> QED
          BY <2>1, <2>2, <3>3, <4>1, <4>2
      <3>5. CASE e # pos[z]
        <4>1. e < pos[s] /\ pos[s] <= f
          BY <2>1, <2>4, <3>2, <3>5
        <4>2. seen[txn[s]][f] < seen[txn[s]][e]
          BY <2>1, <4>1 DEF OrderInv
        <4>3. seen'[txn[s]][e] = seen[txn[s]][e]
          BY <2>1, <3>5 DEF EventEffect
        <4> QED
          BY <2>1, <3>3, <4>2, <4>3
      <3> QED
        BY <3>4, <3>5
    <2> QED
      BY <2>3, <2>4
  <1> QED
    BY <1>2, <1>3 DEF OrderInv, EventsInOrder

\* Handling an event takes nothing back of what an answer stands for.
LEMMA AckEvent ==
    ASSUME AckInv, NEW z \in Slots, EventEffect(z)
    PROVE  AckInv'
  <1>1. \A t \in Txns : \A e \in Events : seen[t][e] > 0 => seen'[t][e] > 0
    BY DEF EventEffect
  <1>2. \A t \in Txns : Handled(t) => Handled(t)'
    BY <1>1 DEF Handled
  <1>3. /\ UNCHANGED <<claimed, pc, txn, status, next, req, disturbed>>
        /\ \A s \in Slots : txn[s] \in Txns
    BY DEF EventEffect
  <1>4. ASSUME NEW s \in Slots, pc'[s] = "process", NEW e \in Events,
               e < pos'[s]
        PROVE  seen'[txn'[s]][e] > 0
    <2>1. /\ txn[s] \in Txns /\ pos[s] \in Nat /\ pos[z] \in Nat /\ e \in Nat
          /\ seen[txn[s]][e] \in Nat
          /\ pc[s] = "process" /\ txn'[s] = txn[s]
      BY <1>4 DEF EventEffect
    <2>2. CASE e < pos[s]
      <3>1. seen[txn[s]][e] > 0
        BY <2>1, <2>2 DEF AckInv
      <3> QED
        BY <1>1, <2>1, <3>1
    <2>3. CASE ~(e < pos[s])
      <3>1. pos'[s] = IF s = z THEN pos[s] + 1 ELSE pos[s]
        BY DEF EventEffect
      <3>2. s = z /\ e = pos[z]
        BY <1>4, <2>1, <2>3, <3>1
      <3>3. seen'[txn[s]][e] = seen[txn[s]][e] + 1
        BY <2>1, <3>2 DEF EventEffect
      <3> QED
        BY <2>1, <3>3
    <2> QED
      BY <2>2, <2>3
  <1>5. \A t \in Txns : t < next /\ t \notin disturbed => Handled(t)
    BY DEF AckInv, AckedMeansHandled, Handled
  <1>6. AckedMeansHandled'
    BY <1>2, <1>3, <1>5 DEF AckedMeansHandled, Handled
  <1>7. \A t \in claimed' \ disturbed' :
           Handled(t)' \/ \E s \in Slots : Owns(s)' /\ txn'[s] = t
    <2> SUFFICES ASSUME NEW t \in claimed \ disturbed
                 PROVE  \/ Handled(t)'
                        \/ \E s \in Slots : Owns(s)' /\ txn'[s] = t
      BY <1>3
    <2>1. t \in Txns
      BY DEF EventEffect
    <2>2. Handled(t) \/ \E s \in Slots : Owns(s) /\ txn[s] = t
      BY DEF AckInv
    <2>3. \A s \in Slots : Owns(s) => Owns(s)'
      BY <1>3 DEF Owns
    <2> QED
      BY <1>2, <1>3, <2>1, <2>2, <2>3
  <1>8. ASSUME NEW s \in Slots, pc'[s] # "free"
        PROVE  /\ txn'[s] <= next'
               /\ txn'[s] \notin disturbed' => s = req'
               /\ pc'[s] = "process" =>
                     \A e \in Events : e < pos'[s] => seen'[txn'[s]][e] > 0
               /\ pc'[s] = "respond" /\ status'[s] = "ok"
                     /\ txn'[s] \notin disturbed' => Handled(txn[s])'
    <2>1. /\ txn[s] <= next
          /\ txn[s] \notin disturbed => s = req
          /\ pc[s] = "respond" /\ status[s] = "ok" /\ txn[s] \notin disturbed
                => Handled(txn[s])
      BY <1>3, <1>8 DEF AckInv
    <2> QED
      BY <1>2, <1>3, <1>4, <2>1
  <1>9. \A t \in claimed' : t <= next'
    BY <1>3 DEF AckInv
  <1> QED
    BY <1>6, <1>7, <1>8, <1>9 DEF AckInv

\* No step of homeserver, handler, prune or crash breaks the types.
LEMMA NextType ==
    TypeOK /\ [Next]_vars => TypeOK'
  <1> SUFFICES ASSUME TypeOK, [Next]_vars
               PROVE  TypeOK'
    OBVIOUS
  <1>1. ASSUME NEW z \in Slots, ProcessEvent(z) PROVE TypeOK'
    <2>1. EventEffect(z)
      BY <1>1, EventStep
    <2> QED
      BY <2>1 DEF EventEffect, TypeOK
  <1> USE Sizes
      DEF TypeOK, Steps, Served, requests, history, budget,
          StoreError
  <1>2. ASSUME NEW z \in Slots, Deliver(z) PROVE TypeOK'
    BY <1>2 DEF Deliver
  <1>3. ASSUME NEW z \in Slots, ClaimTransaction(z) PROVE TypeOK'
    BY <1>3 DEF ClaimTransaction
  <1>4. ASSUME NEW z \in Slots, AlreadyClaimed(z) PROVE TypeOK'
    BY <1>4 DEF AlreadyClaimed
  <1>5. ASSUME NEW z \in Slots, ClaimFails(z) PROVE TypeOK'
    BY <1>5 DEF ClaimFails
  <1>6. ASSUME NEW z \in Slots, AbortOnStoreError(z) PROVE TypeOK'
    <2>1. pc' \in [Slots -> Steps]
      BY <1>6 DEF AbortOnStoreError
    <2>3. faults' \in Nat
      BY <1>6 DEF AbortOnStoreError
    <2>4. req' # NoSlot => pc'[req'] # "free" /\ txn'[req'] = next'
      BY <1>6 DEF AbortOnStoreError
    <2>5. seen' \in [Txns -> [Events -> Nat]]
      BY <1>6 DEF AbortOnStoreError
    <2> QED
      BY <1>6, <2>1, <2>3, <2>4, <2>5 DEF AbortOnStoreError
  <1>7. ASSUME NEW z \in Slots, FinishTransaction(z) PROVE TypeOK'
    BY <1>7 DEF FinishTransaction
  <1>8. ASSUME NEW z \in Slots, UnclaimTransaction(z) PROVE TypeOK'
    <2>1. pc' \in [Slots -> Steps] /\ status' \in [Slots -> {"ok", "error"}]
      BY <1>8 DEF UnclaimTransaction
    <2>2. txn[z] \in Txns
      OBVIOUS
    <2>3. released[txn[z]] \in Nat
      BY <2>2
    <2>4. released' \in [Txns -> Nat]
      BY <1>8, <2>3 DEF UnclaimTransaction
    <2>5. req' # NoSlot => pc'[req'] # "free" /\ txn'[req'] = next'
      BY <1>8 DEF UnclaimTransaction
    <2> QED
      BY <1>8, <2>1, <2>4, <2>5 DEF UnclaimTransaction
  <1>9. ASSUME NEW z \in Slots, UnclaimFails(z) PROVE TypeOK'
    <2>1. pc' \in [Slots -> Steps] /\ status' \in [Slots -> {"ok", "error"}]
      BY <1>9 DEF UnclaimFails
    <2>2. disturbed' \subseteq Txns
      BY <1>9 DEF UnclaimFails
    <2>3. req' # NoSlot => pc'[req'] # "free" /\ txn'[req'] = next'
      BY <1>9 DEF UnclaimFails
    <2> QED
      BY <1>9, <2>1, <2>2, <2>3 DEF UnclaimFails
  <1>10. ASSUME NEW z \in Slots, Respond(z) PROVE TypeOK'
    BY <1>10 DEF Respond, Free
  <1>11. CASE GiveUpWaiting
    <2>1. req \in Slots /\ txn[req] \in Txns
      BY <1>11 DEF GiveUpWaiting
    <2>2. disturbed' \subseteq Txns
      BY <1>11, <2>1 DEF GiveUpWaiting
    <2>3. /\ pc' \in [Slots -> Steps] /\ txn' \in [Slots -> Txns]
          /\ pos' \in [Slots -> Nat \ {0}]
          /\ status' \in [Slots -> {"ok", "error"}]
      BY <1>11 DEF GiveUpWaiting, Free
    <2> QED
      BY <1>11, <2>2, <2>3 DEF GiveUpWaiting
  <1>12. ASSUME NEW w \in Txns, ClaimAges(w) PROVE TypeOK'
    BY <1>12 DEF ClaimAges
  <1>13. CASE PruneOldData
    BY <1>13 DEF PruneOldData
  <1>14. CASE Crash
    <2>1. disturbed' \subseteq Txns
      BY <1>14 DEF Crash
    <2>2. /\ pc' \in [Slots -> Steps] /\ txn' \in [Slots -> Txns]
          /\ pos' \in [Slots -> Nat \ {0}]
          /\ status' \in [Slots -> {"ok", "error"}]
      BY <1>14 DEF Crash, Free
    <2> QED
      BY <1>14, <2>1, <2>2 DEF Crash
  <1>15. CASE UNCHANGED vars
    BY <1>15 DEF vars
  <1> QED
    BY <1>1, <1>2, <1>3, <1>4, <1>5, <1>6, <1>7, <1>8, <1>9, <1>10,
       <1>11, <1>12, <1>13, <1>14, <1>15
    DEF Next, Homeserver, Serve

\* The claim keeps its single owner.
LEMMA NextOwner ==
    TypeOK /\ OwnerInv /\ [Next]_vars => OwnerInv'
  <1> SUFFICES ASSUME TypeOK, OwnerInv, [Next]_vars
               PROVE  OwnerInv'
    OBVIOUS
  <1>1. ASSUME NEW z \in Slots, ProcessEvent(z) PROVE OwnerInv'
    BY <1>1, EventStep DEF EventEffect, OwnerInv, SingleOwner, Owns
  <1> USE Sizes
      DEF TypeOK, OwnerInv, SingleOwner, Owns, Served, Steps, requests,
          history, budget, StoreError
  <1>2. ASSUME NEW z \in Slots, Deliver(z) PROVE OwnerInv'
    BY <1>2 DEF Deliver
  <1>3. ASSUME NEW z \in Slots, ClaimTransaction(z) PROVE OwnerInv'
    BY <1>3 DEF ClaimTransaction
  <1>4. ASSUME NEW z \in Slots, AlreadyClaimed(z) PROVE OwnerInv'
    BY <1>4 DEF AlreadyClaimed
  <1>5. ASSUME NEW z \in Slots, ClaimFails(z) PROVE OwnerInv'
    BY <1>5 DEF ClaimFails
  <1>6. ASSUME NEW z \in Slots, AbortOnStoreError(z) PROVE OwnerInv'
    BY <1>6 DEF AbortOnStoreError
  <1>7. ASSUME NEW z \in Slots, FinishTransaction(z) PROVE OwnerInv'
    BY <1>7 DEF FinishTransaction
  <1>8. ASSUME NEW z \in Slots, UnclaimTransaction(z) PROVE OwnerInv'
    BY <1>8 DEF UnclaimTransaction
  <1>9. ASSUME NEW z \in Slots, UnclaimFails(z) PROVE OwnerInv'
    BY <1>9 DEF UnclaimFails
  <1>10. ASSUME NEW z \in Slots, Respond(z) PROVE OwnerInv'
    BY <1>10 DEF Respond, Free
  <1>11. CASE GiveUpWaiting
    BY <1>11 DEF GiveUpWaiting, Free
  <1>12. ASSUME NEW w \in Txns, ClaimAges(w) PROVE OwnerInv'
    BY <1>12 DEF ClaimAges
  <1>13. CASE PruneOldData
    BY <1>13 DEF PruneOldData
  <1>14. CASE Crash
    BY <1>14 DEF Crash, Free
  <1>15. CASE UNCHANGED vars
    BY <1>15 DEF vars
  <1> QED
    BY <1>1, <1>2, <1>3, <1>4, <1>5, <1>6, <1>7, <1>8, <1>9, <1>10,
       <1>11, <1>12, <1>13, <1>14, <1>15
    DEF Next, Homeserver, Serve

\* An event is handled again only after a release of the claim.
LEMMA NextSeen ==
    TypeOK /\ OwnerInv /\ SeenInv /\ [Next]_vars => SeenInv'
  <1> SUFFICES ASSUME TypeOK, OwnerInv, SeenInv, [Next]_vars
               PROVE  SeenInv'
    OBVIOUS
  <1>1. ASSUME NEW z \in Slots, ProcessEvent(z) PROVE SeenInv'
    BY <1>1, EventStep, SeenEvent
  <1> USE Sizes
      DEF TypeOK, OwnerInv, SingleOwner, SeenInv, HandledOncePerRelease,
          Owns, Served, Steps, requests, history, budget,
          StoreError
  <1>2. ASSUME NEW z \in Slots, Deliver(z) PROVE SeenInv'
    BY <1>2 DEF Deliver
  <1>3. ASSUME NEW z \in Slots, ClaimTransaction(z) PROVE SeenInv'
    BY <1>3 DEF ClaimTransaction
  <1>4. ASSUME NEW z \in Slots, AlreadyClaimed(z) PROVE SeenInv'
    BY <1>4 DEF AlreadyClaimed
  <1>5. ASSUME NEW z \in Slots, ClaimFails(z) PROVE SeenInv'
    BY <1>5 DEF ClaimFails
  <1>6. ASSUME NEW z \in Slots, AbortOnStoreError(z) PROVE SeenInv'
    BY <1>6 DEF AbortOnStoreError
  <1>7. ASSUME NEW z \in Slots, FinishTransaction(z) PROVE SeenInv'
    BY <1>7 DEF FinishTransaction
  <1>8. ASSUME NEW z \in Slots, UnclaimTransaction(z) PROVE SeenInv'
    BY <1>8 DEF UnclaimTransaction
  <1>9. ASSUME NEW z \in Slots, UnclaimFails(z) PROVE SeenInv'
    BY <1>9 DEF UnclaimFails
  <1>10. ASSUME NEW z \in Slots, Respond(z) PROVE SeenInv'
    BY <1>10 DEF Respond, Free
  <1>11. CASE GiveUpWaiting
    BY <1>11 DEF GiveUpWaiting, Free
  <1>12. ASSUME NEW w \in Txns, ClaimAges(w) PROVE SeenInv'
    BY <1>12 DEF ClaimAges
  <1>13. CASE PruneOldData
    BY <1>13 DEF PruneOldData
  <1>14. CASE Crash
    BY <1>14 DEF Crash, Free
  <1>15. CASE UNCHANGED vars
    BY <1>15 DEF vars
  <1> QED
    BY <1>1, <1>2, <1>3, <1>4, <1>5, <1>6, <1>7, <1>8, <1>9, <1>10,
       <1>11, <1>12, <1>13, <1>14, <1>15
    DEF Next, Homeserver, Serve

\* Events are handled in the order of their transaction.
LEMMA NextOrder ==
    TypeOK /\ OwnerInv /\ OrderInv /\ [Next]_vars => OrderInv'
  <1> SUFFICES ASSUME TypeOK, OwnerInv, OrderInv, [Next]_vars
               PROVE  OrderInv'
    OBVIOUS
  <1>1. ASSUME NEW z \in Slots, ProcessEvent(z) PROVE OrderInv'
    BY <1>1, EventStep, OrderEvent
  <1> USE Sizes
      DEF TypeOK, OwnerInv, SingleOwner, OrderInv, EventsInOrder, Owns,
          Served, Steps, requests, history, budget,
          StoreError
  <1>2. ASSUME NEW z \in Slots, Deliver(z) PROVE OrderInv'
    BY <1>2 DEF Deliver
  <1>3. ASSUME NEW z \in Slots, ClaimTransaction(z) PROVE OrderInv'
    BY <1>3 DEF ClaimTransaction
  <1>4. ASSUME NEW z \in Slots, AlreadyClaimed(z) PROVE OrderInv'
    BY <1>4 DEF AlreadyClaimed
  <1>5. ASSUME NEW z \in Slots, ClaimFails(z) PROVE OrderInv'
    BY <1>5 DEF ClaimFails
  <1>6. ASSUME NEW z \in Slots, AbortOnStoreError(z) PROVE OrderInv'
    BY <1>6 DEF AbortOnStoreError
  <1>7. ASSUME NEW z \in Slots, FinishTransaction(z) PROVE OrderInv'
    BY <1>7 DEF FinishTransaction
  <1>8. ASSUME NEW z \in Slots, UnclaimTransaction(z) PROVE OrderInv'
    BY <1>8 DEF UnclaimTransaction
  <1>9. ASSUME NEW z \in Slots, UnclaimFails(z) PROVE OrderInv'
    BY <1>9 DEF UnclaimFails
  <1>10. ASSUME NEW z \in Slots, Respond(z) PROVE OrderInv'
    BY <1>10 DEF Respond, Free
  <1>11. CASE GiveUpWaiting
    BY <1>11 DEF GiveUpWaiting, Free
  <1>12. ASSUME NEW w \in Txns, ClaimAges(w) PROVE OrderInv'
    BY <1>12 DEF ClaimAges
  <1>13. CASE PruneOldData
    BY <1>13 DEF PruneOldData
  <1>14. CASE Crash
    BY <1>14 DEF Crash, Free
  <1>15. CASE UNCHANGED vars
    BY <1>15 DEF vars
  <1> QED
    BY <1>1, <1>2, <1>3, <1>4, <1>5, <1>6, <1>7, <1>8, <1>9, <1>10,
       <1>11, <1>12, <1>13, <1>14, <1>15
    DEF Next, Homeserver, Serve

\* The claim of an undisturbed transaction stands for its work.
LEMMA NextAck ==
    TypeOK /\ OwnerInv /\ AckInv /\ [Next]_vars => AckInv'
  <1> SUFFICES ASSUME TypeOK, OwnerInv, AckInv, [Next]_vars
               PROVE  AckInv'
    OBVIOUS
  <1>1. ASSUME NEW z \in Slots, ProcessEvent(z) PROVE AckInv'
    BY <1>1, EventStep, AckEvent
  <1> USE Sizes
      DEF TypeOK, OwnerInv, SingleOwner, AckInv, AckedMeansHandled,
          Handled, Owns, Served, Steps, requests, history, budget,
          StoreError
  <1>2. ASSUME NEW z \in Slots, Deliver(z) PROVE AckInv'
    BY <1>2 DEF Deliver
  <1>3. ASSUME NEW z \in Slots, ClaimTransaction(z) PROVE AckInv'
    BY <1>3 DEF ClaimTransaction
  <1>4. ASSUME NEW z \in Slots, AlreadyClaimed(z) PROVE AckInv'
    BY <1>4 DEF AlreadyClaimed
  <1>5. ASSUME NEW z \in Slots, ClaimFails(z) PROVE AckInv'
    BY <1>5 DEF ClaimFails
  <1>6. ASSUME NEW z \in Slots, AbortOnStoreError(z) PROVE AckInv'
    BY <1>6 DEF AbortOnStoreError
  <1>7. ASSUME NEW z \in Slots, FinishTransaction(z) PROVE AckInv'
    BY <1>7 DEF FinishTransaction
  <1>8. ASSUME NEW z \in Slots, UnclaimTransaction(z) PROVE AckInv'
    BY <1>8 DEF UnclaimTransaction
  <1>9. ASSUME NEW z \in Slots, UnclaimFails(z) PROVE AckInv'
    BY <1>9 DEF UnclaimFails
  <1>10. ASSUME NEW z \in Slots, Respond(z) PROVE AckInv'
    <2>1. CASE req # z
      BY <1>10, <2>1 DEF Respond, Free
    <2>2. CASE req = z /\ status[z] # "ok"
      BY <1>10, <2>2 DEF Respond, Free
    <2>3. CASE req = z /\ status[z] = "ok"
      <3>1. next' = next + 1 /\ req' = NoSlot /\ txn[z] = next
        BY <1>10, <2>3 DEF Respond
      <3>2. next \notin disturbed => Handled(next)
        BY <1>10, <2>3, <3>1 DEF Respond
      <3>3. /\ UNCHANGED <<claimed, seen, disturbed>>
            /\ \A s \in Slots : pc'[s] # "free" =>
                  /\ s # z /\ pc[s] = pc'[s] /\ txn[s] = txn'[s]
                  /\ pos[s] = pos'[s] /\ status[s] = status'[s]
            /\ \A s \in Slots \ {z} : pc'[s] = pc[s] /\ txn'[s] = txn[s]
            /\ ~Owns(z)
        BY <1>10 DEF Respond, Free
      <3>4. \A t \in Txns : t < next' => t < next \/ t = next
        BY <3>1
      <3>5. AckedMeansHandled'
        BY <3>2, <3>3, <3>4
      <3>6. \A t \in claimed' : t <= next'
        BY <3>1, <3>3
      <3>7. ASSUME NEW s \in Slots, pc'[s] # "free"
            PROVE  /\ txn'[s] <= next'
                   /\ txn'[s] \notin disturbed' => s = req'
                   /\ pc'[s] = "process" =>
                         \A e \in Events :
                             e < pos'[s] => seen'[txn'[s]][e] > 0
                   /\ pc'[s] = "respond" /\ status'[s] = "ok"
                         /\ txn'[s] \notin disturbed' => Handled(txn[s])'
        <4>1. /\ s # z /\ pc[s] # "free" /\ txn[s] \in Nat
              /\ pc'[s] = pc[s] /\ txn'[s] = txn[s] /\ pos'[s] = pos[s]
          BY <3>3, <3>7
        <4>2. txn[s] <= next /\ (txn[s] \notin disturbed => s = req)
          BY <4>1
        <4>3. txn[s] \in disturbed
          BY <2>3, <4>1, <4>2
        <4>4. txn'[s] <= next'
          BY <3>1, <4>1, <4>2
        <4>5. txn'[s] \in disturbed'
          BY <3>3, <4>1, <4>3
        <4>6. pc'[s] = "process" =>
                 \A e \in Events : e < pos'[s] => seen'[txn'[s]][e] > 0
          BY <3>3, <4>1
        <4> QED
          BY <4>4, <4>5, <4>6
      <3>8. \A t \in claimed' \ disturbed' :
               Handled(t)' \/ \E s \in Slots : Owns(s)' /\ txn'[s] = t
        BY <3>3
      <3> QED
        BY <3>3, <3>5, <3>6, <3>7, <3>8
    <2> QED
      BY <2>1, <2>2, <2>3
  <1>11. CASE GiveUpWaiting
    BY <1>11 DEF GiveUpWaiting, Free
  <1>12. ASSUME NEW w \in Txns, ClaimAges(w) PROVE AckInv'
    BY <1>12 DEF ClaimAges
  <1>13. CASE PruneOldData
    BY <1>13 DEF PruneOldData
  <1>14. CASE Crash
    BY <1>14 DEF Crash, Free
  <1>15. CASE UNCHANGED vars
    BY <1>15 DEF vars
  <1> QED
    BY <1>1, <1>2, <1>3, <1>4, <1>5, <1>6, <1>7, <1>8, <1>9, <1>10,
       <1>11, <1>12, <1>13, <1>14, <1>15
    DEF Next, Homeserver, Serve

\* The initial state satisfies every part.
LEMMA InitInv ==
    Init => TypeOK /\ OwnerInv /\ SeenInv /\ OrderInv /\ AckInv
  <1> SUFFICES ASSUME Init
               PROVE  TypeOK /\ OwnerInv /\ SeenInv /\ OrderInv /\ AckInv
    OBVIOUS
  <1> USE Sizes DEF Init
  <1>1. TypeOK
    BY DEF TypeOK, Steps
  <1>2. OwnerInv
    BY DEF OwnerInv, SingleOwner, Owns
  <1>3. SeenInv
    BY DEF SeenInv, HandledOncePerRelease, Owns
  <1>4. OrderInv
    BY DEF OrderInv, EventsInOrder, Owns
  <1>5. AckInv
    BY DEF AckInv, AckedMeansHandled
  <1> QED
    BY <1>1, <1>2, <1>3, <1>4, <1>5

\* The parts together hold in every reachable state.
LEMMA Invariance ==
    Spec => [](TypeOK /\ OwnerInv /\ SeenInv /\ OrderInv /\ AckInv)
  <1> DEFINE Inv == TypeOK /\ OwnerInv /\ SeenInv /\ OrderInv /\ AckInv
  <1>1. Init => Inv
    BY InitInv
  <1>2. Inv /\ [Next]_vars => Inv'
    BY NextType, NextOwner, NextSeen, NextOrder, NextAck
  <1> QED
    BY <1>1, <1>2, PTL DEF Spec

\* The endpoint keeps its types, and the request the homeserver waits for is
\* being served for the transaction it waits for.
THEOREM TypeCorrect == Spec => []TypeOK
  BY Invariance, PTL

\* However many deliveries of a transaction overlap, one at most processes
\* it, and it holds the claim (claim_transaction).
THEOREM ClaimIsExclusive == Spec => []SingleOwner
  <1>1. OwnerInv => SingleOwner
    BY DEF OwnerInv
  <1> QED
    BY <1>1, Invariance, PTL

\* Duplicate deliveries, timeouts and crashes never make an event be handled
\* twice; only a deleted claim does (handle_transactions).
THEOREM HandledOnce == Spec => []HandledOncePerRelease
  <1>1. SeenInv => HandledOncePerRelease
    BY DEF SeenInv
  <1> QED
    BY <1>1, Invariance, PTL

\* Events of a transaction are handled in order, across its repetitions.
THEOREM InOrder == Spec => []EventsInOrder
  <1>1. OrderInv => EventsInOrder
    BY DEF OrderInv
  <1> QED
    BY <1>1, Invariance, PTL

\* The homeserver's 200 for an undisturbed transaction means that every event
\* of it was handled.
THEOREM AckIsHonest == Spec => []AckedMeansHandled
  <1>1. AckInv => AckedMeansHandled
    BY DEF AckInv
  <1> QED
    BY <1>1, Invariance, PTL
=============================================================================
