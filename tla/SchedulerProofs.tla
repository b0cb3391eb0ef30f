--------------------------- MODULE SchedulerProofs ---------------------------
(***************************************************************************)
(* Theorems about Scheduler, for every set of slices and nodes, every size *)
(* and capacity, every reuse of names and every set of faults.             *)
(***************************************************************************)
EXTENDS Scheduler, SumLemmas, TLAPS

-----------------------------------------------------------------------------
(* Sums.                                                                   *)

(* Adding a slice to a set adds its request to the sum; removing it takes  *)
(* the same off again.                                                     *)
LEMMA BytesStep ==
    ASSUME NEW S \in SUBSET Slice, NEW s \in Slice
    PROVE  /\ Bytes[S] \in Nat /\ Req[s] \in Nat
           /\ s \notin S => Bytes[S \cup {s}] = Bytes[S] + Req[s]
           /\ s \in S => Bytes[S] = Bytes[S \ {s}] + Req[s]
  <1>1. Bytes[S] \in Nat /\ Req[s] \in Nat
    BY BytesAssumption, SizeAssumption
  <1>2. s \notin S => Bytes[S \cup {s}] = Bytes[S] + Req[s]
    BY BytesAssumption
  <1>3. ASSUME s \in S PROVE Bytes[S] = Bytes[S \ {s}] + Req[s]
    <2>1. S \ {s} \in SUBSET Slice /\ s \in Slice \ (S \ {s})
      OBVIOUS
    <2>2. (S \ {s}) \cup {s} = S
      BY <1>3
    <2>3. QED BY <2>1, <2>2, BytesAssumption
  <1>4. QED BY <1>1, <1>2, <1>3

(* The guarded updates of a node counter, entry by entry. *)
LEMMA CounterStep ==
    ASSUME nodes \in SUBSET Node, NEW f \in [Node -> Nat], NEW n, NEW s \in Slice
    PROVE  /\ Discharge(f, n, s) \in [Node -> Nat]
           /\ Charge(f, n, s) \in [Node -> Nat]
           /\ \A m \in Node :
                /\ Discharge(f, n, s)[m] = IF m = n /\ n \in nodes
                                            THEN Floor(f[m], Req[s]) ELSE f[m]
                /\ Charge(f, n, s)[m] = IF m = n /\ n \in nodes
                                         THEN f[m] + Req[s] ELSE f[m]
  <1>1. Req[s] \in Nat
    BY SizeAssumption
  <1>2. \A x \in Nat : Floor(x, Req[s]) \in Nat
    BY <1>1 DEF Floor
  <1>3. CASE n \in nodes
    <2>1. n \in Node /\ f[n] \in Nat
      BY <1>3
    <2>2. Floor(f[n], Req[s]) \in Nat /\ f[n] + Req[s] \in Nat
      BY <1>1, <1>2, <2>1
    <2>3. QED BY <1>3, <2>1, <2>2 DEF Discharge, Charge
  <1>4. CASE n \notin nodes
    BY <1>4 DEF Discharge, Charge
  <1>5. QED BY <1>3, <1>4

-----------------------------------------------------------------------------
(* What each critical section of the cache does to the holds.              *)

(* A function of slices that loses entries and gains none. *)
Shrinks(f, g) == \A s \in Slice : g[s] \in {f[s], NoNode}

(* A critical section that does not touch the holds. *)
HoldsUnchanged == UNCHANGED <<reservedVRAM, assumedBySlice, confirmedBySlice>>

HoldsOK ==
    CacheTypeOK /\ HoldsExclusive /\ AbsentUncharged /\ ReservationsBacked

HoldsShrink == /\ Shrinks(assumedBySlice, assumedBySlice')
               /\ Shrinks(confirmedBySlice, confirmedBySlice')

(* Critical sections that leave the holds alone keep the counters backed. *)
LEMMA KeepHolds ==
    ASSUME HoldsOK, HoldsUnchanged, CacheTypeOK', nodes \subseteq nodes'
    PROVE  HoldsOK' /\ HoldsShrink
  <1>1. \A n \in Node : HeldOn(n)' = HeldOn(n)
    BY DEF HoldsUnchanged, HeldOn
  <1>2. ReservationsBacked'
    BY <1>1 DEF HoldsOK, HoldsUnchanged, ReservationsBacked
  <1>3. HoldsExclusive' /\ HoldsShrink
    BY DEF HoldsOK, HoldsUnchanged, HoldsExclusive, HoldsShrink, Shrinks
  <1>4. AbsentUncharged'
    BY DEF HoldsOK, HoldsUnchanged, AbsentUncharged
  <1>5. QED BY <1>2, <1>3, <1>4 DEF HoldsOK

(* A hold that is dropped from a node leaves the node backed, whether the   *)
(* counter is decremented, floors at zero, or is not there to decrement.    *)
LEMMA DroppedHold ==
    ASSUME HoldsOK, NEW n \in Node, NEW s \in HeldOn(n)
    PROVE  (IF n \in nodes THEN Floor(reservedVRAM[n], Req[s]) ELSE reservedVRAM[n])
               <= Bytes[HeldOn(n) \ {s}]
  <1>1. HeldOn(n) \in SUBSET Slice /\ s \in Slice /\ reservedVRAM[n] \in Nat
    BY DEF HeldOn, HoldsOK, CacheTypeOK
  <1>2. /\ Bytes[HeldOn(n)] = Bytes[HeldOn(n) \ {s}] + Req[s]
        /\ Req[s] \in Nat
        /\ Bytes[HeldOn(n) \ {s}] \in Nat
    BY <1>1, BytesStep
  <1>3. reservedVRAM[n] <= Bytes[HeldOn(n)]
    BY DEF HoldsOK, ReservationsBacked
  <1>4. n \notin nodes => reservedVRAM[n] = 0
    BY DEF HoldsOK, AbsentUncharged
  <1>5. QED BY <1>1, <1>2, <1>3, <1>4 DEF Floor

(* RollbackAssumedSlice (transaction rollback, TTL reaper, ForgetSlice). *)
LEMMA RollbackHolds ==
    ASSUME HoldsOK, NEW s \in Slice, RollbackAssumedSlice(s)
    PROVE  HoldsOK' /\ HoldsShrink
  <1> USE DEF HoldsOK, CacheTypeOK, Place
  <1>1. /\ assumedBySlice' = [assumedBySlice EXCEPT ![s] = NoNode]
        /\ UNCHANGED <<nodes, confirmedBySlice>>
        /\ reservedVRAM' = Discharge(reservedVRAM, assumedBySlice[s], s)
    BY DEF RollbackAssumedSlice
  <1>2. /\ reservedVRAM' \in [Node -> Nat]
        /\ \A n \in Node : reservedVRAM'[n] =
               IF n = assumedBySlice[s] /\ assumedBySlice[s] \in nodes
                 THEN Floor(reservedVRAM[n], Req[s]) ELSE reservedVRAM[n]
    BY <1>1, CounterStep
  <1>3. CacheTypeOK'
    BY <1>1, <1>2 DEF RollbackAssumedSlice
  <1>4. HoldsExclusive' /\ HoldsShrink
    BY <1>1 DEF HoldsExclusive, HoldsShrink, Shrinks
  <1>5. ASSUME NEW n \in Node PROVE reservedVRAM'[n] <= Bytes[HeldOn(n)']
    <2>1. CASE assumedBySlice[s] = n
      <3>1. HeldOn(n)' = HeldOn(n) \ {s} /\ s \in HeldOn(n)
        BY <1>1, <2>1, NodeAssumption DEF HeldOn, HoldsExclusive
      <3>2. reservedVRAM'[n] = IF n \in nodes THEN Floor(reservedVRAM[n], Req[s])
                                              ELSE reservedVRAM[n]
        BY <1>2, <2>1
      <3>3. QED BY <3>1, <3>2, DroppedHold
    <2>2. CASE assumedBySlice[s] # n
      <3>1. HeldOn(n)' = HeldOn(n)
        BY <1>1, <2>2, NodeAssumption DEF HeldOn
      <3>2. QED BY <1>2, <2>2, <3>1 DEF ReservationsBacked
    <2>3. QED BY <2>1, <2>2
  <1>6. AbsentUncharged'
    BY <1>1, <1>2 DEF AbsentUncharged
  <1>7. QED BY <1>3, <1>4, <1>5, <1>6 DEF ReservationsBacked

(* ReleaseConfirmedSlice (FailSliceOnce, ForgetSlice). *)
LEMMA UnconfirmHolds ==
    ASSUME HoldsOK, NEW s \in Slice, ReleaseConfirmedSlice(s)
    PROVE  HoldsOK' /\ HoldsShrink
  <1> USE DEF HoldsOK, CacheTypeOK, Place
  <1>1. /\ confirmedBySlice' = [confirmedBySlice EXCEPT ![s] = NoNode]
        /\ UNCHANGED <<nodes, assumedBySlice>>
        /\ reservedVRAM' = Discharge(reservedVRAM, confirmedBySlice[s], s)
    BY DEF ReleaseConfirmedSlice
  <1>2. /\ reservedVRAM' \in [Node -> Nat]
        /\ \A n \in Node : reservedVRAM'[n] =
               IF n = confirmedBySlice[s] /\ confirmedBySlice[s] \in nodes
                 THEN Floor(reservedVRAM[n], Req[s]) ELSE reservedVRAM[n]
    BY <1>1, CounterStep
  <1>3. CacheTypeOK'
    BY <1>1, <1>2 DEF ReleaseConfirmedSlice
  <1>4. HoldsExclusive' /\ HoldsShrink
    BY <1>1 DEF HoldsExclusive, HoldsShrink, Shrinks
  <1>5. ASSUME NEW n \in Node PROVE reservedVRAM'[n] <= Bytes[HeldOn(n)']
    <2>1. CASE confirmedBySlice[s] = n
      <3>1. HeldOn(n)' = HeldOn(n) \ {s} /\ s \in HeldOn(n)
        BY <1>1, <2>1, NodeAssumption DEF HeldOn, HoldsExclusive
      <3>2. reservedVRAM'[n] = IF n \in nodes THEN Floor(reservedVRAM[n], Req[s])
                                              ELSE reservedVRAM[n]
        BY <1>2, <2>1
      <3>3. QED BY <3>1, <3>2, DroppedHold
    <2>2. CASE confirmedBySlice[s] # n
      <3>1. HeldOn(n)' = HeldOn(n)
        BY <1>1, <2>2, NodeAssumption DEF HeldOn
      <3>2. QED BY <1>2, <2>2, <3>1 DEF ReservationsBacked
    <2>3. QED BY <2>1, <2>2
  <1>6. AbsentUncharged'
    BY <1>1, <1>2 DEF AbsentUncharged
  <1>7. QED BY <1>3, <1>4, <1>5, <1>6 DEF ReservationsBacked

(* AssumeSlice takes a hold of a slice that has none. *)
LEMMA AssumeHolds ==
    ASSUME HoldsOK, NEW s \in Slice, NEW m \in Node, AssumeSlice(s, m)
    PROVE  /\ HoldsOK'
           /\ assumedBySlice' = [assumedBySlice EXCEPT ![s] = m]
           /\ UNCHANGED confirmedBySlice
  <1> USE DEF HoldsOK, CacheTypeOK, Place
  <1>1. /\ assumedBySlice' = [assumedBySlice EXCEPT ![s] = m]
        /\ UNCHANGED <<nodes, confirmedBySlice>>
        /\ reservedVRAM' = [reservedVRAM EXCEPT ![m] = @ + Req[s]]
        /\ assumedBySlice[s] = NoNode /\ confirmedBySlice[s] = NoNode
        /\ m \in nodes
        /\ Req[s] \in Nat
    BY SizeAssumption DEF AssumeSlice, CanAssume, CanFit
  <1>2. CacheTypeOK'
    BY <1>1 DEF AssumeSlice
  <1>3. HoldsExclusive'
    BY <1>1 DEF HoldsExclusive
  <1>4. ASSUME NEW n \in Node PROVE reservedVRAM'[n] <= Bytes[HeldOn(n)']
    <2>1. HeldOn(n) \in SUBSET Slice /\ reservedVRAM[n] \in Nat
          /\ reservedVRAM[n] <= Bytes[HeldOn(n)] /\ Bytes[HeldOn(n)] \in Nat
      BY BytesStep DEF HeldOn, ReservationsBacked
    <2>2. CASE n = m
      <3>1. HeldOn(n)' = HeldOn(n) \cup {s} /\ s \notin HeldOn(n)
        BY <1>1, <2>2, NodeAssumption DEF HeldOn
      <3>2. Bytes[HeldOn(n)'] = Bytes[HeldOn(n)] + Req[s]
        BY <2>1, <3>1, BytesStep
      <3>3. QED BY <1>1, <2>1, <2>2, <3>2
    <2>3. CASE n # m
      <3>1. HeldOn(n)' = HeldOn(n)
        BY <1>1, <2>3, NodeAssumption DEF HeldOn
      <3>2. QED BY <1>1, <2>1, <2>3, <3>1
    <2>4. QED BY <2>2, <2>3
  <1>5. AbsentUncharged'
    BY <1>1 DEF AbsentUncharged
  <1>6. QED BY <1>1, <1>2, <1>3, <1>4, <1>5 DEF ReservationsBacked

(* ConfirmSliceOrRearm of a slice that is not confirmed yet: the hold changes *)
(* its kind, or is taken anew when the reaper got it first.                   *)
LEMMA ConfirmHolds ==
    ASSUME HoldsOK, NEW s \in Slice, NEW m \in Node, ConfirmSliceOrRearm(s, m),
           confirmedBySlice[s] = NoNode, assumedBySlice[s] \in {m, NoNode}
    PROVE  /\ HoldsOK'
           /\ confirmedBySlice' = [confirmedBySlice EXCEPT ![s] = m]
           /\ Shrinks(assumedBySlice, assumedBySlice')
  <1> USE DEF HoldsOK, CacheTypeOK, Place
  <1>1. UNCHANGED nodes
    BY DEF ConfirmSliceOrRearm
  <1>2. CASE assumedBySlice[s] # NoNode
    <2>1. /\ confirmedBySlice' = [confirmedBySlice EXCEPT ![s] = m]
          /\ assumedBySlice' = [assumedBySlice EXCEPT ![s] = NoNode]
          /\ UNCHANGED reservedVRAM
      BY <1>2 DEF ConfirmSliceOrRearm
    <2>2. CacheTypeOK'
      BY <1>1, <2>1 DEF ConfirmSliceOrRearm
    <2>3. HoldsExclusive' /\ Shrinks(assumedBySlice, assumedBySlice')
      BY <2>1 DEF HoldsExclusive, Shrinks
    <2>4. \A n \in Node : HeldOn(n)' = HeldOn(n)
      BY <1>2, <2>1, NodeAssumption DEF HeldOn
    <2>5. ReservationsBacked' /\ AbsentUncharged'
      BY <1>1, <2>1, <2>4 DEF ReservationsBacked, AbsentUncharged
    <2>6. QED BY <2>1, <2>2, <2>3, <2>5
  <1>3. CASE assumedBySlice[s] = NoNode
    <2>1. /\ confirmedBySlice' = [confirmedBySlice EXCEPT ![s] = m]
          /\ UNCHANGED assumedBySlice
          /\ reservedVRAM' = Charge(reservedVRAM, m, s)
      BY <1>3 DEF ConfirmSliceOrRearm
    <2>2. /\ reservedVRAM' \in [Node -> Nat]
          /\ \A n \in Node : reservedVRAM'[n] = IF n = m /\ m \in nodes
                                  THEN reservedVRAM[n] + Req[s] ELSE reservedVRAM[n]
      BY <2>1, CounterStep
    <2>3. CacheTypeOK'
      BY <1>1, <2>1, <2>2 DEF ConfirmSliceOrRearm
    <2>4. HoldsExclusive' /\ Shrinks(assumedBySlice, assumedBySlice')
      BY <1>3, <2>1 DEF HoldsExclusive, Shrinks
    <2>5. ASSUME NEW n \in Node PROVE reservedVRAM'[n] <= Bytes[HeldOn(n)']
      <3>1. HeldOn(n) \in SUBSET Slice /\ reservedVRAM[n] \in Nat /\ Req[s] \in Nat
            /\ reservedVRAM[n] <= Bytes[HeldOn(n)] /\ Bytes[HeldOn(n)] \in Nat
        BY BytesStep DEF HeldOn, ReservationsBacked
      <3>2. CASE n = m
        <4>1. HeldOn(n)' = HeldOn(n) \cup {s} /\ s \notin HeldOn(n)
          BY <1>3, <2>1, <3>2, NodeAssumption DEF HeldOn
        <4>2. Bytes[HeldOn(n)'] = Bytes[HeldOn(n)] + Req[s]
          BY <3>1, <4>1, BytesStep
        <4>3. QED BY <2>2, <3>1, <3>2, <4>2
      <3>3. CASE n # m
        <4>1. HeldOn(n)' = HeldOn(n)
          BY <1>3, <2>1, <3>3, NodeAssumption DEF HeldOn
        <4>2. QED BY <2>2, <3>1, <3>3, <4>1
      <3>4. QED BY <3>2, <3>3
    <2>6. AbsentUncharged'
      BY <1>1, <2>2 DEF AbsentUncharged
    <2>7. QED BY <2>1, <2>3, <2>4, <2>5, <2>6 DEF ReservationsBacked
  <1>4. QED BY <1>2, <1>3

(* PromoteSliceToAllocatedOnce on the node that has the confirmed hold, if   *)
(* there is one: the hold it converts is given back where it was taken.      *)
LEMMA PromoteHolds ==
    ASSUME HoldsOK, NEW s \in Slice, NEW m \in Node,
           PromoteSliceToAllocatedOnce(s, m), confirmedBySlice[s] \in {m, NoNode}
    PROVE  HoldsOK' /\ HoldsShrink
  <1> USE DEF HoldsOK, CacheTypeOK, Place
  <1>1. CASE syncedPhaseBySlice[s] = "Ready"
    BY <1>1, KeepHolds DEF PromoteSliceToAllocatedOnce, cacheVars, HoldsUnchanged
  <1>2. CASE syncedPhaseBySlice[s] # "Ready"
    <2>1. /\ promoteConfirmedToAllocatedLocked(s, m)
          /\ syncedPhaseBySlice' \in [Slice -> Synced]
          /\ allocatedNodeBySlice' \in [Slice -> Place]
          /\ UNCHANGED <<nodes, healthy, assumedBySlice, seeded>>
      BY <1>2 DEF PromoteSliceToAllocatedOnce, Synced
    <2>2. CASE m \notin nodes \/ confirmedBySlice[s] = NoNode
      <3>1. HoldsUnchanged /\ allocatedVRAM' \in [Node -> Nat]
        BY <2>1, <2>2, SizeAssumption
           DEF promoteConfirmedToAllocatedLocked, HoldsUnchanged
      <3>2. QED BY <2>1, <3>1, KeepHolds DEF HoldsUnchanged
    <2>3. CASE m \in nodes /\ confirmedBySlice[s] = m
      <3>1. /\ confirmedBySlice' = [confirmedBySlice EXCEPT ![s] = NoNode]
            /\ reservedVRAM' = Discharge(reservedVRAM, m, s)
            /\ allocatedVRAM' = [allocatedVRAM EXCEPT ![m] = @ + Req[s]]
        BY <2>1, <2>3, NodeAssumption DEF promoteConfirmedToAllocatedLocked
      <3>2. /\ reservedVRAM' \in [Node -> Nat]
            /\ \A n \in Node : reservedVRAM'[n] =
                   IF n = m THEN Floor(reservedVRAM[n], Req[s]) ELSE reservedVRAM[n]
        BY <2>3, <3>1, CounterStep
      <3>3. CacheTypeOK'
        <4>1. Req[s] \in Nat
          BY SizeAssumption
        <4>2. allocatedVRAM' \in [Node -> Nat]
          BY <3>1, <4>1
        <4>3. QED BY <2>1, <3>1, <3>2, <4>2
      <3>4. HoldsExclusive' /\ HoldsShrink
        BY <2>1, <3>1 DEF HoldsExclusive, HoldsShrink, Shrinks
      <3>5. ASSUME NEW n \in Node PROVE reservedVRAM'[n] <= Bytes[HeldOn(n)']
        <4>1. CASE n = m
          <5>1. HeldOn(n)' = HeldOn(n) \ {s} /\ s \in HeldOn(n)
            BY <2>1, <2>3, <3>1, <4>1, NodeAssumption DEF HeldOn, HoldsExclusive
          <5>2. reservedVRAM'[n] = IF n \in nodes THEN Floor(reservedVRAM[n], Req[s])
                                                  ELSE reservedVRAM[n]
            BY <2>3, <3>2, <4>1
          <5>3. QED BY <5>1, <5>2, DroppedHold
        <4>2. CASE n # m
          <5>1. HeldOn(n)' = HeldOn(n)
            BY <2>1, <2>3, <3>1, <4>2, NodeAssumption DEF HeldOn
          <5>2. QED BY <3>2, <4>2, <5>1 DEF ReservationsBacked
        <4>3. QED BY <4>1, <4>2
      <3>6. AbsentUncharged'
        BY <2>1, <2>3, <3>2 DEF AbsentUncharged
      <3>7. QED BY <3>3, <3>4, <3>5, <3>6 DEF ReservationsBacked
    <2>4. QED BY <2>2, <2>3
  <1>3. QED BY <1>1, <1>2

(* RemoveNode drops the node's holds together with its counters. *)
LEMMA RemoveNodeHolds ==
    ASSUME HoldsOK, NEW m \in Node, RemoveNode(m)
    PROVE  HoldsOK' /\ HoldsShrink
  <1> USE DEF HoldsOK, CacheTypeOK, Place
  <1>1. CASE m \notin nodes
    BY <1>1, KeepHolds DEF RemoveNode, cacheVars, HoldsUnchanged
  <1>2. CASE m \in nodes
    <2>1. /\ nodes' = nodes \ {m}
          /\ reservedVRAM' = [reservedVRAM EXCEPT ![m] = 0]
          /\ assumedBySlice' = [s \in Slice |->
                 IF assumedBySlice[s] = m THEN NoNode ELSE assumedBySlice[s]]
          /\ confirmedBySlice' = [s \in Slice |->
                 IF confirmedBySlice[s] = m THEN NoNode ELSE confirmedBySlice[s]]
      BY <1>2 DEF RemoveNode, Without
    <2>2. CacheTypeOK'
      <3>1. /\ healthy' = healthy \ {m}
            /\ allocatedVRAM' = [allocatedVRAM EXCEPT ![m] = 0]
            /\ allocatedNodeBySlice' = Without(allocatedNodeBySlice, m)
            /\ syncedPhaseBySlice' = [s \in Slice |->
                   IF allocatedNodeBySlice[s] = m THEN "" ELSE syncedPhaseBySlice[s]]
            /\ UNCHANGED seeded
        BY <1>2 DEF RemoveNode
      <3>2. allocatedNodeBySlice' \in [Slice -> Place]
        BY <3>1 DEF Without
      <3>3. syncedPhaseBySlice' \in [Slice -> Synced]
        BY <3>1 DEF Synced
      <3>4. QED BY <2>1, <3>1, <3>2, <3>3
    <2>3. HoldsExclusive' /\ HoldsShrink
      BY <2>1 DEF HoldsExclusive, HoldsShrink, Shrinks
    <2>4. ASSUME NEW n \in Node PROVE reservedVRAM'[n] <= Bytes[HeldOn(n)']
      <3>1. CASE n = m
        <4>1. HeldOn(n)' \in SUBSET Slice
          BY DEF HeldOn
        <4>2. Bytes[HeldOn(n)'] \in Nat
          BY <4>1, BytesAssumption
        <4>3. QED BY <2>1, <3>1, <4>2
      <3>2. CASE n # m
        <4>1. HeldOn(n)' = HeldOn(n)
          BY <2>1, <3>2, NodeAssumption DEF HeldOn
        <4>2. QED BY <2>1, <3>2, <4>1 DEF ReservationsBacked
      <3>3. QED BY <3>1, <3>2
    <2>5. AbsentUncharged'
      BY <2>1 DEF AbsentUncharged
    <2>6. QED BY <2>2, <2>3, <2>4, <2>5 DEF ReservationsBacked
  <1>3. QED BY <1>1, <1>2

(* The critical sections of a release, a failure and a forgotten tombstone. *)
LEMMA ReleaseSections ==
    ASSUME HoldsOK, NEW s \in Slice, NEW n \in Place,
           \/ ReleaseSliceOnce(s) \/ FailSliceOnce(s)
           \/ DropTombstone(s) \/ ReleaseAllocated(n, s)
    PROVE  HoldsOK' /\ HoldsShrink
  <1> USE DEF HoldsOK, CacheTypeOK, Place
  <1>1. CASE ReleaseSliceOnce(s)
    BY <1>1, KeepHolds DEF ReleaseSliceOnce, HoldsUnchanged, cacheVars, Synced
  <1>2. CASE FailSliceOnce(s)
    BY <1>2, KeepHolds DEF FailSliceOnce, HoldsUnchanged, cacheVars, Synced
  <1>3. CASE DropTombstone(s)
    BY <1>3, KeepHolds DEF DropTombstone, HoldsUnchanged, Synced
  <1>4. CASE ReleaseAllocated(n, s)
    <2>1. allocatedVRAM' \in [Node -> Nat]
      BY <1>4, CounterStep DEF ReleaseAllocated
    <2>2. QED BY <1>4, <2>1, KeepHolds DEF ReleaseAllocated, HoldsUnchanged
  <1>5. QED BY <1>1, <1>2, <1>3, <1>4

(* The critical sections that register a node, set its health or open the *)
(* warm-up gate.                                                          *)
LEMMA NodeSections ==
    ASSUME HoldsOK, NEW n \in Node, NEW ok,
           UpdateNode(n) \/ SetNodeHealth(n, ok) \/ MarkSeeded
    PROVE  HoldsOK' /\ HoldsShrink
  <1> USE DEF HoldsOK, CacheTypeOK, Place
  <1>1. CASE UpdateNode(n)
    BY <1>1, KeepHolds DEF UpdateNode, HoldsUnchanged
  <1>2. CASE SetNodeHealth(n, ok)
    BY <1>2, KeepHolds DEF SetNodeHealth, HoldsUnchanged
  <1>3. CASE MarkSeeded
    <2>1. seeded' \in BOOLEAN
      BY <1>3 DEF MarkSeeded
    <2>2. QED BY <1>3, <2>1, KeepHolds DEF MarkSeeded, HoldsUnchanged
  <1>4. QED BY <1>1, <1>2, <1>3

-----------------------------------------------------------------------------
(* The steps of the process and of its environment.                        *)

(* Everything in TypeOK that is not the cache. *)
ProcessTypeOK ==
    /\ phase \in [Slice -> Phases]
    /\ nodeName \in [Slice -> Place]
    /\ apiNodes \in SUBSET Node
    /\ readyNodes \in SUBSET Node
    /\ deletedEvt \in SUBSET Node
    /\ seen \in [Slice -> [phase : Phases, node : Place]]
    /\ tracked \in [Name -> [uid : Slice \cup {NoSlice}, node : Place]]
    /\ calls \in [Caller -> Seq(Call)]
    /\ cycle \in {Idle} \cup [step : {"schedule"}, s : Slice, n : {NoNode}]
                       \cup [step : Placed, s : Slice, n : Node]
    /\ nodeStep \in {NodeIdle} \cup
           [step : {"update", "updateNew", "list", "walk", "health"}, n : Node]
    /\ spc \in {"nodes", "register", "slices", "walk", "done"}
    /\ seedNodes \in SUBSET Node
    /\ walk \in [Walker -> SUBSET (Slice \X Node)]
    /\ jpc \in {"idle", "list", "sweep"}
    /\ jset \in SUBSET (Slice \X Node)

LEMMA TypeSplit == TypeOK <=> CacheTypeOK /\ ProcessTypeOK
  BY DEF TypeOK, ProcessTypeOK

(* A step in which holds only go away, objects are neither bound nor come    *)
(* back, and the cycle stays or ends, keeps what the cycle relies on.        *)
LEMMA StepFrame ==
    ASSUME HoldInv, ProcessTypeOK', HoldsOK', HoldsShrink, UNCHANGED nodeName,
           \A s \in Slice : /\ phase[s] = "Gone" => phase'[s] = "Gone"
                            /\ phase[s] # "Absent" => phase'[s] # "Absent",
           cycle' \in {cycle, Idle}, ObjectsSane', PromotionsWhereBound'
    PROVE  HoldInv'
  <1>1. TypeOK' /\ TypeOK
    BY DEF TypeOK, ProcessTypeOK, HoldsOK, HoldInv
  <1>2. ConfirmedWhereBound'
    BY DEF HoldInv, ConfirmedWhereBound, HoldsShrink, Shrinks
  <1>3. CycleOwnsBind'
    <2>1. CASE cycle' = Idle
      BY <2>1 DEF CycleOwnsBind
    <2>2. CASE cycle' = cycle /\ cycle # Idle
      <3>1. cycle.s \in Slice
        BY <1>1, <2>2 DEF TypeOK
      <3>2. CycleOwnsBind /\ ObjectsSane
        BY DEF HoldInv
      <3>3. \A t \in Slice : Live(t)' => Live(t) \/ nodeName[t] = NoNode
        BY <3>2 DEF ObjectsSane, Live
      <3>4. (\A t \in Named(NameOf[cycle.s]) : nodeName[t] = NoNode)
                => \A t \in Named(NameOf[cycle.s])' : nodeName'[t] = NoNode
        BY <2>2, <3>3 DEF Named
      <3>5. QED BY <2>2, <3>1, <3>2, <3>4 DEF CycleOwnsBind, HoldsShrink, Shrinks
    <2>3. QED BY <2>1, <2>2
  <1>4. QED BY <1>1, <1>2, <1>3 DEF HoldInv, HoldsOK

LEMMA SameObjects ==
    ASSUME ObjectsSane, UNCHANGED <<phase, nodeName>> PROVE ObjectsSane'
  BY DEF ObjectsSane, Live

LEMMA SamePromotions ==
    ASSUME PromotionsWhereBound, UNCHANGED <<nodeName, calls>>,
           \A w \in Walker : walk'[w] \subseteq walk[w]
    PROVE  PromotionsWhereBound'
  <1>1. BoundCall' = BoundCall
    BY DEF BoundCall
  <1>2. QED BY <1>1 DEF PromotionsWhereBound

(* The sequences of calls the goroutines build. *)
LEMMA CallSequences ==
    ASSUME NEW S, NEW q \in Seq(S), NEW r \in Seq(S)
    PROVE  /\ <<>> \in Seq(S)
           /\ q \o r \in Seq(S)
           /\ q # <<>> => Head(q) \in S /\ Tail(q) \in Seq(S)
           /\ \A x \in S : <<x>> \in Seq(S)
  <1>1. <<>> \in Seq(S) /\ \A x \in S : <<x>> \in Seq(S)
    OBVIOUS
  <1>2. q \o r \in Seq(S)
    OBVIOUS
  <1>3. q # <<>> => Head(q) \in S /\ Tail(q) \in Seq(S)
    OBVIOUS
  <1>4. QED BY <1>1, <1>2, <1>3

LEMMA PlainCalls ==
    ASSUME NEW op \in Ops \ {"promote"}, NEW s \in Slice, NEW n \in Place
    PROVE  call(op, s, n) \in BoundCall
  BY DEF call, BoundCall, Call

(* None of the calls of ForgetSlice is a promotion. *)
LEMMA ForgetCalls ==
    ASSUME NEW s \in Slice, NEW n \in Place
    PROVE  ForgetSlice(s, n) \in Seq(BoundCall)
  <1>1. NoNode \in Place /\ {"rollback", "unconfirm", "release", "untomb"}
            \subseteq Ops \ {"promote"}
    BY DEF Place, Ops
  <1>2. /\ call("rollback", s, NoNode) \in BoundCall
        /\ call("unconfirm", s, NoNode) \in BoundCall
        /\ call("release", s, n) \in BoundCall
        /\ call("untomb", s, NoNode) \in BoundCall
    BY <1>1, PlainCalls
  <1>3. /\ <<call("rollback", s, NoNode), call("unconfirm", s, NoNode)>> \in Seq(BoundCall)
        /\ <<call("release", s, n)>> \in Seq(BoundCall)
        /\ <<call("untomb", s, NoNode)>> \in Seq(BoundCall)
        /\ <<>> \in Seq(BoundCall)
    BY <1>2
  <1>4. QED BY <1>3, CallSequences DEF ForgetSlice

(* The calls a section leaves for after its unlock. *)
LEMMA ContinuationCalls ==
    ASSUME NEW c \in Call
    PROVE  Continuation(c) \in Seq(BoundCall)
  <1>1. /\ NoNode \in Place /\ c.s \in Slice /\ c.n \in Place
        /\ {"unallocate", "unconfirm"} \subseteq Ops \ {"promote"}
    BY DEF Place, Ops, Call
  <1>2. /\ call("unallocate", c.s, c.n) \in BoundCall
        /\ call("unconfirm", c.s, NoNode) \in BoundCall
    BY <1>1, PlainCalls
  <1>3. /\ <<call("unallocate", c.s, c.n)>> \in Seq(BoundCall)
        /\ <<call("unconfirm", c.s, NoNode)>> \in Seq(BoundCall)
        /\ <<>> \in Seq(BoundCall)
    BY <1>2
  <1>4. QED BY <1>3, CallSequences DEF Continuation

(* Of the calls of SyncCacheFromSlice the promotion is on the node read. *)
LEMMA SyncCalls ==
    ASSUME NEW s \in Slice, nodeName[s] \in Place
    PROVE  SyncCacheFromSlice(s, nodeName[s], phase[s]) \in Seq(BoundCall)
  <1>1. /\ NoNode \in Place
        /\ {"release", "fail"} \subseteq Ops \ {"promote"}
    BY DEF Place, Ops
  <1>2. /\ call("release", s, nodeName[s]) \in BoundCall
        /\ call("fail", s, nodeName[s]) \in BoundCall
    BY <1>1, PlainCalls
  <1>3. nodeName[s] # NoNode => call("promote", s, nodeName[s]) \in BoundCall
    BY DEF call, BoundCall, Call, Ops, Place
  <1>4. /\ <<call("release", s, nodeName[s])>> \in Seq(BoundCall)
        /\ <<call("fail", s, nodeName[s])>> \in Seq(BoundCall)
        /\ <<>> \in Seq(BoundCall)
        /\ nodeName[s] # NoNode => <<call("promote", s, nodeName[s])>> \in Seq(BoundCall)
    BY <1>2, <1>3
  <1>5. QED BY <1>4 DEF SyncCacheFromSlice

(* Replacing the calls of one goroutine by harmless ones. *)
LEMMA NewCalls ==
    ASSUME HoldInv, UNCHANGED <<nodeName, walk>>, NEW g \in Caller,
           NEW q \in Seq(BoundCall), calls' = [calls EXCEPT ![g] = q]
    PROVE  PromotionsWhereBound' /\ calls' \in [Caller -> Seq(Call)]
  <1>1. BoundCall' = BoundCall /\ BoundCall \subseteq Call
    BY DEF BoundCall
  <1>2. PromotionsWhereBound /\ calls \in [Caller -> Seq(Call)]
    BY DEF HoldInv, TypeOK
  <1>3. q \in Seq(Call)
    BY <1>1
  <1>4. calls' \in [Caller -> Seq(Call)]
    BY <1>2, <1>3
  <1>5. \A h \in Caller : calls'[h] \in Seq(BoundCall)
    BY <1>2 DEF PromotionsWhereBound
  <1>6. QED BY <1>1, <1>2, <1>4, <1>5 DEF PromotionsWhereBound

(* The cache part of HoldInv. *)
LEMMA HoldsOfInv ==
    ASSUME HoldInv PROVE HoldsOK /\ ProcessTypeOK /\ ObjectsSane /\ PromotionsWhereBound
  BY DEF HoldInv, HoldsOK, TypeOK, ProcessTypeOK

LEMMA SameCache ==
    ASSUME HoldInv, UNCHANGED cacheVars PROVE HoldsOK' /\ HoldsShrink
  <1>1. HoldsOK /\ CacheTypeOK' /\ HoldsUnchanged /\ nodes \subseteq nodes'
    BY HoldsOfInv DEF HoldsOK, CacheTypeOK, cacheVars, HoldsUnchanged
  <1>2. QED BY <1>1, KeepHolds

(* A promotion on the node its slice is bound to. *)
LEMMA BoundPromotion ==
    ASSUME HoldInv, NEW s \in Slice, NEW n \in Node, nodeName[s] = n,
           PromoteSliceToAllocatedOnce(s, n)
    PROVE  HoldsOK' /\ HoldsShrink
  <1>1. confirmedBySlice[s] \in {n, NoNode}
    BY NodeAssumption DEF HoldInv, ConfirmedWhereBound
  <1>2. QED BY <1>1, HoldsOfInv, PromoteHolds

(* One cache call of a goroutine. *)
LEMMA CacheCallStep ==
    ASSUME HoldInv, NEW g \in Caller, CacheCall(g)
    PROVE  HoldInv'
  <1> DEFINE c == Head(calls[g])
  <1>1. /\ calls[g] \in Seq(BoundCall) /\ calls[g] # <<>>
        /\ calls \in [Caller -> Seq(Call)]
    BY HoldsOfInv DEF PromotionsWhereBound, CacheCall, ProcessTypeOK
  <1>2. c \in BoundCall /\ Tail(calls[g]) \in Seq(BoundCall)
    BY <1>1, CallSequences
  <1>3. c \in Call /\ c.s \in Slice /\ c.n \in Place
    BY <1>2 DEF BoundCall, Call
  <1>4. HoldsOK' /\ HoldsShrink
    <2>1. \/ RollbackAssumedSlice(c.s)
          \/ ReleaseConfirmedSlice(c.s)
          \/ ReleaseSliceOnce(c.s)
          \/ FailSliceOnce(c.s)
          \/ ReleaseAllocated(c.n, c.s)
          \/ DropTombstone(c.s)
          \/ c.op = "promote" /\ PromoteSliceToAllocatedOnce(c.s, c.n)
      BY DEF CacheCall
    <2>2. c.op = "promote" => c.n \in Node /\ nodeName[c.s] = c.n
      BY <1>2 DEF BoundCall
    <2>3. HoldsOK
      BY HoldsOfInv
    <2>4. CASE c.op = "promote" /\ PromoteSliceToAllocatedOnce(c.s, c.n)
      BY <1>3, <2>2, <2>4, BoundPromotion
    <2>5. QED BY <1>3, <2>1, <2>3, <2>4, RollbackHolds, UnconfirmHolds, ReleaseSections
  <1>5. calls' = [calls EXCEPT ![g] = Continuation(c) \o Tail(calls[g])]
    BY <1>1 DEF CacheCall
  <1>6. Continuation(c) \o Tail(calls[g]) \in Seq(BoundCall)
    BY <1>2, <1>3, ContinuationCalls, CallSequences
  <1>7. UNCHANGED <<phase, nodeName, apiNodes, readyNodes, deletedEvt, tracked, cycle,
                    nodeStep, spc, seedNodes, jpc, jset, walk, seen>>
    BY DEF CacheCall, apiVars, sliceVars, seedVars, janVars
  <1>8. PromotionsWhereBound' /\ calls' \in [Caller -> Seq(Call)]
    BY <1>5, <1>6, <1>7, NewCalls
  <1>9. ProcessTypeOK'
    BY <1>7, <1>8, HoldsOfInv DEF ProcessTypeOK
  <1>10. QED BY <1>4, <1>7, <1>8, <1>9, HoldsOfInv, SameObjects, StepFrame

(* A step that leaves the cache, the objects and the cycle alone. *)
LEMMA QuietStep ==
    ASSUME HoldInv, ProcessTypeOK', HoldsOK', HoldsShrink,
           UNCHANGED <<phase, nodeName, cycle, calls>>,
           \A w \in Walker : walk'[w] \subseteq walk[w]
    PROVE  HoldInv'
  BY HoldsOfInv, SameObjects, SamePromotions, StepFrame

(* The informer keeps up: a read returns the object as it is. *)
NoLag == "staleRead" \notin Faults

LEMMA CurrentView ==
    ASSUME NoLag, NEW s \in Slice
    PROVE  /\ View(s).phase = phase[s] /\ View(s).node = nodeName[s]
           /\ SeenLive(s) <=> Live(s)
  BY DEF NoLag, View, Object, SeenLive, Live

(* The events of a slice that is gone, or replaced, or there. *)
LEMMA ReconcileStep ==
    ASSUME HoldInv, NoLag,
           \/ \E nm \in Name : ReconcileGone(nm)
           \/ \E s \in Slice : ReconcileSlice(s)
    PROVE  HoldInv'
  <1>1. HoldsOK' /\ HoldsShrink
    BY SameCache DEF ReconcileGone, ReconcileSlice
  <1>2. UNCHANGED <<phase, nodeName, apiNodes, readyNodes, deletedEvt, nodeStep,
                    spc, seedNodes, jpc, jset, walk, seen>>
    BY DEF ReconcileGone, ReconcileSlice, apiVars, seedVars, janVars
  <1>3. CASE \E nm \in Name : ReconcileGone(nm)
    <2>1. PICK nm \in Name : ReconcileGone(nm)
      BY <1>3
    <2>2. /\ UNCHANGED cycle
          /\ tracked' = [tracked EXCEPT ![nm] = NotTracked]
          /\ calls' = [calls EXCEPT !["reconciler"] =
                          ForgetSlice(tracked[nm].uid, tracked[nm].node)]
          /\ tracked[nm].uid # NoSlice
      BY <2>1 DEF ReconcileGone
    <2>3. tracked[nm].uid \in Slice /\ tracked[nm].node \in Place
      BY <2>2, HoldsOfInv DEF ProcessTypeOK
    <2>4. PromotionsWhereBound' /\ calls' \in [Caller -> Seq(Call)]
      BY <1>2, <2>2, <2>3, ForgetCalls, NewCalls DEF Caller
    <2>5. tracked' \in [Name -> [uid : Slice \cup {NoSlice}, node : Place]]
      BY <2>2, HoldsOfInv DEF ProcessTypeOK, NotTracked, Place
    <2>6. ProcessTypeOK'
      BY <1>2, <2>2, <2>4, <2>5, HoldsOfInv DEF ProcessTypeOK
    <2>7. QED BY <1>1, <1>2, <2>2, <2>4, <2>6, HoldsOfInv, SameObjects, StepFrame
  <1>4. CASE \E s \in Slice : ReconcileSlice(s)
    <2>1. PICK s \in Slice : ReconcileSlice(s)
      BY <1>4
    <2> DEFINE old == tracked[NameOf[s]]
               forget == IF Replaced(s) THEN ForgetSlice(old.uid, old.node) ELSE <<>>
               sync == SyncCacheFromSlice(s, nodeName[s], phase[s])
    <2>2. /\ Live(s) /\ cycle = Idle
          /\ tracked' = [tracked EXCEPT ![NameOf[s]] = [uid |-> s, node |-> nodeName[s]]]
          /\ calls' = [calls EXCEPT !["reconciler"] = forget \o sync]
          /\ cycle' = IF phase[s] = "Pending" /\ nodeName[s] = NoNode
                        THEN [step |-> "schedule", s |-> s, n |-> NoNode] ELSE Idle
      <3>1. cycle.step = "idle"
        BY <2>1 DEF ReconcileSlice, Reconciling
      <3>2. cycle = Idle
        BY <3>1, HoldsOfInv DEF ProcessTypeOK, Placed
      <3>3. QED BY <2>1, <3>2, CurrentView DEF ReconcileSlice
    <2>3. /\ NameOf[s] \in Name /\ old.uid \in Slice \cup {NoSlice} /\ old.node \in Place
          /\ nodeName[s] \in Place
      BY HoldsOfInv, SchedulerAssumption DEF ProcessTypeOK
    <2>4. forget \o sync \in Seq(BoundCall)
      <3>1. forget \in Seq(BoundCall)
        BY <2>3, ForgetCalls DEF Replaced
      <3>2. sync \in Seq(BoundCall)
        BY <2>3, SyncCalls
      <3>3. QED BY <3>1, <3>2, CallSequences
    <2>5. PromotionsWhereBound' /\ calls' \in [Caller -> Seq(Call)]
      BY <1>2, <2>2, <2>4, NewCalls DEF Caller
    <2>6. ProcessTypeOK'
      <3>1. tracked' \in [Name -> [uid : Slice \cup {NoSlice}, node : Place]]
        BY <2>2, <2>3, HoldsOfInv DEF ProcessTypeOK
      <3>2. cycle' \in {Idle} \cup [step : {"schedule"}, s : Slice, n : {NoNode}]
                       \cup [step : Placed, s : Slice, n : Node]
        BY <2>2
      <3>3. QED BY <1>2, <2>5, <3>1, <3>2, HoldsOfInv DEF ProcessTypeOK
    <2>7. CASE cycle' = Idle
      BY <1>1, <1>2, <2>5, <2>6, <2>7, HoldsOfInv, SameObjects, StepFrame
    <2>8. CASE cycle' = [step |-> "schedule", s |-> s, n |-> NoNode] /\ cycle' # Idle
      <3>1. nodeName[s] = NoNode
        BY <2>2, <2>8
      <3>2. \A t \in Named(NameOf[s]) : t = s
        BY <2>2, HoldsOfInv DEF Named, ObjectsSane
      <3>3. CycleOwnsBind'
        BY <1>2, <2>2, <2>8, <3>1, <3>2 DEF CycleOwnsBind, Named, Live
      <3>4. ConfirmedWhereBound'
        BY <1>1, <1>2 DEF HoldInv, ConfirmedWhereBound, HoldsShrink, Shrinks
      <3>5. ObjectsSane' /\ TypeOK'
        BY <1>1, <1>2, <2>6, HoldsOfInv, SameObjects DEF TypeOK, ProcessTypeOK, HoldsOK
      <3>6. QED BY <1>1, <2>5, <3>3, <3>4, <3>5 DEF HoldInv, HoldsOK
    <2>9. QED BY <2>2, <2>7, <2>8
  <1>5. QED BY <1>3, <1>4

-----------------------------------------------------------------------------
(* The scheduling cycle.                                                   *)

CycleType == {Idle} \cup [step : {"schedule"}, s : Slice, n : {NoNode}]
                    \cup [step : Placed, s : Slice, n : Node]

LEMMA CycleTyped ==
    ASSUME ProcessTypeOK
    PROVE  /\ cycle.step = "schedule" => cycle.s \in Slice /\ cycle # Idle
           /\ cycle.step \in Placed => cycle.s \in Slice /\ cycle.n \in Node /\ cycle # Idle
           /\ \A x \in Placed : cycle.step \in Placed =>
                 /\ [cycle EXCEPT !.step = x] \in CycleType
                 /\ [cycle EXCEPT !.step = x].step = x
                 /\ [cycle EXCEPT !.step = x].s = cycle.s
                 /\ [cycle EXCEPT !.step = x].n = cycle.n
  <1>1. cycle \in CycleType
    BY DEF ProcessTypeOK, CycleType
  <1>2. cycle.step = "schedule" => cycle.s \in Slice /\ cycle # Idle
    BY <1>1 DEF CycleType, Idle, Placed
  <1>3. cycle.step \in Placed => /\ cycle \in [step : Placed, s : Slice, n : Node]
                                 /\ cycle # Idle
    BY <1>1 DEF CycleType, Idle, Placed
  <1>4. QED BY <1>2, <1>3 DEF CycleType

LEMMA CycleShape ==
    ASSUME HoldInv
    PROVE  /\ cycle.step = "schedule" => cycle.s \in Slice /\ cycle # Idle
           /\ cycle.step \in Placed => cycle.s \in Slice /\ cycle.n \in Node /\ cycle # Idle
           /\ \A x \in Placed : cycle.step \in Placed =>
                 /\ [cycle EXCEPT !.step = x] \in CycleType
                 /\ [cycle EXCEPT !.step = x].step = x
                 /\ [cycle EXCEPT !.step = x].s = cycle.s
                 /\ [cycle EXCEPT !.step = x].n = cycle.n
  BY HoldsOfInv, CycleTyped

(* What is left to show of a step of the cycle. *)
LEMMA CycleFrame ==
    ASSUME HoldInv, HoldsOK', cycle' \in CycleType, calls' \in [Caller -> Seq(Call)],
           phase' \in [Slice -> Phases], nodeName' \in [Slice -> Place],
           UNCHANGED <<apiNodes, readyNodes, deletedEvt, tracked, nodeStep,
                       spc, seedNodes, jpc, jset, walk, seen>>,
           ObjectsSane', ConfirmedWhereBound', PromotionsWhereBound', CycleOwnsBind'
    PROVE  HoldInv'
  <1>1. ProcessTypeOK'
    BY HoldsOfInv DEF ProcessTypeOK, CycleType
  <1>2. TypeOK'
    BY <1>1 DEF TypeOK, ProcessTypeOK, HoldsOK
  <1>3. QED BY <1>2 DEF HoldInv, HoldsOK

(* A cycle that ends, with or without a rollback, and changes nothing else. *)
LEMMA CycleEnds ==
    ASSUME HoldInv, UNCHANGED <<cacheVars, phase, nodeName, apiNodes, readyNodes,
                       deletedEvt, tracked, nodeStep, spc, seedNodes, jpc, jset, walk, seen>>,
           \/ cycle' = Idle /\ UNCHANGED calls
           \/ AbandonCycle /\ cycle.s \in Slice
    PROVE  HoldInv'
  <1>1. HoldsOK' /\ HoldsShrink /\ cycle' = Idle
    BY SameCache DEF AbandonCycle
  <1>2. CASE UNCHANGED calls
    <2>1. ProcessTypeOK'
      BY <1>1, <1>2, HoldsOfInv DEF ProcessTypeOK
    <2>2. QED BY <1>1, <1>2, <2>1, HoldsOfInv, SameObjects, SamePromotions, StepFrame
  <1>3. CASE AbandonCycle /\ cycle.s \in Slice
    <2>1. call("rollback", cycle.s, NoNode) \in BoundCall
      BY <1>3, PlainCalls DEF Ops, Place
    <2>2. <<call("rollback", cycle.s, NoNode)>> \in Seq(BoundCall)
      BY <2>1
    <2>3. PromotionsWhereBound' /\ calls' \in [Caller -> Seq(Call)]
      BY <1>3, <2>2, NewCalls DEF AbandonCycle, Caller
    <2>4. ProcessTypeOK'
      BY <1>1, <2>3, HoldsOfInv DEF ProcessTypeOK
    <2>5. QED BY <1>1, <2>3, <2>4, HoldsOfInv, SameObjects, StepFrame
  <1>4. QED BY <1>2, <1>3

(* The frame of a step that moves the cycle and nothing else. *)
LEMMA CycleMoves ==
    ASSUME HoldInv, UNCHANGED <<cacheVars, phase, nodeName, apiNodes, readyNodes, calls,
                       deletedEvt, tracked, nodeStep, spc, seedNodes, jpc, jset, walk, seen>>,
           cycle' \in CycleType, CycleOwnsBind'
    PROVE  HoldInv'
  <1>1. HoldsOK' /\ HoldsShrink
    BY SameCache
  <1>2. ObjectsSane' /\ PromotionsWhereBound'
    BY HoldsOfInv, SameObjects, SamePromotions
  <1>3. ConfirmedWhereBound'
    BY DEF HoldInv, ConfirmedWhereBound, cacheVars
  <1>4. calls' \in [Caller -> Seq(Call)] /\ phase' \in [Slice -> Phases]
        /\ nodeName' \in [Slice -> Place]
    BY HoldsOfInv DEF ProcessTypeOK
  <1>5. QED BY <1>1, <1>2, <1>3, <1>4, CycleFrame

LEMMA ScheduleStartStep ==
    ASSUME HoldInv, ScheduleStart PROVE HoldInv'
  <1>1. UNCHANGED <<cacheVars, phase, nodeName, apiNodes, readyNodes, calls,
                    deletedEvt, tracked, nodeStep, spc, seedNodes, jpc, jset, walk, seen>>
    BY DEF ScheduleStart, apiVars, seedVars, janVars
  <1>2. UNCHANGED <<assumedBySlice, confirmedBySlice>>
    BY <1>1 DEF cacheVars
  <1>3. /\ cycle.step = "schedule" /\ cycle.s \in Slice /\ cycle # Idle
        /\ CycleOwnsBind /\ HoldsExclusive
    BY CycleShape DEF ScheduleStart, Reconciling, HoldInv
  <1>4. CASE cycle' = Idle
    BY <1>1, <1>4, CycleEnds
  <1>5. CASE /\ assumedBySlice[cycle.s] # NoNode
             /\ cycle' = [step |-> "gate", s |-> cycle.s, n |-> assumedBySlice[cycle.s]]
    <2>1. assumedBySlice[cycle.s] \in Node
      BY <1>3, <1>5, HoldsOfInv DEF HoldsOK, CacheTypeOK, Place
    <2>2. cycle' \in CycleType
      BY <1>3, <1>5, <2>1 DEF CycleType, Placed
    <2>3. CycleOwnsBind'
      BY <1>1, <1>2, <1>3, <1>5 DEF CycleOwnsBind, HoldsExclusive, Named, Live
    <2>4. QED BY <1>1, <2>2, <2>3, CycleMoves
  <1>6. CASE \E n \in nodes : cycle' = [step |-> "reserve", s |-> cycle.s, n |-> n]
    <2>1. PICK n \in nodes : cycle' = [step |-> "reserve", s |-> cycle.s, n |-> n]
      BY <1>6
    <2>2. n \in Node
      BY HoldsOfInv DEF HoldsOK, CacheTypeOK
    <2>3. cycle' \in CycleType
      BY <1>3, <2>1, <2>2 DEF CycleType, Placed
    <2>4. CycleOwnsBind'
      BY <1>1, <1>2, <1>3, <2>1 DEF CycleOwnsBind, Named, Live
    <2>5. QED BY <1>1, <2>3, <2>4, CycleMoves
  <1>7. QED BY <1>4, <1>5, <1>6 DEF ScheduleStart

LEMMA FailOrphanStep ==
    ASSUME HoldInv, FailOrphan PROVE HoldInv'
  <1>1. /\ UNCHANGED <<nodeName, apiNodes, readyNodes, seen, calls, deletedEvt, tracked,
                       nodeStep, spc, seedNodes, jpc, jset, walk>>
        /\ cycle.s \in Slice /\ phase[cycle.s] = "Pending" /\ cycle' = Idle
        /\ phase' = [phase EXCEPT ![cycle.s] = "Failed"]
    BY CycleShape DEF FailOrphan, Reconciling, seedVars, janVars
  <1>2. HoldsOK' /\ HoldsShrink
    BY SameCache DEF FailOrphan
  <1>3. phase \in [Slice -> Phases]
    BY HoldsOfInv DEF ProcessTypeOK
  <1>4. /\ \A s \in Slice : Live(s)' <=> Live(s)
        /\ \A s \in Slice : /\ phase[s] = "Gone" => phase'[s] = "Gone"
                            /\ phase[s] # "Absent" => phase'[s] # "Absent"
                            /\ phase'[s] = "Absent" => phase[s] = "Absent"
    BY <1>1, <1>3 DEF Live
  <1>5. ObjectsSane' /\ PromotionsWhereBound'
    BY <1>1, <1>4, HoldsOfInv, SamePromotions DEF ObjectsSane
  <1>6. ProcessTypeOK'
    BY <1>1, <1>3, HoldsOfInv DEF ProcessTypeOK, Phases
  <1>7. QED BY <1>1, <1>2, <1>4, <1>5, <1>6, StepFrame

LEMMA ReserveStep ==
    ASSUME HoldInv, Reserve PROVE HoldInv'
  <1>1. UNCHANGED <<phase, nodeName, apiNodes, readyNodes, calls,
                    deletedEvt, tracked, nodeStep, spc, seedNodes, jpc, jset, walk, seen>>
    BY DEF Reserve, apiVars, seedVars, janVars
  <1>2. /\ cycle.step = "reserve" /\ cycle.s \in Slice /\ cycle.n \in Node /\ cycle # Idle
        /\ CycleOwnsBind
    BY CycleShape DEF Reserve, Reconciling, HoldInv, Placed
  <1>3. CASE AssumeSlice(cycle.s, cycle.n) /\ Advance("gate")
    <2>1. /\ HoldsOK'
          /\ assumedBySlice' = [assumedBySlice EXCEPT ![cycle.s] = cycle.n]
          /\ UNCHANGED confirmedBySlice
      BY <1>2, <1>3, HoldsOfInv, AssumeHolds
    <2>2. /\ cycle' \in CycleType /\ cycle'.step = "gate"
          /\ cycle'.s = cycle.s /\ cycle'.n = cycle.n
      BY <1>2, <1>3, CycleShape DEF Advance, Placed
    <2>3. confirmedBySlice[cycle.s] = NoNode /\ assumedBySlice'[cycle.s] = cycle.n
      BY <1>2, <1>3, <2>1, HoldsOfInv
         DEF AssumeSlice, CanAssume, HoldsOK, CacheTypeOK
    <2>4. CycleOwnsBind'
      BY <1>1, <1>2, <2>1, <2>2, <2>3 DEF CycleOwnsBind, Named, Live
    <2>5. ObjectsSane' /\ PromotionsWhereBound'
      BY <1>1, HoldsOfInv, SameObjects, SamePromotions
    <2>6. ConfirmedWhereBound'
      BY <1>1, <2>1 DEF HoldInv, ConfirmedWhereBound
    <2>7. calls' \in [Caller -> Seq(Call)] /\ phase' \in [Slice -> Phases]
          /\ nodeName' \in [Slice -> Place]
      BY <1>1, HoldsOfInv DEF ProcessTypeOK
    <2>8. QED BY <1>1, <2>1, <2>2, <2>4, <2>5, <2>6, <2>7, CycleFrame
  <1>4. CASE cycle' = Idle /\ UNCHANGED cacheVars
    BY <1>1, <1>4, CycleEnds
  <1>5. QED BY <1>3, <1>4 DEF Reserve

LEMMA GateStep ==
    ASSUME HoldInv, Gate \/ Pin PROVE HoldInv'
  <1>1. UNCHANGED <<cacheVars, phase, nodeName, apiNodes, readyNodes,
                    deletedEvt, tracked, nodeStep, spc, seedNodes, jpc, jset, walk, seen>>
    BY DEF Gate, Pin, apiVars, seedVars, janVars
  <1>2. /\ cycle.step \in {"gate", "pin"} /\ cycle.step \in Placed
        /\ cycle.s \in Slice /\ cycle.n \in Node
        /\ cycle # Idle /\ CycleOwnsBind
    BY CycleShape DEF Gate, Pin, Reconciling, HoldInv, Placed
  <1>3. CASE \/ cycle' = Idle /\ UNCHANGED calls
             \/ AbandonCycle
    BY <1>1, <1>2, <1>3, CycleEnds
  <1>4. CASE (Advance("pin") \/ Advance("bindSpec")) /\ UNCHANGED calls
    <2>1. /\ cycle' \in CycleType /\ cycle'.step \in {"pin", "bindSpec"}
          /\ cycle'.s = cycle.s /\ cycle'.n = cycle.n
      BY <1>2, <1>4, CycleShape DEF Advance, Placed
    <2>2. CycleOwnsBind'
      BY <1>1, <1>2, <2>1 DEF CycleOwnsBind, Named, Live, cacheVars
    <2>3. QED BY <1>1, <1>4, <2>1, <2>2, CycleMoves
  <1>5. QED BY <1>3, <1>4 DEF Gate, Pin

(* The spec patch reaches the object that has the name now. Nobody had bound *)
(* it, so no hold and no promotion refers to another node of it.             *)
LEMMA BindSpecStep ==
    ASSUME HoldInv, BindSpec PROVE HoldInv'
  <1>1. UNCHANGED <<cacheVars, phase, apiNodes, readyNodes,
                    deletedEvt, tracked, nodeStep, spc, seedNodes, jpc, jset, walk, seen>>
    BY DEF BindSpec, seedVars, janVars
  <1>2. /\ cycle.step = "bindSpec" /\ cycle.step \in Placed
        /\ cycle.s \in Slice /\ cycle.n \in Node
        /\ cycle # Idle /\ CycleOwnsBind
    BY CycleShape DEF BindSpec, Reconciling, HoldInv, Placed
  <1>3. CASE AbandonCycle /\ UNCHANGED nodeName
    BY <1>1, <1>2, <1>3, CycleEnds
  <1>4. CASE /\ \E t \in Target : nodeName' = [nodeName EXCEPT ![t] = cycle.n]
             /\ Advance("bindStatus") /\ UNCHANGED calls
    <2>1. PICK t \in Target : nodeName' = [nodeName EXCEPT ![t] = cycle.n]
      BY <1>4
    <2>2. /\ t \in Slice /\ Live(t) /\ NameOf[t] = NameOf[cycle.s]
          /\ nodeName[t] = NoNode /\ nodeName \in [Slice -> Place]
      BY <1>2, HoldsOfInv DEF Target, Named, CycleOwnsBind, ProcessTypeOK
    <2>3. /\ cycle' \in CycleType /\ cycle'.step = "bindStatus"
          /\ cycle'.s = cycle.s /\ cycle'.n = cycle.n
      BY <1>2, <1>4, CycleShape DEF Advance, Placed
    <2>4. HoldsOK' /\ HoldsShrink
      BY <1>1, SameCache
    <2>5. ObjectsSane'
      BY <1>1, <2>1, <2>2, HoldsOfInv DEF ObjectsSane, Live
    <2>6. ConfirmedWhereBound'
      BY <1>1, <2>1, <2>2 DEF HoldInv, ConfirmedWhereBound, Live, cacheVars
    <2>7. PromotionsWhereBound'
      <3>1. BoundCall \subseteq BoundCall'
        BY <2>1, <2>2, NodeAssumption DEF BoundCall, Call
      <3>2. \A g \in Caller : calls'[g] \in Seq(BoundCall')
        BY <1>4, <3>1, HoldsOfInv DEF PromotionsWhereBound
      <3>3. \A w \in Walker : \A p \in walk[w] : nodeName'[p[1]] = p[2]
        <4>1. ASSUME NEW w \in Walker, NEW p \in walk[w] PROVE nodeName'[p[1]] = p[2]
          <5>1. p[1] \in Slice /\ p[2] \in Node /\ nodeName[p[1]] = p[2]
            BY HoldsOfInv DEF ProcessTypeOK, PromotionsWhereBound
          <5>2. QED BY <2>1, <2>2, <5>1, NodeAssumption
        <4>2. QED BY <4>1
      <3>4. QED BY <1>1, <3>2, <3>3 DEF PromotionsWhereBound
    <2>8. CycleOwnsBind'
      <3>1. CASE t = cycle.s
        BY <1>1, <1>2, <2>1, <2>2, <2>3, <3>1 DEF CycleOwnsBind, cacheVars
      <3>2. CASE t # cycle.s
        <4>1. phase[cycle.s] = "Gone" /\ nodeName'[cycle.s] = NoNode
          BY <1>2, <2>1, <2>2, <3>2, HoldsOfInv DEF ObjectsSane, Live, CycleOwnsBind
        <4>2. QED BY <1>1, <1>2, <2>3, <4>1 DEF CycleOwnsBind, cacheVars
      <3>3. QED BY <3>1, <3>2
    <2>9. calls' \in [Caller -> Seq(Call)] /\ phase' \in [Slice -> Phases]
          /\ nodeName' \in [Slice -> Place]
      BY <1>1, <1>2, <1>4, <2>1, <2>2, HoldsOfInv DEF ProcessTypeOK, Place
    <2>10. QED BY <1>1, <2>3, <2>4, <2>5, <2>6, <2>7, <2>8, <2>9, CycleFrame
  <1>5. QED BY <1>3, <1>4 DEF BindSpec

LEMMA BindStatusStep ==
    ASSUME HoldInv, BindStatus PROVE HoldInv'
  <1>1. UNCHANGED <<cacheVars, nodeName, apiNodes, readyNodes,
                    deletedEvt, tracked, nodeStep, spc, seedNodes, jpc, jset, walk, seen>>
    BY DEF BindStatus, seedVars, janVars
  <1>2. /\ cycle.step = "bindStatus" /\ cycle.step \in Placed
        /\ cycle.s \in Slice /\ cycle.n \in Node
        /\ cycle # Idle /\ CycleOwnsBind
    BY CycleShape DEF BindStatus, Reconciling, HoldInv, Placed
  <1>3. CASE AbandonCycle /\ UNCHANGED phase
    BY <1>1, <1>2, <1>3, CycleEnds
  <1>4. CASE /\ \E t \in Target : phase' = [phase EXCEPT ![t] = "Scheduled"]
             /\ Advance("confirm") /\ UNCHANGED calls
    <2>1. PICK t \in Target : phase' = [phase EXCEPT ![t] = "Scheduled"]
      BY <1>4
    <2>2. t \in Slice /\ Live(t) /\ phase \in [Slice -> Phases]
      BY HoldsOfInv DEF Target, Named, ProcessTypeOK
    <2>3. /\ cycle' \in CycleType /\ cycle'.step = "confirm"
          /\ cycle'.s = cycle.s /\ cycle'.n = cycle.n
      BY <1>2, <1>4, CycleShape DEF Advance, Placed
    <2>4. HoldsOK' /\ HoldsShrink
      BY <1>1, SameCache
    <2>5. /\ \A s \in Slice : Live(s)' <=> Live(s)
          /\ \A s \in Slice : /\ phase[s] = "Gone" => phase'[s] = "Gone"
                              /\ phase[s] # "Absent" => phase'[s] # "Absent"
                              /\ phase'[s] = "Absent" => phase[s] = "Absent"
      BY <2>1, <2>2 DEF Live
    <2>6. ObjectsSane'
      BY <1>1, <2>5, HoldsOfInv DEF ObjectsSane
    <2>7. ConfirmedWhereBound'
      BY <1>1, <2>5 DEF HoldInv, ConfirmedWhereBound, cacheVars
    <2>8. PromotionsWhereBound'
      BY <1>1, <1>4, HoldsOfInv, SamePromotions
    <2>9. CycleOwnsBind'
      BY <1>1, <1>2, <2>3, <2>5 DEF CycleOwnsBind, cacheVars
    <2>10. calls' \in [Caller -> Seq(Call)] /\ phase' \in [Slice -> Phases]
           /\ nodeName' \in [Slice -> Place]
      BY <1>1, <1>4, <2>1, <2>2, HoldsOfInv DEF ProcessTypeOK, Phases
    <2>11. QED BY <1>1, <2>3, <2>4, <2>6, <2>7, <2>8, <2>9, <2>10, CycleFrame
  <1>5. QED BY <1>3, <1>4 DEF BindStatus

LEMMA ConfirmStep ==
    ASSUME HoldInv, Confirm PROVE HoldInv'
  <1>1. UNCHANGED <<phase, nodeName, apiNodes, readyNodes, calls,
                    deletedEvt, tracked, nodeStep, spc, seedNodes, jpc, jset, walk, seen>>
    BY DEF Confirm, apiVars, seedVars, janVars
  <1>2. /\ cycle.step = "confirm" /\ cycle.step \in Placed
        /\ cycle.s \in Slice /\ cycle.n \in Node
        /\ cycle # Idle /\ CycleOwnsBind /\ cycle' = Idle
        /\ ConfirmSliceOrRearm(cycle.s, cycle.n)
    BY CycleShape DEF Confirm, Reconciling, HoldInv, Placed
  <1>3. confirmedBySlice[cycle.s] = NoNode /\ assumedBySlice[cycle.s] \in {cycle.n, NoNode}
    BY <1>2 DEF CycleOwnsBind
  <1>4. HoldsOK' /\ confirmedBySlice' = [confirmedBySlice EXCEPT ![cycle.s] = cycle.n]
    BY <1>2, <1>3, HoldsOfInv, ConfirmHolds
  <1>5. ConfirmedWhereBound'
    <2>1. \/ nodeName[cycle.s] = cycle.n
          \/ nodeName[cycle.s] = NoNode /\ phase[cycle.s] = "Gone"
      BY <1>2 DEF CycleOwnsBind
    <2>2. confirmedBySlice \in [Slice -> Place]
      BY HoldsOfInv DEF HoldsOK, CacheTypeOK
    <2>3. QED BY <1>1, <1>4, <2>1, <2>2 DEF HoldInv, ConfirmedWhereBound
  <1>6. ObjectsSane' /\ PromotionsWhereBound'
    BY <1>1, HoldsOfInv, SameObjects, SamePromotions
  <1>7. CycleOwnsBind' /\ cycle' \in CycleType
    BY <1>2 DEF CycleOwnsBind, CycleType
  <1>8. calls' \in [Caller -> Seq(Call)] /\ phase' \in [Slice -> Phases]
        /\ nodeName' \in [Slice -> Place]
    BY <1>1, HoldsOfInv DEF ProcessTypeOK
  <1>9. QED BY <1>1, <1>4, <1>5, <1>6, <1>7, <1>8, CycleFrame

LEMMA ReapStep ==
    ASSUME HoldInv, NEW s \in Slice, reapExpiredAssumptions(s) PROVE HoldInv'
  <1>1. HoldsOK' /\ HoldsShrink
    BY HoldsOfInv, RollbackHolds DEF reapExpiredAssumptions
  <1>2. UNCHANGED <<phase, nodeName, apiNodes, readyNodes, calls, cycle,
                    deletedEvt, tracked, nodeStep, spc, seedNodes, jpc, jset, walk, seen>>
    BY DEF reapExpiredAssumptions, apiVars, sliceVars, seedVars, janVars
  <1>3. ProcessTypeOK'
    BY <1>2, HoldsOfInv DEF ProcessTypeOK
  <1>4. QED BY <1>1, <1>2, <1>3, QuietStep

-----------------------------------------------------------------------------
(* The node reconciler and the seed.                                       *)

(* A new re-charge loop over slices with the nodes they are bound to. *)
LEMMA NewWalk ==
    ASSUME HoldInv, UNCHANGED <<nodeName, calls>>, NEW v \in Walker,
           NEW P \in SUBSET (Slice \X Node), \A p \in P : nodeName[p[1]] = p[2],
           walk' = [walk EXCEPT ![v] = P]
    PROVE  PromotionsWhereBound' /\ walk' \in [Walker -> SUBSET (Slice \X Node)]
  <1>1. BoundCall' = BoundCall
    BY DEF BoundCall
  <1>2. PromotionsWhereBound /\ walk \in [Walker -> SUBSET (Slice \X Node)]
    BY HoldsOfInv DEF ProcessTypeOK
  <1>3. QED BY <1>1, <1>2 DEF PromotionsWhereBound

LEMMA RechargeStep ==
    ASSUME HoldInv, NEW v \in Walker, Recharge(v) PROVE HoldInv'
  <1>1. PICK p \in walk[v] : /\ PromoteSliceToAllocatedOnce(p[1], p[2])
                             /\ walk' = [walk EXCEPT ![v] = @ \ {p}]
    BY DEF Recharge
  <1>2. UNCHANGED <<phase, nodeName, apiNodes, readyNodes, calls, cycle,
                    deletedEvt, tracked, nodeStep, spc, seedNodes, jpc, jset, seen>>
    BY DEF Recharge, apiVars, sliceVars, seedVars, janVars
  <1>3. p[1] \in Slice /\ p[2] \in Node /\ nodeName[p[1]] = p[2]
    BY HoldsOfInv DEF ProcessTypeOK, PromotionsWhereBound
  <1>4. HoldsOK' /\ HoldsShrink
    BY <1>1, <1>3, BoundPromotion
  <1>5. walk' \in [Walker -> SUBSET (Slice \X Node)]
        /\ \A w \in Walker : walk'[w] \subseteq walk[w]
    BY <1>1, HoldsOfInv DEF ProcessTypeOK
  <1>6. ProcessTypeOK'
    BY <1>2, <1>5, HoldsOfInv DEF ProcessTypeOK
  <1>7. QED BY <1>2, <1>4, <1>5, <1>6, QuietStep

NodeStepType == {NodeIdle} \cup
    [step : {"update", "updateNew", "list", "walk", "health"}, n : Node]

LEMMA NodeStepTyped ==
    ASSUME ProcessTypeOK, nodeStep.step # "idle"
    PROVE  /\ nodeStep.n \in Node
           /\ \A x \in {"list", "walk", "health"} :
                 [nodeStep EXCEPT !.step = x] \in NodeStepType
  BY DEF ProcessTypeOK, NodeIdle, NodeStepType

LEMMA NodeStepShape ==
    ASSUME HoldInv, nodeStep.step # "idle"
    PROVE  /\ nodeStep.n \in Node
           /\ \A x \in {"list", "walk", "health"} :
                 [nodeStep EXCEPT !.step = x] \in NodeStepType
  BY HoldsOfInv, NodeStepTyped

LEMMA NodeReconcilerStep ==
    ASSUME HoldInv, NoLag, NodeReconciler PROVE HoldInv'
  <1>1. CASE \E n \in Node : ReconcileNodeGone(n)
    <2>1. PICK n \in Node : ReconcileNodeGone(n)
      BY <1>1
    <2>2. HoldsOK' /\ HoldsShrink
      BY <2>1, HoldsOfInv, RemoveNodeHolds DEF ReconcileNodeGone
    <2>3. UNCHANGED <<phase, nodeName, apiNodes, readyNodes, calls, cycle,
                      tracked, nodeStep, spc, seedNodes, jpc, jset, walk, seen>>
          /\ deletedEvt' = deletedEvt \ {n}
      BY <2>1 DEF ReconcileNodeGone, sliceVars, seedVars, janVars
    <2>4. ProcessTypeOK'
      BY <2>3, HoldsOfInv DEF ProcessTypeOK
    <2>5. QED BY <2>2, <2>3, <2>4, QuietStep
  <1>2. CASE \E n \in Node : ReconcileNode(n)
    <2>1. PICK n \in Node : ReconcileNode(n)
      BY <1>2
    <2>2. HoldsOK' /\ HoldsShrink
      BY <2>1, SameCache DEF ReconcileNode
    <2>3. /\ UNCHANGED <<phase, nodeName, apiNodes, readyNodes, calls, cycle,
                         tracked, spc, seedNodes, jpc, jset, walk, seen>>
          /\ deletedEvt' = deletedEvt \ {n}
          /\ nodeStep' = [step |-> IF n \in nodes THEN "update" ELSE "updateNew", n |-> n]
      BY <2>1 DEF ReconcileNode, sliceVars, seedVars, janVars
    <2>4. ProcessTypeOK'
      BY <2>3, HoldsOfInv DEF ProcessTypeOK
    <2>5. QED BY <2>2, <2>3, <2>4, QuietStep
  <1>3. CASE NodeUpdate
    <2>1. nodeStep.n \in Node /\ nodeStep' \in NodeStepType
      BY <1>3, NodeStepShape DEF NodeUpdate
    <2>2. HoldsOK' /\ HoldsShrink
      BY <1>3, <2>1, HoldsOfInv, NodeSections DEF NodeUpdate
    <2>3. UNCHANGED <<phase, nodeName, apiNodes, readyNodes, calls, cycle, deletedEvt,
                      tracked, spc, seedNodes, jpc, jset, walk, seen>>
      BY <1>3 DEF NodeUpdate, apiVars, sliceVars, seedVars, janVars
    <2>4. ProcessTypeOK'
      BY <2>1, <2>3, HoldsOfInv DEF ProcessTypeOK, NodeStepType
    <2>5. QED BY <2>2, <2>3, <2>4, QuietStep
  <1>4. CASE NodeList
    <2>1. /\ UNCHANGED <<phase, nodeName, apiNodes, readyNodes, calls, cycle, deletedEvt,
                         tracked, spc, seedNodes, jpc, jset, seen>>
          /\ nodeStep.step = "list"
      BY <1>4 DEF NodeList, apiVars, sliceVars, seedVars, janVars
    <2>2. nodeStep' \in NodeStepType /\ nodeStep.n \in Node
      BY <1>4, <2>1, NodeStepShape DEF NodeList, NodeStepType
    <2>3. HoldsOK' /\ HoldsShrink
      BY <1>4, SameCache DEF NodeList
    <2>4. PromotionsWhereBound' /\ walk' \in [Walker -> SUBSET (Slice \X Node)]
      <3>1. CASE UNCHANGED walk
        BY <2>1, <3>1, HoldsOfInv, SamePromotions DEF ProcessTypeOK
      <3>2. CASE ~ UNCHANGED walk
        <4> DEFINE P == {<<s, nodeStep.n>> : s \in {t \in Slice :
                             View(t) = [phase |-> "Ready", node |-> nodeStep.n]}}
        <4>1. walk' = [walk EXCEPT !["node"] = P]
          BY <1>4, <3>2 DEF NodeList
        <4>2. P \in SUBSET (Slice \X Node) /\ \A p \in P : nodeName[p[1]] = p[2]
          BY <2>2, CurrentView
        <4> HIDE DEF P
        <4>3. QED BY <2>1, <4>1, <4>2, NewWalk DEF Walker
      <3>3. QED BY <3>1, <3>2
    <2>5. ProcessTypeOK'
      BY <2>1, <2>2, <2>4, HoldsOfInv DEF ProcessTypeOK, NodeStepType
    <2>6. QED BY <2>1, <2>3, <2>4, <2>5, HoldsOfInv, SameObjects, StepFrame
  <1>5. CASE Recharge("node")
    BY <1>5, RechargeStep DEF Walker
  <1>6. CASE NodeWalked
    <2>1. nodeStep' \in NodeStepType
      BY <1>6, NodeStepShape DEF NodeWalked
    <2>2. HoldsOK' /\ HoldsShrink
      BY <1>6, SameCache DEF NodeWalked
    <2>3. UNCHANGED <<phase, nodeName, apiNodes, readyNodes, calls, cycle, deletedEvt,
                      tracked, spc, seedNodes, jpc, jset, walk, seen>>
      BY <1>6 DEF NodeWalked, apiVars, sliceVars, seedVars, janVars
    <2>4. ProcessTypeOK'
      BY <2>1, <2>3, HoldsOfInv DEF ProcessTypeOK, NodeStepType
    <2>5. QED BY <2>2, <2>3, <2>4, QuietStep
  <1>7. CASE NodeHealth
    <2>1. nodeStep.n \in Node /\ nodeStep' \in NodeStepType
      BY <1>7, NodeStepShape DEF NodeHealth, NodeStepType
    <2>2. HoldsOK' /\ HoldsShrink
      BY <1>7, <2>1, HoldsOfInv, NodeSections DEF NodeHealth
    <2>3. UNCHANGED <<phase, nodeName, apiNodes, readyNodes, calls, cycle, deletedEvt,
                      tracked, spc, seedNodes, jpc, jset, walk, seen>>
      BY <1>7 DEF NodeHealth, apiVars, sliceVars, seedVars, janVars
    <2>4. ProcessTypeOK'
      BY <2>1, <2>3, HoldsOfInv DEF ProcessTypeOK, NodeStepType
    <2>5. QED BY <2>2, <2>3, <2>4, QuietStep
  <1>8. QED BY <1>1, <1>2, <1>3, <1>4, <1>5, <1>6, <1>7 DEF NodeReconciler

LEMMA SeedStep ==
    ASSUME HoldInv, NoLag, Seed PROVE HoldInv'
  <1>1. CASE Recharge("seed")
    BY <1>1, RechargeStep DEF Walker
  <1>2. CASE \E n \in Node : SeedRegister(n)
    <2>1. PICK n \in Node : SeedRegister(n)
      BY <1>2
    <2>2. HoldsOK' /\ HoldsShrink
      BY <2>1, HoldsOfInv, NodeSections DEF SeedRegister
    <2>3. UNCHANGED <<phase, nodeName, apiNodes, readyNodes, calls, cycle, deletedEvt,
                      tracked, nodeStep, spc, jpc, jset, walk, seen>>
          /\ seedNodes' = seedNodes \ {n}
      BY <2>1 DEF SeedRegister, apiVars, sliceVars, janVars
    <2>4. ProcessTypeOK'
      BY <2>3, HoldsOfInv DEF ProcessTypeOK
    <2>5. QED BY <2>2, <2>3, <2>4, QuietStep
  <1>3. CASE SeedListNodes \/ SeedRegistered
    <2>1. HoldsOK' /\ HoldsShrink
      BY <1>3, SameCache DEF SeedListNodes, SeedRegistered
    <2>2. /\ UNCHANGED <<phase, nodeName, apiNodes, readyNodes, calls, cycle, deletedEvt,
                         tracked, nodeStep, jpc, jset, walk, seen>>
          /\ spc' \in {"register", "slices"} /\ seedNodes' \in {seedNodes, apiNodes}
      BY <1>3 DEF SeedListNodes, SeedRegistered, apiVars, sliceVars, janVars
    <2>3. ProcessTypeOK'
      BY <2>2, HoldsOfInv DEF ProcessTypeOK
    <2>4. QED BY <2>1, <2>2, <2>3, QuietStep
  <1>4. CASE SeedListSlices
    <2>1. /\ UNCHANGED <<phase, nodeName, apiNodes, readyNodes, calls, cycle, deletedEvt,
                         tracked, nodeStep, seedNodes, jpc, jset, seen>>
          /\ spc' = "walk"
      BY <1>4 DEF SeedListSlices, apiVars, sliceVars, janVars
    <2>2. HoldsOK' /\ HoldsShrink
      BY <1>4, SameCache DEF SeedListSlices
    <2>3. PromotionsWhereBound' /\ walk' \in [Walker -> SUBSET (Slice \X Node)]
      <3>1. CASE UNCHANGED walk
        BY <2>1, <3>1, HoldsOfInv, SamePromotions DEF ProcessTypeOK
      <3>2. CASE ~ UNCHANGED walk
        <4> DEFINE P == {<<s, View(s).node>> : s \in {t \in Slice :
                             View(t).node # NoNode /\ View(t).phase \in SeedCounted}}
        <4>1. walk' = [walk EXCEPT !["seed"] = P]
          BY <1>4, <3>2 DEF SeedListSlices
        <4>2. P \in SUBSET (Slice \X Node) /\ \A p \in P : nodeName[p[1]] = p[2]
          BY HoldsOfInv, CurrentView DEF ProcessTypeOK, Place
        <4> HIDE DEF P
        <4>3. QED BY <2>1, <4>1, <4>2, NewWalk DEF Walker
      <3>3. QED BY <3>1, <3>2
    <2>4. ProcessTypeOK'
      BY <2>1, <2>3, HoldsOfInv DEF ProcessTypeOK
    <2>5. QED BY <2>1, <2>2, <2>3, <2>4, HoldsOfInv, SameObjects, StepFrame
  <1>5. CASE SeedDone
    <2>1. HoldsOK' /\ HoldsShrink
      <3>1. CASE Node = {}
        BY <1>5, <3>1, HoldsOfInv, KeepHolds
           DEF SeedDone, MarkSeeded, HoldsUnchanged, HoldsOK, CacheTypeOK
      <3>2. CASE Node # {}
        BY <1>5, <3>2, HoldsOfInv, NodeSections DEF SeedDone
      <3>3. QED BY <3>1, <3>2
    <2>2. /\ UNCHANGED <<phase, nodeName, apiNodes, readyNodes, calls, cycle, deletedEvt,
                         tracked, nodeStep, seedNodes, jpc, jset, walk, seen>>
          /\ spc' = "done"
      BY <1>5 DEF SeedDone, apiVars, sliceVars, janVars
    <2>3. ProcessTypeOK'
      BY <2>2, HoldsOfInv DEF ProcessTypeOK
    <2>4. QED BY <2>1, <2>2, <2>3, QuietStep
  <1>6. QED BY <1>1, <1>2, <1>3, <1>4, <1>5 DEF Seed

-----------------------------------------------------------------------------
(* The janitor and the environment.                                        *)

LEMMA TrackedNodeType ==
    ASSUME HoldInv, NEW s \in TrackedSliceUIDs
    PROVE  s \in Slice /\ TrackedNode(s) \in Node
  BY HoldsOfInv DEF HoldsOK, CacheTypeOK, TrackedSliceUIDs, TrackedNode, Allocated, Place

LEMMA JanitorStep ==
    ASSUME HoldInv, Janitor PROVE HoldInv'
  <1>1. CASE CacheCall("janitor")
    BY <1>1, CacheCallStep DEF Caller
  <1>2. CASE JanitorSnapshot \/ JanitorList \/ JanitorDone
    <2>1. HoldsOK' /\ HoldsShrink
      BY <1>2, SameCache DEF JanitorSnapshot, JanitorList, JanitorDone
    <2>2. UNCHANGED <<phase, nodeName, apiNodes, readyNodes, calls, cycle, deletedEvt,
                      tracked, nodeStep, spc, seedNodes, walk, seen>>
      BY <1>2 DEF JanitorSnapshot, JanitorList, JanitorDone, apiVars, sliceVars, seedVars
    <2>3. jpc' \in {"idle", "list", "sweep"}
      BY <1>2 DEF JanitorSnapshot, JanitorList, JanitorDone
    <2>4. jset' \in SUBSET (Slice \X Node)
      <3>1. CASE JanitorSnapshot
        BY <3>1, TrackedNodeType DEF JanitorSnapshot
      <3>2. CASE JanitorList \/ JanitorDone
        BY <3>2, HoldsOfInv DEF JanitorList, JanitorDone, ProcessTypeOK
      <3>3. QED BY <1>2, <3>1, <3>2
    <2>5. ProcessTypeOK'
      BY <2>2, <2>3, <2>4, HoldsOfInv DEF ProcessTypeOK
    <2>6. QED BY <2>1, <2>2, <2>5, QuietStep
  <1>3. CASE JanitorForget
    <2>1. PICK p \in jset :
             /\ calls' = [calls EXCEPT !["janitor"] = ForgetSlice(p[1], p[2])]
             /\ jset' = jset \ {p}
      BY <1>3 DEF JanitorForget
    <2>2. UNCHANGED <<phase, nodeName, apiNodes, readyNodes, cycle, deletedEvt,
                      tracked, nodeStep, spc, seedNodes, jpc, walk, seen>>
      BY <1>3 DEF JanitorForget, apiVars, sliceVars, seedVars
    <2>3. HoldsOK' /\ HoldsShrink
      BY <1>3, SameCache DEF JanitorForget
    <2>4. p[1] \in Slice /\ p[2] \in Place
      BY HoldsOfInv DEF ProcessTypeOK, Place
    <2>5. PromotionsWhereBound' /\ calls' \in [Caller -> Seq(Call)]
      BY <2>1, <2>2, <2>4, ForgetCalls, NewCalls DEF Caller
    <2>6. ProcessTypeOK'
      BY <2>1, <2>2, <2>5, HoldsOfInv DEF ProcessTypeOK
    <2>7. QED BY <2>2, <2>3, <2>5, <2>6, HoldsOfInv, SameObjects, StepFrame
  <1>4. QED BY <1>1, <1>2, <1>3 DEF Janitor

(* A process that starts cold satisfies the invariant, whatever the API holds. *)
LEMMA ColdHolds == NewVRAMCache => HoldsOK
  <1> SUFFICES ASSUME NewVRAMCache PROVE HoldsOK
    OBVIOUS
  <1>1. CacheTypeOK
    <2>1. seeded \in BOOLEAN
      BY DEF NewVRAMCache
    <2>2. QED BY <2>1 DEF NewVRAMCache, CacheTypeOK, Place, Synced
  <1>2. HoldsExclusive /\ AbsentUncharged
    BY DEF NewVRAMCache, HoldsExclusive, AbsentUncharged
  <1>3. ReservationsBacked
    <2>1. \A n \in Node : HeldOn(n) \in SUBSET Slice
      BY DEF HeldOn
    <2>2. \A n \in Node : Bytes[HeldOn(n)] \in Nat /\ reservedVRAM[n] = 0
      BY <2>1, BytesAssumption DEF NewVRAMCache
    <2>3. QED BY <2>2 DEF ReservationsBacked
  <1>4. QED BY <1>1, <1>2, <1>3 DEF HoldsOK

ColdOK ==
    /\ tracked \in [Name -> [uid : Slice \cup {NoSlice}, node : Place]]
    /\ calls \in [Caller -> Seq(Call)]
    /\ walk \in [Walker -> SUBSET (Slice \X Node)]
    /\ PromotionsWhereBound
    /\ CycleOwnsBind

LEMMA ColdProcess == ColdStart => ColdOK
  <1> SUFFICES ASSUME ColdStart PROVE ColdOK
    OBVIOUS
  <1>1. tracked \in [Name -> [uid : Slice \cup {NoSlice}, node : Place]]
    BY DEF ColdStart, NotTracked, Place
  <1>2. calls \in [Caller -> Seq(Call)] /\ walk \in [Walker -> SUBSET (Slice \X Node)]
    BY DEF ColdStart
  <1>3. PromotionsWhereBound
    BY DEF ColdStart, PromotionsWhereBound
  <1>4. CycleOwnsBind
    BY DEF ColdStart, CycleOwnsBind
  <1>5. QED BY <1>1, <1>2, <1>3, <1>4 DEF ColdOK

LEMMA FailoverStep ==
    ASSUME HoldInv, Failover PROVE HoldInv'
  <1>1. NewVRAMCache' /\ ColdStart'
    BY DEF Failover, NewVRAMCache, ColdStart
  <1>2. HoldsOK'
    BY <1>1, ColdHolds, PTL
  <1>3. ColdOK'
    BY <1>1, ColdProcess, PTL
  <1>4. UNCHANGED <<phase, nodeName, apiNodes, readyNodes>> /\ deletedEvt' = {}
        /\ \A s \in Slice : confirmedBySlice'[s] = NoNode
    BY DEF Failover
  <1>5. seen' \in [Slice -> [phase : Phases, node : Place]]
    BY HoldsOfInv DEF Failover, Object, ProcessTypeOK
  <1>6. ProcessTypeOK'
    BY <1>1, <1>3, <1>4, <1>5, HoldsOfInv DEF ProcessTypeOK, ColdStart, ColdOK
  <1>7. ObjectsSane' /\ ConfirmedWhereBound'
    BY <1>4, HoldsOfInv, SameObjects DEF ConfirmedWhereBound
  <1>8. QED BY <1>2, <1>3, <1>6, <1>7
            DEF HoldInv, HoldsOK, TypeOK, ProcessTypeOK, ColdOK

LEMMA EnvironmentStep ==
    ASSUME HoldInv, Environment PROVE HoldInv'
  <1>1. CASE Failover
    BY <1>1, FailoverStep
  <1>2. CASE \E n \in Node : NodeJoin(n) \/ NodeLeave(n) \/ NodeFlip(n)
    <2>1. PICK n \in Node : NodeJoin(n) \/ NodeLeave(n) \/ NodeFlip(n)
      BY <1>2
    <2>2. UNCHANGED <<phase, nodeName, seen>> /\ UNCHANGED processVars
      BY <2>1 DEF NodeJoin, NodeLeave, NodeFlip
    <2>3. HoldsOK' /\ HoldsShrink
      BY <2>2, SameCache DEF processVars
    <2>4. /\ apiNodes' \in SUBSET Node /\ readyNodes' \in SUBSET Node
          /\ deletedEvt' \in SUBSET Node
      BY <2>1, HoldsOfInv DEF NodeJoin, NodeLeave, NodeFlip, ProcessTypeOK
    <2>5. UNCHANGED <<calls, cycle, tracked, nodeStep, spc, seedNodes, jpc, jset, walk>>
      BY <2>2 DEF processVars, sliceVars, seedVars, janVars
    <2>6. ProcessTypeOK'
      BY <2>2, <2>4, <2>5, HoldsOfInv DEF ProcessTypeOK
    <2>7. QED BY <2>2, <2>3, <2>5, <2>6, QuietStep
  <1>3. CASE \E s \in Slice : CreateSlice(s) \/ MovePhase(s) \/ RemoveSlice(s)
    <2>1. PICK s \in Slice : CreateSlice(s) \/ MovePhase(s) \/ RemoveSlice(s)
      BY <1>3
    <2>2. UNCHANGED <<nodeName, apiNodes, readyNodes, deletedEvt, seen>> /\ UNCHANGED processVars
      BY <2>1 DEF CreateSlice, MovePhase, RemoveSlice
    <2>3. HoldsOK' /\ HoldsShrink
      BY <2>2, SameCache DEF processVars
    <2>4. UNCHANGED <<calls, cycle, tracked, nodeStep, spc, seedNodes, jpc, jset, walk>>
      BY <2>2 DEF processVars, sliceVars, seedVars, janVars
    <2>5. PICK q \in Phases \ {"Absent"} :
             /\ phase' = [phase EXCEPT ![s] = q]
             /\ phase[s] # "Gone"
             /\ \/ phase[s] = "Absent" /\ Named(NameOf[s]) = {}
                \/ Live(s)
      BY <2>1 DEF CreateSlice, MovePhase, RemoveSlice, Moves, Phases, Live
    <2>6. phase \in [Slice -> Phases]
      BY HoldsOfInv DEF ProcessTypeOK
    <2>7. ProcessTypeOK'
      BY <2>2, <2>4, <2>5, HoldsOfInv DEF ProcessTypeOK
    <2>8. ObjectsSane'
      <3>1. \A t \in Slice \ {s} : Live(t)' <=> Live(t)
        BY <2>5, <2>6 DEF Live
      <3>2. \A t \in Slice \ {s} : Live(s)' /\ Live(t)' => NameOf[t] # NameOf[s]
        BY <2>5, <2>6, <3>1, HoldsOfInv DEF Live, Named, ObjectsSane
      <3>3. \A t, u \in Slice : Live(t)' /\ Live(u)' /\ NameOf[t] = NameOf[u] => t = u
        BY <3>1, <3>2, HoldsOfInv DEF ObjectsSane
      <3>4. \A t \in Slice : phase'[t] = "Absent" => nodeName'[t] = NoNode
        BY <2>2, <2>5, <2>6, HoldsOfInv DEF ObjectsSane
      <3>5. QED BY <3>3, <3>4 DEF ObjectsSane
    <2>9. PromotionsWhereBound'
      BY <2>2, <2>4, HoldsOfInv, SamePromotions
    <2>10. \A t \in Slice : /\ phase[t] = "Gone" => phase'[t] = "Gone"
                            /\ phase[t] # "Absent" => phase'[t] # "Absent"
      BY <2>5, <2>6
    <2>11. QED BY <2>2, <2>3, <2>4, <2>7, <2>8, <2>9, <2>10, StepFrame
  <1>4. CASE \E s \in Slice : Observe(s)
    <2>1. PICK s \in Slice : Observe(s)
      BY <1>4
    <2>2. HoldsOK' /\ HoldsShrink
      BY <2>1, SameCache DEF Observe
    <2>3. /\ UNCHANGED <<phase, nodeName, apiNodes, readyNodes, deletedEvt, tracked, cycle,
                         nodeStep, spc, seedNodes, jpc, jset, calls, walk>>
          /\ seen' = [seen EXCEPT ![s] = Object(s)]
      BY <2>1 DEF Observe, sliceVars, seedVars, janVars
    <2>4. ProcessTypeOK'
      BY <2>3, HoldsOfInv DEF ProcessTypeOK, Object
    <2>5. QED BY <2>2, <2>3, <2>4, QuietStep
  <1>5. QED BY <1>1, <1>2, <1>3, <1>4 DEF Environment

-----------------------------------------------------------------------------

LEMMA HoldInvInit == Init => HoldInv
  <1> SUFFICES ASSUME Init PROVE HoldInv
    OBVIOUS
  <1>1. HoldsOK
    BY ColdHolds DEF Init
  <1>2. ProcessTypeOK
    <2>1. phase \in [Slice -> Phases] /\ nodeName \in [Slice -> Place]
      BY DEF Init, Phases, Place
    <2>2. apiNodes \in SUBSET Node /\ readyNodes \in SUBSET Node /\ deletedEvt \in SUBSET Node
      BY DEF Init
    <2>3. seen \in [Slice -> [phase : Phases, node : Place]]
      BY DEF Init, Phases, Place
    <2>4. QED BY <2>1, <2>2, <2>3, ColdProcess DEF Init, ProcessTypeOK, ColdOK, ColdStart
  <1>3. ObjectsSane /\ ConfirmedWhereBound
    BY DEF Init, NewVRAMCache, ObjectsSane, ConfirmedWhereBound, Live
  <1>4. QED BY <1>1, <1>2, <1>3, ColdProcess
            DEF Init, HoldInv, HoldsOK, TypeOK, ProcessTypeOK, ColdOK

LEMMA HoldInvNext == NoLag /\ HoldInv /\ [Next]_vars => HoldInv'
  <1> SUFFICES ASSUME NoLag, HoldInv, [Next]_vars PROVE HoldInv'
    OBVIOUS
  <1>1. CASE Reconciler
    BY <1>1, CacheCallStep, ReconcileStep, FailOrphanStep, ScheduleStartStep, ReserveStep, GateStep,
       BindSpecStep, BindStatusStep, ConfirmStep DEF Reconciler, Caller
  <1>2. CASE NodeReconciler
    BY <1>2, NodeReconcilerStep
  <1>3. CASE Seed
    BY <1>3, SeedStep
  <1>4. CASE Janitor
    BY <1>4, JanitorStep
  <1>5. CASE \E s \in Slice : reapExpiredAssumptions(s)
    BY <1>5, ReapStep
  <1>6. CASE Environment
    BY <1>6, EnvironmentStep
  <1>7. CASE UNCHANGED vars
    <2>1. UNCHANGED <<cacheVars, phase, nodeName, apiNodes, readyNodes, calls, cycle,
                      deletedEvt, tracked, nodeStep, spc, seedNodes, jpc, jset, walk, seen>>
      BY <1>7 DEF vars, apiVars, sliceVars, seedVars, janVars
    <2>2. HoldsOK' /\ HoldsShrink /\ ProcessTypeOK'
      BY <2>1, SameCache, HoldsOfInv DEF ProcessTypeOK
    <2>3. QED BY <2>1, <2>2, QuietStep
  <1>8. QED BY <1>1, <1>2, <1>3, <1>4, <1>5, <1>6, <1>7 DEF Next

(* The inductive invariant holds in every reachable state. *)
THEOREM HoldInvariant == NoLag => (Spec => []HoldInv)
  <1> SUFFICES ASSUME NoLag PROVE Spec => []HoldInv
    OBVIOUS
  <1>1. HoldInv /\ [Next]_vars => HoldInv'
    BY HoldInvNext
  <1>2. QED BY <1>1, HoldInvInit, PTL DEF Spec

(* No node is ever charged for reserved bytes without a hold that accounts  *)
(* for them: no path of Reserve, rollback, TTL reap, re-arm, confirm,       *)
(* promote, fail, forget, node removal or take-over leaks reserved VRAM.    *)
(* The informer that serves the reads is assumed to keep up (NoLag).        *)
THEOREM NoReservationLeak == NoLag => (Spec => []ReservationsBacked)
  <1>1. HoldInv => ReservationsBacked
    BY DEF HoldInv
  <1>2. QED BY <1>1, HoldInvariant, PTL

(* A slice that is bound to a node stays bound to it. *)
KeepsNode == \A s \in Slice : nodeName[s] # NoNode => nodeName'[s] = nodeName[s]

(* The only write of spec.nodeName is the first bind call; the inductive    *)
(* invariant says that its target, if there is one, has no node yet.        *)
LEMMA NodeNameKept == HoldInv /\ [Next]_vars => KeepsNode \/ UNCHANGED nodeName
  <1> SUFFICES ASSUME HoldInv, [Next]_vars PROVE KeepsNode \/ UNCHANGED nodeName
    OBVIOUS
  <1>1. CASE BindSpec
    <2>1. CASE \E t \in Target : nodeName' = [nodeName EXCEPT ![t] = cycle.n]
      <3>1. PICK t \in Target : nodeName' = [nodeName EXCEPT ![t] = cycle.n]
        BY <2>1
      <3>2. cycle # Idle /\ cycle.step = "bindSpec"
        BY <1>1 DEF BindSpec, Reconciling, Idle
      <3>3. nodeName[t] = NoNode
        BY <3>1, <3>2 DEF HoldInv, CycleOwnsBind, Target
      <3>4. nodeName \in [Slice -> Place] /\ t \in Slice
        BY <3>1 DEF HoldInv, TypeOK, Target, Named
      <3>5. QED BY <3>1, <3>3, <3>4 DEF KeepsNode
    <2>2. CASE UNCHANGED nodeName
      BY <2>2
    <2>3. QED BY <1>1, <2>1, <2>2 DEF BindSpec
  <1>2. CASE Reconciler /\ ~BindSpec
    BY <1>2 DEF Reconciler, CacheCall, ReconcileGone, ReconcileSlice, FailOrphan, ScheduleStart,
                Reserve, Gate, Pin, BindStatus, Confirm, apiVars
  <1>3. CASE NodeReconciler
    BY <1>3 DEF NodeReconciler, ReconcileNodeGone, ReconcileNode, NodeUpdate, NodeList,
                Recharge, NodeWalked, NodeHealth, apiVars
  <1>4. CASE Seed
    BY <1>4 DEF Seed, SeedListNodes, SeedRegister, SeedRegistered, SeedListSlices, Recharge,
                SeedDone, apiVars
  <1>5. CASE Janitor
    BY <1>5 DEF Janitor, CacheCall, JanitorSnapshot, JanitorList, JanitorForget, JanitorDone,
                apiVars
  <1>6. CASE \E s \in Slice : reapExpiredAssumptions(s)
    BY <1>6 DEF reapExpiredAssumptions, apiVars
  <1>7. CASE Environment
    BY <1>7 DEF Environment, CreateSlice, MovePhase, RemoveSlice, Observe, NodeJoin, NodeLeave,
                NodeFlip, Failover
  <1>8. CASE UNCHANGED vars
    BY <1>8 DEF vars, apiVars
  <1>9. QED BY <1>1, <1>2, <1>3, <1>4, <1>5, <1>6, <1>7, <1>8 DEF Next

-----------------------------------------------------------------------------
(* Types, with or without an informer that keeps up.                       *)

(* Every critical section of the cache keeps the types, whatever it is      *)
(* called with: each decrement floors at zero.                              *)
LEMMA SliceSectionTypes ==
    ASSUME CacheTypeOK, NEW s \in Slice, NEW n \in Place,
           \/ RollbackAssumedSlice(s) \/ ReleaseConfirmedSlice(s) \/ ReleaseSliceOnce(s)
           \/ FailSliceOnce(s) \/ ReleaseAllocated(n, s) \/ DropTombstone(s)
    PROVE  CacheTypeOK'
  <1> USE DEF CacheTypeOK, Place, Synced
  <1>1. CASE RollbackAssumedSlice(s)
    <2>1. reservedVRAM' \in [Node -> Nat]
      BY <1>1, CounterStep DEF RollbackAssumedSlice
    <2>2. QED BY <1>1, <2>1 DEF RollbackAssumedSlice
  <1>2. CASE ReleaseConfirmedSlice(s)
    <2>1. reservedVRAM' \in [Node -> Nat]
      BY <1>2, CounterStep DEF ReleaseConfirmedSlice
    <2>2. QED BY <1>2, <2>1 DEF ReleaseConfirmedSlice
  <1>3. CASE ReleaseSliceOnce(s)
    BY <1>3 DEF ReleaseSliceOnce, cacheVars
  <1>4. CASE FailSliceOnce(s)
    BY <1>4 DEF FailSliceOnce, cacheVars
  <1>5. CASE ReleaseAllocated(n, s)
    <2>1. allocatedVRAM' \in [Node -> Nat]
      BY <1>5, CounterStep DEF ReleaseAllocated
    <2>2. QED BY <1>5, <2>1 DEF ReleaseAllocated
  <1>6. CASE DropTombstone(s)
    BY <1>6 DEF DropTombstone
  <1>7. QED BY <1>1, <1>2, <1>3, <1>4, <1>5, <1>6

(* A charge keeps a counter a natural number. *)
LEMMA AddedType ==
    ASSUME NEW f \in [Node -> Nat], NEW m \in Node, NEW s \in Slice
    PROVE  [f EXCEPT ![m] = @ + Req[s]] \in [Node -> Nat]
  <1>1. f[m] + Req[s] \in Nat
    BY SizeAssumption
  <1>2. QED BY <1>1

LEMMA PlaceSectionTypes ==
    ASSUME CacheTypeOK, NEW s \in Slice, NEW m \in Node,
           \/ AssumeSlice(s, m) \/ ConfirmSliceOrRearm(s, m)
    PROVE  CacheTypeOK'
  <1> USE DEF CacheTypeOK, Place, Synced
  <1>1. CASE AssumeSlice(s, m)
    <2>1. /\ reservedVRAM' = [reservedVRAM EXCEPT ![m] = @ + Req[s]]
          /\ assumedBySlice' = [assumedBySlice EXCEPT ![s] = m]
      BY <1>1 DEF AssumeSlice
    <2>2. reservedVRAM' \in [Node -> Nat]
      BY <2>1, AddedType
    <2>3. QED BY <1>1, <2>1, <2>2 DEF AssumeSlice
  <1>2. CASE ConfirmSliceOrRearm(s, m)
    <2>1. /\ assumedBySlice' \in [Slice -> Place]
          /\ confirmedBySlice' \in [Slice -> Place]
          /\ reservedVRAM' \in {reservedVRAM, Charge(reservedVRAM, m, s)}
      BY <1>2 DEF ConfirmSliceOrRearm
    <2>2. Charge(reservedVRAM, m, s) \in [Node -> Nat]
      BY CounterStep
    <2>3. QED BY <1>2, <2>1, <2>2 DEF ConfirmSliceOrRearm
  <1>3. QED BY <1>1, <1>2

(* A promotion onto a name that is no node changes no counter. *)
LEMMA PromoteTypes ==
    ASSUME CacheTypeOK, NEW s \in Slice, NEW m \in Place, PromoteSliceToAllocatedOnce(s, m)
    PROVE  CacheTypeOK'
  <1> USE DEF CacheTypeOK, Place, Synced
  <1>1. CASE syncedPhaseBySlice[s] = "Ready"
    BY <1>1 DEF PromoteSliceToAllocatedOnce, cacheVars
  <1>2. CASE syncedPhaseBySlice[s] # "Ready"
    <2>1. /\ promoteConfirmedToAllocatedLocked(s, m)
          /\ syncedPhaseBySlice' = [syncedPhaseBySlice EXCEPT ![s] = "Ready"]
          /\ allocatedNodeBySlice' = [allocatedNodeBySlice EXCEPT ![s] = m]
          /\ UNCHANGED <<nodes, healthy, assumedBySlice, seeded>>
      BY <1>2 DEF PromoteSliceToAllocatedOnce
    <2>2. CASE m \notin nodes
      BY <2>1, <2>2 DEF promoteConfirmedToAllocatedLocked
    <2>3. CASE m \in nodes
      <3>1. /\ confirmedBySlice' = [confirmedBySlice EXCEPT ![s] = NoNode]
            /\ reservedVRAM' \in {reservedVRAM, Discharge(reservedVRAM, m, s)}
            /\ allocatedVRAM' = [allocatedVRAM EXCEPT ![m] = @ + Req[s]]
        BY <2>1, <2>3 DEF promoteConfirmedToAllocatedLocked
      <3>2. m \in Node
        BY <2>3
      <3>3. /\ Discharge(reservedVRAM, m, s) \in [Node -> Nat]
            /\ [allocatedVRAM EXCEPT ![m] = @ + Req[s]] \in [Node -> Nat]
        BY <3>2, AddedType, CounterStep
      <3>4. QED BY <2>1, <3>1, <3>3
    <2>4. QED BY <2>2, <2>3
  <1>3. QED BY <1>1, <1>2

LEMMA NodeSectionTypes ==
    ASSUME CacheTypeOK, NEW n \in Node, NEW ok,
           UpdateNode(n) \/ RemoveNode(n) \/ SetNodeHealth(n, ok)
    PROVE  CacheTypeOK'
  <1> USE DEF CacheTypeOK
  <1>1. CASE UpdateNode(n)
    BY <1>1 DEF UpdateNode
  <1>2. CASE RemoveNode(n)
    <2>1. CASE n \notin nodes
      BY <1>2, <2>1 DEF RemoveNode, cacheVars
    <2>2. CASE n \in nodes
      <3>1. /\ Without(assumedBySlice, n) \in [Slice -> Place]
            /\ Without(confirmedBySlice, n) \in [Slice -> Place]
            /\ Without(allocatedNodeBySlice, n) \in [Slice -> Place]
        BY DEF Without, Place
      <3>4. /\ [reservedVRAM EXCEPT ![n] = 0] \in [Node -> Nat]
            /\ [allocatedVRAM EXCEPT ![n] = 0] \in [Node -> Nat]
        OBVIOUS
      <3>2. syncedPhaseBySlice' \in [Slice -> Synced]
        BY <1>2, <2>2 DEF RemoveNode, Synced
      <3>3. QED BY <1>2, <2>2, <3>1, <3>2, <3>4 DEF RemoveNode
    <2>3. QED BY <2>1, <2>2
  <1>3. CASE SetNodeHealth(n, ok)
    BY <1>3 DEF SetNodeHealth
  <1>4. QED BY <1>1, <1>2, <1>3

-----------------------------------------------------------------------------
(* The types of the process.                                               *)

CallsType == [Caller -> Seq(Call)]
WalkType == [Walker -> SUBSET (Slice \X Node)]
ViewType == [phase : Phases, node : Place]

LEMMA ViewTypes ==
    ASSUME ProcessTypeOK, NEW s \in Slice
    PROVE  View(s) \in ViewType /\ Object(s) \in ViewType
  BY DEF ProcessTypeOK, View, Object, ViewType

LEMMA BoundCallTypes == \A q \in Seq(BoundCall) : q \in Seq(Call)
  BY DEF BoundCall

(* What a phase read from a slice makes of the cache, whatever was read. *)
LEMMA SyncCallTypes ==
    ASSUME NEW s \in Slice, NEW n \in Place, NEW p
    PROVE  SyncCacheFromSlice(s, n, p) \in Seq(Call)
  <1>1. \A op \in Ops : call(op, s, n) \in Call
    BY DEF call, Call
  <1>2. \A op \in Ops : <<call(op, s, n)>> \in Seq(Call)
    BY <1>1
  <1>3. <<>> \in Seq(Call)
    OBVIOUS
  <1>4. QED BY <1>2, <1>3 DEF SyncCacheFromSlice, Ops

LEMMA AbandonTypes ==
    ASSUME ProcessTypeOK, AbandonCycle, cycle.s \in Slice
    PROVE  calls' \in CallsType /\ cycle' \in CycleType
  <1>1. call("rollback", cycle.s, NoNode) \in Call
    BY DEF call, Call, Ops, Place
  <1>2. <<call("rollback", cycle.s, NoNode)>> \in Seq(Call)
    BY <1>1
  <1>3. QED BY <1>2 DEF ProcessTypeOK, AbandonCycle, CallsType, CycleType

LEMMA CacheCallTypes ==
    ASSUME TypeOK, NEW g \in Caller, CacheCall(g)
    PROVE  TypeOK'
  <1> DEFINE c == Head(calls[g])
  <1>1. CacheTypeOK /\ ProcessTypeOK
    BY TypeSplit
  <1>2. calls[g] \in Seq(Call) /\ calls[g] # <<>> /\ calls \in CallsType
    BY <1>1 DEF CacheCall, ProcessTypeOK, CallsType
  <1>3. c \in Call /\ Tail(calls[g]) \in Seq(Call)
    BY <1>2, CallSequences
  <1>4. c.s \in Slice /\ c.n \in Place
    BY <1>3 DEF Call
  <1>5. CacheTypeOK'
    <2>1. \/ RollbackAssumedSlice(c.s)
          \/ ReleaseConfirmedSlice(c.s)
          \/ ReleaseSliceOnce(c.s)
          \/ FailSliceOnce(c.s)
          \/ ReleaseAllocated(c.n, c.s)
          \/ DropTombstone(c.s)
          \/ PromoteSliceToAllocatedOnce(c.s, c.n)
      BY DEF CacheCall
    <2>2. QED BY <1>1, <1>4, <2>1, SliceSectionTypes, PromoteTypes
  <1>6. Continuation(c) \o Tail(calls[g]) \in Seq(Call)
    BY <1>3, ContinuationCalls, BoundCallTypes, CallSequences
  <1>7. /\ calls' = [calls EXCEPT ![g] = Continuation(c) \o Tail(calls[g])]
        /\ UNCHANGED <<phase, nodeName, apiNodes, readyNodes, deletedEvt, tracked, cycle,
                       nodeStep, spc, seedNodes, jpc, jset, walk, seen>>
    BY <1>2 DEF CacheCall, apiVars, sliceVars, seedVars, janVars
  <1>8. calls' \in CallsType
    BY <1>2, <1>6, <1>7 DEF CallsType
  <1>9. ProcessTypeOK'
    BY <1>1, <1>7, <1>8 DEF ProcessTypeOK, CallsType
  <1>10. TypeOK'
    BY <1>5, <1>9 DEF TypeOK, ProcessTypeOK
  <1>11. QED BY <1>10

LEMMA ReconcileTypes ==
    ASSUME TypeOK,
           \/ \E nm \in Name : ReconcileGone(nm)
           \/ \E s \in Slice : ReconcileSlice(s)
    PROVE  TypeOK'
  <1>1. CacheTypeOK /\ ProcessTypeOK
    BY TypeSplit
  <1>2. CacheTypeOK' /\ UNCHANGED <<phase, nodeName, apiNodes, readyNodes, deletedEvt,
                         nodeStep, spc, seedNodes, jpc, jset, walk, seen>>
    BY <1>1 DEF ReconcileGone, ReconcileSlice, apiVars, seedVars, janVars, cacheVars,
                CacheTypeOK
  <1>3. tracked' \in [Name -> [uid : Slice \cup {NoSlice}, node : Place]]
        /\ calls' \in CallsType /\ cycle' \in CycleType
    <2>1. CASE \E nm \in Name : ReconcileGone(nm)
      <3>1. PICK nm \in Name : ReconcileGone(nm)
        BY <2>1
      <3>2. /\ UNCHANGED cycle
            /\ tracked' = [tracked EXCEPT ![nm] = NotTracked]
            /\ calls' = [calls EXCEPT !["reconciler"] =
                            ForgetSlice(tracked[nm].uid, tracked[nm].node)]
            /\ tracked[nm].uid # NoSlice
        BY <3>1 DEF ReconcileGone
      <3>3. tracked[nm].uid \in Slice /\ tracked[nm].node \in Place
        BY <1>1, <3>2 DEF ProcessTypeOK
      <3>4. ForgetSlice(tracked[nm].uid, tracked[nm].node) \in Seq(Call)
        BY <3>3, ForgetCalls, BoundCallTypes
      <3>5. QED BY <1>1, <3>2, <3>4
                DEF ProcessTypeOK, NotTracked, Place, CallsType, CycleType
    <2>2. CASE \E s \in Slice : ReconcileSlice(s)
      <3>1. PICK s \in Slice : ReconcileSlice(s)
        BY <2>2
      <3> DEFINE old == tracked[NameOf[s]]
                 forget == IF Replaced(s) THEN ForgetSlice(old.uid, old.node) ELSE <<>>
                 sync == SyncCacheFromSlice(s, View(s).node, View(s).phase)
      <3>2. /\ tracked' = [tracked EXCEPT ![NameOf[s]] = [uid |-> s, node |-> View(s).node]]
            /\ calls' = [calls EXCEPT !["reconciler"] = forget \o sync]
            /\ cycle' \in {[step |-> "schedule", s |-> s, n |-> NoNode], Idle}
        BY <3>1 DEF ReconcileSlice
      <3>3. /\ NameOf[s] \in Name /\ old.uid \in Slice \cup {NoSlice} /\ old.node \in Place
            /\ View(s).node \in Place
        BY <1>1, ViewTypes, SchedulerAssumption DEF ProcessTypeOK, ViewType
      <3>4. forget \in Seq(Call) /\ sync \in Seq(Call)
        BY <3>3, ForgetCalls, BoundCallTypes, SyncCallTypes, CallSequences DEF Replaced
      <3> HIDE DEF forget, sync
      <3>5. forget \o sync \in Seq(Call)
        BY <3>4, CallSequences
      <3>6. calls' \in CallsType
        BY <1>1, <3>2, <3>5 DEF ProcessTypeOK, CallsType
      <3>7. QED BY <1>1, <3>2, <3>3, <3>6 DEF ProcessTypeOK, CycleType
    <2>3. QED BY <2>1, <2>2
  <1>4. ProcessTypeOK'
    BY <1>1, <1>2, <1>3 DEF ProcessTypeOK, CallsType, CycleType
  <1>5. QED BY <1>2, <1>4 DEF TypeOK, ProcessTypeOK

LEMMA CycleTypes ==
    ASSUME TypeOK, \/ FailOrphan \/ ScheduleStart \/ Reserve \/ Gate \/ Pin
                   \/ BindSpec \/ BindStatus \/ Confirm
    PROVE  TypeOK'
  <1>1. CacheTypeOK /\ ProcessTypeOK
    BY TypeSplit
  <1>2. UNCHANGED <<apiNodes, readyNodes, deletedEvt, tracked, nodeStep, spc, seedNodes,
                    jpc, jset, walk, seen>>
    BY DEF FailOrphan, ScheduleStart, Reserve, Gate, Pin, BindSpec, BindStatus, Confirm,
           apiVars, sliceVars, seedVars, janVars
  <1>3. cycle.step = "schedule" => cycle.s \in Slice
    BY <1>1, CycleTyped
  <1>4. cycle.step \in Placed => cycle.s \in Slice /\ cycle.n \in Node
    BY <1>1, CycleTyped
  <1>5. \A x \in Placed : cycle.step \in Placed => [cycle EXCEPT !.step = x] \in CycleType
    BY <1>1, CycleTyped
  <1>6. Idle \in CycleType
    BY DEF CycleType
  <1>7. AbandonCycle /\ cycle.s \in Slice => calls' \in CallsType /\ cycle' \in CycleType
    BY <1>1, AbandonTypes
  <1>8. UNCHANGED calls => calls' \in CallsType
    BY <1>1 DEF ProcessTypeOK, CallsType
  <1>9. UNCHANGED cacheVars => CacheTypeOK'
    BY <1>1 DEF cacheVars, CacheTypeOK
  <1>10. /\ UNCHANGED phase => phase' \in [Slice -> Phases]
         /\ UNCHANGED nodeName => nodeName' \in [Slice -> Place]
    BY <1>1 DEF ProcessTypeOK
  <1> DEFINE Typed == /\ CacheTypeOK' /\ calls' \in CallsType /\ cycle' \in CycleType
                      /\ phase' \in [Slice -> Phases] /\ nodeName' \in [Slice -> Place]
  <1>11. ASSUME FailOrphan
         PROVE  Typed
    <2>1. phase' \in [Slice -> Phases]
      BY <1>1, <1>11 DEF FailOrphan, ProcessTypeOK, Phases
    <2>2. QED BY <1>6, <1>8, <1>9, <1>10, <1>11, <2>1 DEF FailOrphan
  <1>12. ASSUME ScheduleStart
         PROVE  Typed
    <2>1. cycle' \in CycleType
      <3>1. cycle.s \in Slice /\ assumedBySlice[cycle.s] \in Place /\ nodes \subseteq Node
        BY <1>1, <1>3, <1>12 DEF ScheduleStart, Reconciling, CacheTypeOK
      <3>2. QED BY <1>6, <1>12, <3>1 DEF ScheduleStart, CycleType, Placed, Place
    <2>2. QED BY <1>8, <1>9, <1>10, <1>12, <2>1 DEF ScheduleStart, apiVars
  <1>13. ASSUME Reserve
         PROVE  Typed
    <2>1. cycle.s \in Slice /\ cycle.n \in Node /\ cycle.step \in Placed
      BY <1>4, <1>13 DEF Reserve, Reconciling, Placed
    <2>2. cycle' \in CycleType
      BY <1>5, <1>6, <1>13, <2>1 DEF Reserve, Advance, Placed
    <2>3. CacheTypeOK'
      BY <1>1, <1>9, <1>13, <2>1, PlaceSectionTypes DEF Reserve
    <2>4. QED BY <1>8, <1>10, <1>13, <2>2, <2>3 DEF Reserve, apiVars
  <1>14. ASSUME Gate \/ Pin
         PROVE  Typed
    <2>1. cycle.s \in Slice /\ cycle.step \in Placed
      BY <1>4, <1>14 DEF Gate, Pin, Reconciling, Placed
    <2>2. calls' \in CallsType /\ cycle' \in CycleType
      BY <1>5, <1>6, <1>7, <1>8, <1>14, <2>1 DEF Gate, Pin, Advance, Placed
    <2>3. QED BY <1>9, <1>10, <1>14, <2>2 DEF Gate, Pin, apiVars
  <1>15. ASSUME BindSpec
         PROVE  Typed
    <2>1. cycle.s \in Slice /\ cycle.n \in Node /\ cycle.step \in Placed
      BY <1>4, <1>15 DEF BindSpec, Reconciling, Placed
    <2>2. calls' \in CallsType /\ cycle' \in CycleType
      BY <1>5, <1>7, <1>8, <1>15, <2>1 DEF BindSpec, Advance, Placed
    <2>3. nodeName' \in [Slice -> Place]
      BY <1>1, <1>15, <2>1 DEF BindSpec, ProcessTypeOK, Place
    <2>4. QED BY <1>9, <1>10, <1>15, <2>2, <2>3 DEF BindSpec
  <1>16. ASSUME BindStatus
         PROVE  Typed
    <2>1. cycle.s \in Slice /\ cycle.step \in Placed
      BY <1>4, <1>16 DEF BindStatus, Reconciling, Placed
    <2>2. calls' \in CallsType /\ cycle' \in CycleType
      BY <1>5, <1>7, <1>8, <1>16, <2>1 DEF BindStatus, Advance, Placed
    <2>3. phase' \in [Slice -> Phases]
      BY <1>1, <1>16 DEF BindStatus, ProcessTypeOK, Phases
    <2>4. QED BY <1>9, <1>10, <1>16, <2>2, <2>3 DEF BindStatus
  <1>17. ASSUME Confirm
         PROVE  Typed
    <2>1. cycle.s \in Slice /\ cycle.n \in Node
      BY <1>4, <1>17 DEF Confirm, Reconciling, Placed
    <2>2. CacheTypeOK'
      BY <1>1, <1>17, <2>1, PlaceSectionTypes DEF Confirm
    <2>3. QED BY <1>6, <1>8, <1>10, <1>17, <2>2 DEF Confirm, apiVars
  <1>18. Typed
    BY <1>11, <1>12, <1>13, <1>14, <1>15, <1>16, <1>17
  <1>19. ProcessTypeOK'
    BY <1>1, <1>2, <1>18 DEF ProcessTypeOK, CallsType, CycleType
  <1>20. QED BY <1>18, <1>19 DEF TypeOK, ProcessTypeOK

LEMMA NodeReconcilerTypes ==
    ASSUME TypeOK, NodeReconciler \/ Seed PROVE TypeOK'
  <1>1. CacheTypeOK /\ ProcessTypeOK
    BY TypeSplit
  <1>2. UNCHANGED <<phase, nodeName, apiNodes, readyNodes, seen, tracked, cycle, calls,
                    jpc, jset>>
    BY DEF NodeReconciler, ReconcileNodeGone, ReconcileNode, NodeUpdate, NodeList, Recharge,
           NodeWalked, NodeHealth, Seed, SeedListNodes, SeedRegister, SeedRegistered,
           SeedListSlices, SeedDone, apiVars, sliceVars, janVars
  <1>3. UNCHANGED cacheVars => CacheTypeOK'
    BY <1>1 DEF cacheVars, CacheTypeOK
  <1>4. nodeStep \in NodeStepType /\ seedNodes \in SUBSET Node /\ apiNodes \in SUBSET Node
        /\ deletedEvt \in SUBSET Node /\ walk \in WalkType
        /\ spc \in {"nodes", "register", "slices", "walk", "done"}
    BY <1>1 DEF ProcessTypeOK, NodeStepType, WalkType
  <1>5. nodeStep.step # "idle" => /\ nodeStep.n \in Node
                                  /\ \A x \in {"list", "walk", "health"} :
                                        [nodeStep EXCEPT !.step = x] \in NodeStepType
    BY <1>1, NodeStepTyped
  <1> DEFINE Typed == /\ CacheTypeOK' /\ nodeStep' \in NodeStepType /\ walk' \in WalkType
                      /\ seedNodes' \in SUBSET Node /\ deletedEvt' \in SUBSET Node
                      /\ spc' \in {"nodes", "register", "slices", "walk", "done"}
  <1>6. ASSUME \E n \in Node : ReconcileNodeGone(n) \/ ReconcileNode(n)
         PROVE  Typed
    <2>1. PICK n \in Node : ReconcileNodeGone(n) \/ ReconcileNode(n)
      BY <1>6
    <2>2. /\ RemoveNode(n) \/ UNCHANGED cacheVars
          /\ deletedEvt' = deletedEvt \ {n}
          /\ \/ UNCHANGED nodeStep
             \/ nodeStep' = [step |-> IF n \in nodes THEN "update" ELSE "updateNew", n |-> n]
          /\ UNCHANGED <<walk, spc, seedNodes>>
      BY <2>1 DEF ReconcileNodeGone, ReconcileNode, seedVars
    <2>3. CacheTypeOK'
      BY <1>1, <1>3, <2>2, NodeSectionTypes
    <2>4. nodeStep' \in NodeStepType
      BY <1>4, <2>2 DEF NodeStepType
    <2>5. QED BY <1>4, <2>2, <2>3, <2>4
  <1>7. ASSUME NodeUpdate \/ NodeHealth
         PROVE  Typed
    <2>1. /\ nodeStep.step # "idle"
          /\ UpdateNode(nodeStep.n) \/ SetNodeHealth(nodeStep.n, nodeStep.n \in readyNodes)
          /\ UNCHANGED <<deletedEvt, walk, spc, seedNodes>>
      BY <1>7 DEF NodeUpdate, NodeHealth, apiVars, seedVars
    <2>2. CacheTypeOK'
      BY <1>1, <1>5, <2>1, NodeSectionTypes
    <2>3. nodeStep' \in NodeStepType
      BY <1>5, <1>7, <2>1 DEF NodeUpdate, NodeHealth, NodeStepType
    <2>4. QED BY <1>4, <2>1, <2>2, <2>3
  <1>8. ASSUME NodeList \/ NodeWalked
         PROVE  Typed
    <2>1. /\ nodeStep.step # "idle" /\ UNCHANGED cacheVars
          /\ UNCHANGED <<deletedEvt, spc, seedNodes>>
      BY <1>8 DEF NodeList, NodeWalked, apiVars, seedVars
    <2>2. nodeStep' \in NodeStepType
      BY <1>5, <1>8, <2>1 DEF NodeList, NodeWalked, NodeStepType
    <2>3. walk' \in WalkType
      <3>1. CASE UNCHANGED walk
        BY <1>4, <3>1
      <3>2. CASE ~ UNCHANGED walk
        <4> DEFINE P == {<<s, nodeStep.n>> : s \in {t \in Slice :
                             View(t) = [phase |-> "Ready", node |-> nodeStep.n]}}
        <4>1. walk' = [walk EXCEPT !["node"] = P]
          BY <1>8, <3>2 DEF NodeList, NodeWalked
        <4>2. P \in SUBSET (Slice \X Node)
          BY <1>5, <2>1
        <4> HIDE DEF P
        <4>3. QED BY <1>4, <4>1, <4>2 DEF WalkType
      <3>3. QED BY <3>1, <3>2
    <2>4. QED BY <1>3, <1>4, <2>1, <2>2, <2>3
  <1>9. ASSUME Recharge("node") \/ Recharge("seed")
         PROVE  Typed
    <2>0. PICK w \in Walker : Recharge(w)
      BY <1>9 DEF Walker
    <2>1. PICK p \in walk[w] : /\ PromoteSliceToAllocatedOnce(p[1], p[2])
                               /\ walk' = [walk EXCEPT ![w] = @ \ {p}]
      BY <2>0 DEF Recharge
    <2>2. p[1] \in Slice /\ p[2] \in Place /\ walk' \in WalkType
      BY <1>4, <2>1 DEF WalkType, Place
    <2>3. CacheTypeOK'
      BY <1>1, <2>1, <2>2, PromoteTypes
    <2>4. UNCHANGED <<deletedEvt, nodeStep, spc, seedNodes>>
      BY <1>9 DEF Recharge, apiVars, seedVars
    <2>5. QED BY <1>4, <2>2, <2>3, <2>4
  <1>10. ASSUME SeedListNodes \/ SeedRegistered \/ \E n \in Node : SeedRegister(n)
         PROVE  Typed
    <2>1. CacheTypeOK'
      BY <1>1, <1>3, <1>10, NodeSectionTypes DEF SeedListNodes, SeedRegistered, SeedRegister
    <2>2. QED BY <1>4, <1>10, <2>1 DEF SeedListNodes, SeedRegistered, SeedRegister, apiVars
  <1>11. ASSUME SeedListSlices
         PROVE  Typed
    <2>1. UNCHANGED cacheVars /\ UNCHANGED <<deletedEvt, nodeStep, seedNodes>> /\ spc' = "walk"
      BY <1>11 DEF SeedListSlices, apiVars
    <2>2. walk' \in WalkType
      <3>1. CASE UNCHANGED walk
        BY <1>4, <3>1
      <3>2. CASE ~ UNCHANGED walk
        <4> DEFINE P == {<<s, View(s).node>> : s \in {t \in Slice :
                             View(t).node # NoNode /\ View(t).phase \in SeedCounted}}
        <4>1. walk' = [walk EXCEPT !["seed"] = P]
          BY <1>11, <3>2 DEF SeedListSlices
        <4>2. P \in SUBSET (Slice \X Node)
          BY <1>1, ViewTypes DEF ViewType, Place
        <4> HIDE DEF P
        <4>3. QED BY <1>4, <4>1, <4>2 DEF WalkType
      <3>3. QED BY <3>1, <3>2
    <2>3. QED BY <1>3, <1>4, <2>1, <2>2
  <1>12. ASSUME SeedDone
         PROVE  Typed
    <2>1. CacheTypeOK'
      BY <1>1, <1>12 DEF SeedDone, MarkSeeded, CacheTypeOK
    <2>2. QED BY <1>4, <1>12, <2>1 DEF SeedDone, apiVars
  <1>13. Typed
    BY <1>6, <1>7, <1>8, <1>9, <1>10, <1>11, <1>12 DEF NodeReconciler, Seed
  <1>14. ProcessTypeOK'
    BY <1>1, <1>2, <1>13 DEF ProcessTypeOK, NodeStepType, WalkType
  <1>15. QED BY <1>13, <1>14 DEF TypeOK, ProcessTypeOK

LEMMA JanitorTypes ==
    ASSUME TypeOK, Janitor PROVE TypeOK'
  <1>1. CacheTypeOK /\ ProcessTypeOK
    BY TypeSplit
  <1>2. CASE CacheCall("janitor")
    BY <1>2, CacheCallTypes DEF Caller
  <1>3. CASE JanitorSnapshot \/ JanitorList \/ JanitorForget \/ JanitorDone
    <2>1. /\ UNCHANGED cacheVars
          /\ UNCHANGED <<phase, nodeName, apiNodes, readyNodes, cycle, deletedEvt,
                         tracked, nodeStep, spc, seedNodes, walk, seen>>
          /\ jpc' \in {"idle", "list", "sweep"}
      BY <1>1, <1>3 DEF JanitorSnapshot, JanitorList, JanitorForget, JanitorDone, apiVars,
                        sliceVars, seedVars, ProcessTypeOK
    <2>2. CacheTypeOK'
      BY <1>1, <2>1 DEF cacheVars, CacheTypeOK
    <2>3. jset' \in SUBSET (Slice \X Node)
      <3>1. \A s \in TrackedSliceUIDs : s \in Slice /\ TrackedNode(s) \in Node
        BY <1>1 DEF CacheTypeOK, TrackedSliceUIDs, TrackedNode, Allocated, Place
      <3>2. CASE JanitorSnapshot
        BY <3>1, <3>2 DEF JanitorSnapshot
      <3>3. CASE JanitorList \/ JanitorForget \/ JanitorDone
        BY <1>1, <3>3 DEF JanitorList, JanitorForget, JanitorDone, ProcessTypeOK
      <3>4. QED BY <1>3, <3>2, <3>3
    <2>4. calls' \in CallsType
      <3>1. CASE UNCHANGED calls
        BY <1>1, <3>1 DEF ProcessTypeOK, CallsType
      <3>2. CASE JanitorForget
        <4>1. PICK p \in jset : calls' = [calls EXCEPT !["janitor"] = ForgetSlice(p[1], p[2])]
          BY <3>2 DEF JanitorForget
        <4>2. p[1] \in Slice /\ p[2] \in Place
          BY <1>1 DEF ProcessTypeOK, Place
        <4>3. ForgetSlice(p[1], p[2]) \in Seq(Call)
          BY <4>2, ForgetCalls, BoundCallTypes
        <4>4. QED BY <1>1, <4>1, <4>3 DEF ProcessTypeOK, CallsType
      <3>3. QED BY <1>3, <3>1, <3>2 DEF JanitorSnapshot, JanitorList, JanitorDone
    <2>5. ProcessTypeOK'
      BY <1>1, <2>1, <2>3, <2>4 DEF ProcessTypeOK, CallsType
    <2>6. QED BY <2>2, <2>5 DEF TypeOK, ProcessTypeOK
  <1>4. QED BY <1>2, <1>3 DEF Janitor

LEMMA EnvironmentTypes ==
    ASSUME TypeOK, Environment PROVE TypeOK'
  <1>1. CacheTypeOK /\ ProcessTypeOK
    BY TypeSplit
  <1>2. CASE Failover
    <2>1. NewVRAMCache' /\ ColdStart'
      BY <1>2 DEF Failover, NewVRAMCache, ColdStart
    <2>2. CacheTypeOK'
      <3>1. HoldsOK'
        BY <2>1, ColdHolds, PTL
      <3>2. QED BY <3>1 DEF HoldsOK
    <2>3. ColdOK'
      BY <2>1, ColdProcess, PTL
    <2>4. /\ UNCHANGED <<phase, nodeName, apiNodes, readyNodes>> /\ deletedEvt' = {}
          /\ seen' \in [Slice -> ViewType]
      BY <1>1, <1>2, ViewTypes DEF Failover, ProcessTypeOK, ViewType
    <2>5. ProcessTypeOK'
      BY <1>1, <2>1, <2>3, <2>4 DEF ProcessTypeOK, ColdStart, ColdOK, ViewType
    <2>6. QED BY <2>2, <2>5 DEF TypeOK, ProcessTypeOK
  <1>3. CASE Environment /\ ~ Failover
    <2>1. /\ UNCHANGED cacheVars
          /\ UNCHANGED <<nodeName, calls, cycle, tracked, nodeStep, spc, seedNodes, jpc,
                         jset, walk>>
      BY <1>3 DEF Environment, CreateSlice, MovePhase, RemoveSlice, Observe, NodeJoin,
                  NodeLeave, NodeFlip, processVars, sliceVars, seedVars, janVars
    <2>2. CacheTypeOK'
      BY <1>1, <2>1 DEF cacheVars, CacheTypeOK
    <2>3. phase' \in [Slice -> Phases]
      BY <1>1, <1>3 DEF Environment, CreateSlice, MovePhase, RemoveSlice, Observe, NodeJoin,
                        NodeLeave, NodeFlip, ProcessTypeOK, Moves, Phases
    <2>4. seen' \in [Slice -> ViewType]
      <3>1. seen \in [Slice -> ViewType]
        BY <1>1 DEF ProcessTypeOK, ViewType
      <3>2. CASE UNCHANGED seen
        BY <3>1, <3>2
      <3>3. CASE \E s \in Slice : Observe(s)
        <4>1. PICK s \in Slice : seen' = [seen EXCEPT ![s] = Object(s)]
          BY <3>3 DEF Observe
        <4>2. Object(s) \in ViewType
          BY <1>1, ViewTypes
        <4>3. QED BY <3>1, <4>1, <4>2
      <3>4. QED BY <1>3, <3>2, <3>3 DEF Environment, CreateSlice, MovePhase, RemoveSlice,
                                        NodeJoin, NodeLeave, NodeFlip
    <2>5. apiNodes' \in SUBSET Node /\ readyNodes' \in SUBSET Node /\ deletedEvt' \in SUBSET Node
      BY <1>1, <1>3 DEF Environment, CreateSlice, MovePhase, RemoveSlice, Observe,
             NodeJoin, NodeLeave, NodeFlip, ProcessTypeOK
    <2>6. ProcessTypeOK'
      BY <1>1, <2>1, <2>3, <2>4, <2>5 DEF ProcessTypeOK, ViewType
    <2>7. QED BY <2>2, <2>6 DEF TypeOK, ProcessTypeOK
  <1>4. QED BY <1>2, <1>3

LEMMA TypeNext == TypeOK /\ [Next]_vars => TypeOK'
  <1> SUFFICES ASSUME TypeOK, [Next]_vars PROVE TypeOK'
    OBVIOUS
  <1>1. CASE Reconciler
    BY <1>1, CacheCallTypes, ReconcileTypes, CycleTypes DEF Reconciler, Caller
  <1>2. CASE NodeReconciler \/ Seed
    BY <1>2, NodeReconcilerTypes
  <1>3. CASE Janitor
    BY <1>3, JanitorTypes
  <1>4. CASE \E s \in Slice : reapExpiredAssumptions(s)
    <2>1. PICK s \in Slice : reapExpiredAssumptions(s)
      BY <1>4
    <2>2. CacheTypeOK'
      <3>1. NoNode \in Place
        BY DEF Place
      <3>2. QED BY <2>1, <3>1, TypeSplit, SliceSectionTypes DEF reapExpiredAssumptions
    <2>3. ProcessTypeOK'
      BY <2>1, TypeSplit DEF reapExpiredAssumptions, apiVars, sliceVars, seedVars, janVars,
                             ProcessTypeOK
    <2>4. QED BY <2>2, <2>3 DEF TypeOK, ProcessTypeOK
  <1>5. CASE Environment
    BY <1>5, EnvironmentTypes
  <1>6. CASE UNCHANGED vars
    <2>1. CacheTypeOK'
      BY <1>6, TypeSplit DEF vars, cacheVars, CacheTypeOK
    <2>2. ProcessTypeOK'
      BY <1>6, TypeSplit DEF vars, apiVars, sliceVars, seedVars, janVars, ProcessTypeOK
    <2>3. QED BY <2>1, <2>2 DEF TypeOK, ProcessTypeOK
  <1>7. QED BY <1>1, <1>2, <1>3, <1>4, <1>5, <1>6 DEF Next

(* Every variable of the scheduler and of its cache keeps its type, with the *)
(* informer lagging or not: counters stay natural numbers because every      *)
(* decrement floors at zero, and no call refers to a node no one named.      *)
THEOREM TypeCorrect == Spec => []TypeOK
  <1>1. Init => TypeOK
    BY HoldInvInit DEF HoldInv
  <1>2. TypeOK /\ [Next]_vars => TypeOK'
    BY TypeNext
  <1>3. QED BY <1>1, <1>2, PTL DEF Spec

-----------------------------------------------------------------------------
(* Without a lost node the counter is exact, not only backed: a hold is on  *)
(* a node the cache knows, so no charge and no decrement is skipped, and a  *)
(* decrement never has less than its hold to take from.                     *)

NoNodeLoss == "nodeLoss" \notin Faults
OneNode == \A m, n \in Node : m = n

HeldOnKnown == \A n \in Node \ nodes : HeldOn(n) = {}

(* What the cycle relies on from the cache alone. *)
CycleHold ==
    /\ cycle.step \in Placed => cycle.n \in nodes
    /\ cycle.step \in Placed \ {"reserve"} =>
          confirmedBySlice[cycle.s] = NoNode /\ assumedBySlice[cycle.s] \in {cycle.n, NoNode}

ExactOK == CacheTypeOK /\ HoldsExclusive /\ HeldOnKnown /\ ReservationsExact

ExactInv == TypeOK /\ ExactOK /\ CycleHold /\ deletedEvt = {}

(* The exact counters are backed. *)
LEMMA ExactIsBacked ==
    ASSUME ExactOK
    PROVE  HoldsOK /\ \A n \in Node : HeldOn(n) \in SUBSET Slice /\ Bytes[HeldOn(n)] \in Nat
  <1>1. \A n \in Node : HeldOn(n) \in SUBSET Slice
    BY DEF HeldOn
  <1>2. \A n \in Node : Bytes[HeldOn(n)] \in Nat
    BY <1>1, BytesAssumption
  <1>3. ReservationsBacked
    BY <1>2 DEF ExactOK, ReservationsExact, ReservationsBacked
  <1>4. AbsentUncharged
    BY BytesAssumption DEF ExactOK, HeldOnKnown, ReservationsExact, AbsentUncharged
  <1>5. QED BY <1>1, <1>2, <1>3, <1>4 DEF ExactOK, HoldsOK

LEMMA KeepExact ==
    ASSUME ExactOK, HoldsUnchanged, CacheTypeOK', nodes \subseteq nodes'
    PROVE  ExactOK' /\ HoldsShrink
  <1>1. HoldsOK' /\ HoldsShrink
    BY ExactIsBacked, KeepHolds
  <1>2. \A n \in Node : HeldOn(n)' = HeldOn(n)
    BY DEF HoldsUnchanged, HeldOn
  <1>3. ReservationsExact' /\ HeldOnKnown'
    BY <1>2 DEF ExactOK, HoldsUnchanged, ReservationsExact, HeldOnKnown
  <1>4. QED BY <1>1, <1>3 DEF ExactOK, HoldsOK

(* A hold given back on the node it was taken on. *)
LEMMA DropExact ==
    ASSUME ExactOK, NEW s \in Slice, NEW n \in Place,
           n # NoNode => s \in HeldOn(n),
           \A m \in Node : HeldOn(m)' = IF m = n THEN HeldOn(m) \ {s} ELSE HeldOn(m),
           reservedVRAM' = Discharge(reservedVRAM, n, s), nodes' = nodes
    PROVE  ReservationsExact' /\ HeldOnKnown'
  <1>1. HeldOnKnown'
    BY DEF ExactOK, HeldOnKnown
  <1>2. ASSUME NEW m \in Node PROVE reservedVRAM'[m] = Bytes[HeldOn(m)']
    <2>1. reservedVRAM[m] = Bytes[HeldOn(m)] /\ reservedVRAM[m] \in Nat
      BY DEF ExactOK, ReservationsExact, CacheTypeOK
    <2>2. reservedVRAM'[m] = IF m = n /\ n \in nodes
                               THEN Floor(reservedVRAM[m], Req[s]) ELSE reservedVRAM[m]
      BY CounterStep DEF ExactOK, CacheTypeOK
    <2>3. CASE m = n
      <3>1. s \in HeldOn(n) /\ n \in nodes
        BY <2>3, NodeAssumption DEF ExactOK, HeldOnKnown
      <3>2. /\ Bytes[HeldOn(n)] = Bytes[HeldOn(n) \ {s}] + Req[s]
            /\ Req[s] \in Nat /\ Bytes[HeldOn(n) \ {s}] \in Nat
        <4>1. HeldOn(n) \in SUBSET Slice /\ HeldOn(n) \ {s} \in SUBSET Slice
          BY DEF HeldOn
        <4>2. QED BY <3>1, <4>1, BytesStep
      <3>3. reservedVRAM'[m] = Floor(Bytes[HeldOn(n)], Req[s])
        BY <2>1, <2>2, <2>3, <3>1
      <3>4. Floor(Bytes[HeldOn(n)], Req[s]) = Bytes[HeldOn(n) \ {s}]
        BY <3>2 DEF Floor
      <3>5. QED BY <2>3, <3>3, <3>4
    <2>4. CASE m # n
      BY <2>1, <2>2, <2>4
    <2>5. QED BY <2>3, <2>4
  <1>3. QED BY <1>1, <1>2 DEF ReservationsExact

(* A hold taken on a node the cache knows. *)
LEMMA TakeExact ==
    ASSUME ExactOK, NEW s \in Slice, NEW n \in nodes, s \notin HeldOn(n),
           \A m \in Node : HeldOn(m)' = IF m = n THEN HeldOn(m) \cup {s} ELSE HeldOn(m),
           reservedVRAM' = [reservedVRAM EXCEPT ![n] = @ + Req[s]], nodes' = nodes
    PROVE  ReservationsExact' /\ HeldOnKnown'
  <1>1. HeldOnKnown'
    BY DEF ExactOK, HeldOnKnown
  <1>2. ASSUME NEW m \in Node PROVE reservedVRAM'[m] = Bytes[HeldOn(m)']
    <2>1. /\ reservedVRAM[m] = Bytes[HeldOn(m)] /\ reservedVRAM \in [Node -> Nat]
          /\ HeldOn(m) \in SUBSET Slice
      BY DEF ExactOK, ReservationsExact, CacheTypeOK, HeldOn
    <2>2. CASE m = n
      <3>1. Bytes[HeldOn(m) \cup {s}] = Bytes[HeldOn(m)] + Req[s]
        BY <2>1, <2>2, BytesStep
      <3>2. QED BY <2>1, <2>2, <3>1
    <2>3. CASE m # n
      BY <2>1, <2>3
    <2>4. QED BY <2>2, <2>3
  <1>3. QED BY <1>1, <1>2 DEF ReservationsExact

LEMMA DropHoldExact ==
    ASSUME ExactOK, NEW s \in Slice, RollbackAssumedSlice(s) \/ ReleaseConfirmedSlice(s)
    PROVE  ExactOK' /\ HoldsShrink
  <1>1. HoldsOK' /\ HoldsShrink
    BY ExactIsBacked, RollbackHolds, UnconfirmHolds
  <1>2. CASE RollbackAssumedSlice(s)
    <2> DEFINE n == assumedBySlice[s]
    <2>1. n \in Place /\ assumedBySlice \in [Slice -> Place]
      BY DEF ExactOK, CacheTypeOK
    <2>2. n # NoNode => s \in HeldOn(n)
      BY DEF HeldOn
    <2>3. \A m \in Node : HeldOn(m)' = IF m = n THEN HeldOn(m) \ {s} ELSE HeldOn(m)
      BY <1>2, <2>1, NodeAssumption
         DEF RollbackAssumedSlice, HeldOn, ExactOK, HoldsExclusive
    <2>4. ReservationsExact' /\ HeldOnKnown'
      BY <1>2, <2>1, <2>2, <2>3, DropExact DEF RollbackAssumedSlice
    <2>5. QED BY <1>1, <2>4 DEF ExactOK, HoldsOK
  <1>3. CASE ReleaseConfirmedSlice(s)
    <2> DEFINE n == confirmedBySlice[s]
    <2>1. n \in Place /\ confirmedBySlice \in [Slice -> Place]
      BY DEF ExactOK, CacheTypeOK
    <2>2. n # NoNode => s \in HeldOn(n)
      BY DEF HeldOn
    <2>3. \A m \in Node : HeldOn(m)' = IF m = n THEN HeldOn(m) \ {s} ELSE HeldOn(m)
      BY <1>3, <2>1, NodeAssumption
         DEF ReleaseConfirmedSlice, HeldOn, ExactOK, HoldsExclusive
    <2>4. ReservationsExact' /\ HeldOnKnown'
      BY <1>3, <2>1, <2>2, <2>3, DropExact DEF ReleaseConfirmedSlice
    <2>5. QED BY <1>1, <2>4 DEF ExactOK, HoldsOK
  <1>4. QED BY <1>2, <1>3

LEMMA AssumeExact ==
    ASSUME ExactOK, NEW s \in Slice, NEW m \in Node, AssumeSlice(s, m)
    PROVE  ExactOK'
  <1>1. /\ HoldsOK'
        /\ assumedBySlice' = [assumedBySlice EXCEPT ![s] = m]
        /\ UNCHANGED confirmedBySlice
    BY ExactIsBacked, AssumeHolds
  <1>2. /\ assumedBySlice[s] = NoNode /\ confirmedBySlice[s] = NoNode /\ m \in nodes
        /\ reservedVRAM' = [reservedVRAM EXCEPT ![m] = @ + Req[s]] /\ nodes' = nodes
    BY DEF AssumeSlice, CanAssume, CanFit
  <1>3. assumedBySlice \in [Slice -> Place]
    BY DEF ExactOK, CacheTypeOK
  <1>4. s \notin HeldOn(m)
    BY <1>2, NodeAssumption DEF HeldOn
  <1>5. \A n \in Node : HeldOn(n)' = IF n = m THEN HeldOn(n) \cup {s} ELSE HeldOn(n)
    BY <1>1, <1>2, <1>3, NodeAssumption DEF HeldOn
  <1>6. ReservationsExact' /\ HeldOnKnown'
    BY <1>2, <1>4, <1>5, TakeExact
  <1>7. QED BY <1>1, <1>6 DEF ExactOK, HoldsOK

LEMMA ConfirmExact ==
    ASSUME ExactOK, NEW s \in Slice, NEW m \in nodes, ConfirmSliceOrRearm(s, m),
           confirmedBySlice[s] = NoNode, assumedBySlice[s] \in {m, NoNode}
    PROVE  ExactOK'
  <1>1. m \in Node /\ assumedBySlice \in [Slice -> Place] /\ confirmedBySlice \in [Slice -> Place]
    BY DEF ExactOK, CacheTypeOK
  <1>2. /\ HoldsOK' /\ confirmedBySlice' = [confirmedBySlice EXCEPT ![s] = m]
    BY <1>1, ExactIsBacked, ConfirmHolds
  <1>3. nodes' = nodes
    BY DEF ConfirmSliceOrRearm
  <1>4. CASE assumedBySlice[s] # NoNode
    <2>1. assumedBySlice' = [assumedBySlice EXCEPT ![s] = NoNode] /\ UNCHANGED reservedVRAM
      BY <1>4 DEF ConfirmSliceOrRearm
    <2>2. \A n \in Node : HeldOn(n)' = HeldOn(n)
      BY <1>1, <1>2, <1>4, <2>1, NodeAssumption DEF HeldOn
    <2>3. ReservationsExact' /\ HeldOnKnown'
      BY <1>3, <2>1, <2>2 DEF ExactOK, ReservationsExact, HeldOnKnown
    <2>4. QED BY <1>2, <2>3 DEF ExactOK, HoldsOK
  <1>5. CASE assumedBySlice[s] = NoNode
    <2>1. UNCHANGED assumedBySlice /\ reservedVRAM' = [reservedVRAM EXCEPT ![m] = @ + Req[s]]
      BY <1>5 DEF ConfirmSliceOrRearm, Charge
    <2>2. s \notin HeldOn(m)
      BY <1>1, <1>5, NodeAssumption DEF HeldOn
    <2>3. \A n \in Node : HeldOn(n)' = IF n = m THEN HeldOn(n) \cup {s} ELSE HeldOn(n)
      BY <1>1, <1>2, <1>5, <2>1, NodeAssumption DEF HeldOn
    <2>4. ReservationsExact' /\ HeldOnKnown'
      BY <1>3, <2>1, <2>2, <2>3, TakeExact
    <2>5. QED BY <1>2, <2>4 DEF ExactOK, HoldsOK
  <1>6. QED BY <1>4, <1>5

LEMMA PromoteExact ==
    ASSUME ExactOK, NEW s \in Slice, NEW m \in Node,
           PromoteSliceToAllocatedOnce(s, m), confirmedBySlice[s] \in {m, NoNode}
    PROVE  ExactOK' /\ HoldsShrink
  <1>1. HoldsOK' /\ HoldsShrink
    BY ExactIsBacked, PromoteHolds
  <1>2. CASE \/ syncedPhaseBySlice[s] = "Ready" \/ m \notin nodes
             \/ confirmedBySlice[s] = NoNode
    <2>1. HoldsUnchanged /\ nodes' = nodes
      <3>1. confirmedBySlice \in [Slice -> Place]
        BY DEF ExactOK, CacheTypeOK
      <3>2. QED BY <1>2, <3>1 DEF PromoteSliceToAllocatedOnce, cacheVars, HoldsUnchanged,
                                  promoteConfirmedToAllocatedLocked
    <2>2. QED BY <1>1, <2>1, KeepExact DEF HoldsOK
  <1>3. CASE /\ syncedPhaseBySlice[s] # "Ready" /\ m \in nodes
             /\ confirmedBySlice[s] # NoNode
    <2>1. /\ confirmedBySlice' = [confirmedBySlice EXCEPT ![s] = NoNode]
          /\ reservedVRAM' = Discharge(reservedVRAM, m, s)
          /\ UNCHANGED <<nodes, assumedBySlice>> /\ confirmedBySlice[s] = m
      BY <1>3 DEF PromoteSliceToAllocatedOnce, promoteConfirmedToAllocatedLocked
    <2>2. confirmedBySlice \in [Slice -> Place] /\ m \in Place
      BY DEF ExactOK, CacheTypeOK, Place
    <2>3. s \in HeldOn(m)
      BY <2>1 DEF HeldOn
    <2>4. \A n \in Node : HeldOn(n)' = IF n = m THEN HeldOn(n) \ {s} ELSE HeldOn(n)
      BY <2>1, <2>2, NodeAssumption DEF HeldOn, ExactOK, HoldsExclusive
    <2>5. ReservationsExact' /\ HeldOnKnown'
      BY <2>1, <2>2, <2>3, <2>4, DropExact
    <2>6. QED BY <1>1, <2>5 DEF ExactOK, HoldsOK
  <1>4. QED BY <1>2, <1>3

(* A cold cache holds nothing and charges nothing. *)
LEMMA ColdExact == NewVRAMCache => ExactOK
  <1> SUFFICES ASSUME NewVRAMCache PROVE ExactOK
    OBVIOUS
  <1>1. CacheTypeOK /\ HoldsExclusive
    BY ColdHolds DEF HoldsOK
  <1>2. \A n \in Node : HeldOn(n) = {} /\ reservedVRAM[n] = 0
    BY NodeAssumption DEF NewVRAMCache, HeldOn
  <1>3. HeldOnKnown /\ ReservationsExact
    BY <1>2, BytesAssumption DEF HeldOnKnown, ReservationsExact
  <1>4. QED BY <1>1, <1>3 DEF ExactOK
-----------------------------------------------------------------------------

(* The steps after which the cycle is where it was, or over. *)
LEMMA ExactFrame ==
    ASSUME ExactInv, TypeOK', ExactOK', HoldsShrink, nodes \subseteq nodes',
           cycle' \in {cycle, Idle}, deletedEvt' = {}
    PROVE  ExactInv'
  <1>1. CASE cycle' = Idle
    BY <1>1 DEF ExactInv, CycleHold, Idle, Placed
  <1>2. CASE cycle' = cycle
    <2>1. cycle.step \in Placed => cycle.s \in Slice
      BY TypeSplit, CycleTyped DEF ExactInv
    <2>2. CycleHold'
      BY <1>2, <2>1 DEF ExactInv, CycleHold, HoldsShrink, Shrinks
    <2>3. QED BY <2>2 DEF ExactInv
  <1>3. QED BY <1>1, <1>2

(* A step that leaves the cache alone. *)
LEMMA SameCacheExact ==
    ASSUME ExactInv, TypeOK', UNCHANGED cacheVars
    PROVE  ExactOK' /\ HoldsShrink /\ nodes \subseteq nodes'
  <1>1. HoldsUnchanged /\ nodes' = nodes
    BY DEF cacheVars, HoldsUnchanged
  <1>2. CacheTypeOK'
    BY DEF TypeOK
  <1>3. QED BY <1>1, <1>2, KeepExact DEF ExactInv

(* One promotion: on the node of the confirmed hold, when reads are current  *)
(* (HoldInv) or there is one node only.                                      *)
LEMMA MatchedPromotion ==
    ASSUME ExactInv, NEW s \in Slice, NEW n \in Place, PromoteSliceToAllocatedOnce(s, n),
           n \in Node, OneNode \/ (HoldInv /\ nodeName[s] = n)
    PROVE  ExactOK' /\ HoldsShrink /\ nodes' = nodes
  <1>1. confirmedBySlice[s] \in {n, NoNode}
    <2>1. confirmedBySlice[s] \in Place
      BY DEF ExactInv, ExactOK, CacheTypeOK
    <2>2. QED BY <2>1, NodeAssumption DEF OneNode, HoldInv, ConfirmedWhereBound, Place
  <1>2. nodes' = nodes
    BY DEF PromoteSliceToAllocatedOnce, cacheVars
  <1>3. QED BY <1>1, <1>2, PromoteExact DEF ExactInv

LEMMA CacheCallExact ==
    ASSUME ExactInv, TypeOK', NEW g \in Caller, CacheCall(g), OneNode \/ HoldInv
    PROVE  ExactInv'
  <1> DEFINE c == Head(calls[g])
  <1>1. ProcessTypeOK /\ CacheTypeOK /\ ExactOK
    BY TypeSplit DEF ExactInv
  <1>2. calls[g] \in Seq(Call) /\ calls[g] # <<>>
    BY <1>1 DEF CacheCall, ProcessTypeOK
  <1>3. c \in Call /\ c.s \in Slice /\ c.n \in Place
    <2>1. c \in Call
      BY <1>2, CallSequences
    <2>2. QED BY <2>1 DEF Call
  <1>4. /\ UNCHANGED <<cycle, deletedEvt>>
        /\ \/ RollbackAssumedSlice(c.s)
           \/ ReleaseConfirmedSlice(c.s)
           \/ ReleaseSliceOnce(c.s)
           \/ FailSliceOnce(c.s)
           \/ ReleaseAllocated(c.n, c.s)
           \/ DropTombstone(c.s)
           \/ c.op = "promote" /\ PromoteSliceToAllocatedOnce(c.s, c.n)
    BY DEF CacheCall, apiVars, sliceVars
  <1> HIDE DEF c
  <1>5. CASE c.op = "promote" /\ PromoteSliceToAllocatedOnce(c.s, c.n)
    <2>1. CASE c.n \in Node
      <3>1. HoldInv => nodeName[c.s] = c.n
        <4>1. ASSUME HoldInv PROVE calls[g] \in Seq(BoundCall)
          BY <4>1 DEF HoldInv, PromotionsWhereBound
        <4>2. ASSUME HoldInv PROVE c \in BoundCall
          BY <1>2, <4>1, <4>2, CallSequences DEF c
        <4>3. QED BY <1>5, <4>2 DEF BoundCall
      <3>2. ExactOK' /\ HoldsShrink /\ nodes' = nodes
        BY <1>3, <1>5, <2>1, <3>1, MatchedPromotion
      <3>3. QED BY <1>4, <3>2, ExactFrame DEF ExactInv
    <2>2. CASE c.n \notin Node
      <3>1. HoldsUnchanged /\ nodes' = nodes
        BY <1>1, <1>5, <2>2 DEF PromoteSliceToAllocatedOnce, cacheVars, HoldsUnchanged,
               promoteConfirmedToAllocatedLocked, CacheTypeOK
      <3>2. ExactOK' /\ HoldsShrink
        BY <1>1, <3>1, KeepExact DEF TypeOK
      <3>3. QED BY <1>4, <3>1, <3>2, ExactFrame DEF ExactInv
    <2>3. QED BY <2>1, <2>2
  <1>6. CASE RollbackAssumedSlice(c.s) \/ ReleaseConfirmedSlice(c.s)
    <2>1. ExactOK' /\ HoldsShrink /\ nodes' = nodes
      BY <1>1, <1>3, <1>6, DropHoldExact DEF RollbackAssumedSlice, ReleaseConfirmedSlice
    <2>2. QED BY <1>4, <2>1, ExactFrame DEF ExactInv
  <1>7. CASE \/ ReleaseSliceOnce(c.s) \/ FailSliceOnce(c.s)
             \/ DropTombstone(c.s) \/ ReleaseAllocated(c.n, c.s)
    <2>1. HoldsUnchanged /\ nodes' = nodes
      BY <1>7 DEF ReleaseSliceOnce, FailSliceOnce, DropTombstone, ReleaseAllocated, cacheVars,
                  HoldsUnchanged
    <2>2. ExactOK' /\ HoldsShrink
      BY <1>1, <2>1, KeepExact DEF TypeOK
    <2>3. QED BY <1>4, <2>1, <2>2, ExactFrame DEF ExactInv
  <1>8. QED BY <1>4, <1>5, <1>6, <1>7

LEMMA RechargeExact ==
    ASSUME ExactInv, TypeOK', NEW w \in Walker, Recharge(w), OneNode \/ HoldInv
    PROVE  ExactInv'
  <1>1. PICK p \in walk[w] : PromoteSliceToAllocatedOnce(p[1], p[2])
    BY DEF Recharge
  <1>2. p[1] \in Slice /\ p[2] \in Node /\ p[2] \in Place
    BY TypeSplit DEF ExactInv, ProcessTypeOK, Place
  <1>3. HoldInv => nodeName[p[1]] = p[2]
    BY DEF HoldInv, PromotionsWhereBound
  <1>4. ExactOK' /\ HoldsShrink /\ nodes' = nodes
    BY <1>1, <1>2, <1>3, MatchedPromotion
  <1>5. UNCHANGED <<cycle, deletedEvt>>
    BY DEF Recharge, apiVars, sliceVars
  <1>6. QED BY <1>4, <1>5, ExactFrame DEF ExactInv

LEMMA CycleExact ==
    ASSUME ExactInv, TypeOK',
           \/ (\E s \in Slice : ReconcileSlice(s)) \/ ScheduleStart \/ Reserve
           \/ Gate \/ Pin \/ BindSpec \/ BindStatus \/ Confirm
    PROVE  ExactInv'
  <1>1. deletedEvt' = {}
    BY DEF ExactInv, ReconcileSlice, ScheduleStart, Reserve, Gate, Pin, BindSpec, BindStatus,
           Confirm, apiVars
  <1>2. ProcessTypeOK /\ CacheTypeOK /\ ExactOK /\ CycleHold
    BY TypeSplit DEF ExactInv
  <1>3. /\ cycle.step \in Placed => cycle.s \in Slice /\ cycle.n \in Node
        /\ \A x \in Placed : cycle.step \in Placed =>
              /\ [cycle EXCEPT !.step = x].step = x
              /\ [cycle EXCEPT !.step = x].s = cycle.s
              /\ [cycle EXCEPT !.step = x].n = cycle.n
    BY <1>2, CycleTyped
  <1>4. ASSUME UNCHANGED cacheVars, cycle' = Idle PROVE ExactInv'
    BY <1>1, <1>4, SameCacheExact, ExactFrame
  <1>5. CASE \E s \in Slice : ReconcileSlice(s)
    <2>1. PICK s \in Slice : ReconcileSlice(s)
      BY <1>5
    <2>2. /\ UNCHANGED cacheVars
          /\ cycle' \in {[step |-> "schedule", s |-> s, n |-> NoNode], Idle}
      BY <2>1 DEF ReconcileSlice
    <2>3. cycle'.step \notin Placed
      BY <2>2 DEF Idle, Placed
    <2>4. ExactOK'
      BY <2>2, SameCacheExact
    <2>5. QED BY <1>1, <2>3, <2>4 DEF ExactInv, CycleHold
  <1>6. CASE ScheduleStart
    <2>1. UNCHANGED cacheVars
      BY <1>6 DEF ScheduleStart
    <2>2. ExactOK'
      BY <2>1, SameCacheExact
    <2>3. CASE cycle' = Idle
      BY <1>4, <2>1, <2>3
    <2>4. CASE /\ assumedBySlice[cycle.s] # NoNode
               /\ cycle' = [step |-> "gate", s |-> cycle.s, n |-> assumedBySlice[cycle.s]]
      <3>1. cycle.s \in Slice
        BY <1>2, <1>6, CycleTyped DEF ScheduleStart, Reconciling
      <3>2. assumedBySlice[cycle.s] \in nodes
        BY <1>2, <2>4, <3>1 DEF ExactOK, HeldOnKnown, HeldOn, CacheTypeOK, Place
      <3>3. CycleHold'
        BY <1>2, <2>1, <2>4, <3>1, <3>2 DEF CycleHold, cacheVars, ExactOK, HoldsExclusive
      <3>4. QED BY <1>1, <2>2, <3>3 DEF ExactInv
    <2>5. CASE \E n \in nodes : cycle' = [step |-> "reserve", s |-> cycle.s, n |-> n]
      <3>1. CycleHold'
        BY <2>1, <2>5 DEF CycleHold, cacheVars
      <3>2. QED BY <1>1, <2>2, <3>1 DEF ExactInv
    <2>6. QED BY <1>6, <2>3, <2>4, <2>5 DEF ScheduleStart
  <1>7. CASE Reserve
    <2>1. cycle.step = "reserve" /\ cycle.s \in Slice /\ cycle.n \in Node /\ cycle.n \in nodes
      BY <1>2, <1>3, <1>7 DEF Reserve, Reconciling, Placed, CycleHold
    <2>2. CASE UNCHANGED cacheVars /\ cycle' = Idle
      BY <1>4, <2>2
    <2>3. CASE AssumeSlice(cycle.s, cycle.n) /\ Advance("gate")
      <3>1. ExactOK'
        BY <1>2, <2>1, <2>3, AssumeExact
      <3>2. cycle'.s = cycle.s /\ cycle'.n = cycle.n
        BY <1>3, <2>1, <2>3 DEF Advance, Placed
      <3>3. /\ nodes' = nodes /\ confirmedBySlice'[cycle.s] = NoNode
            /\ assumedBySlice'[cycle.s] = cycle.n
        BY <1>2, <2>1, <2>3 DEF AssumeSlice, CanAssume, CacheTypeOK
      <3>4. CycleHold'
        BY <2>1, <3>2, <3>3 DEF CycleHold
      <3>5. QED BY <1>1, <3>1, <3>4 DEF ExactInv
    <2>4. QED BY <1>7, <2>2, <2>3 DEF Reserve
  <1>8. CASE Gate \/ Pin \/ BindSpec \/ BindStatus
    <2>1. UNCHANGED cacheVars
      BY <1>8 DEF Gate, Pin, BindSpec, BindStatus
    <2>2. CASE cycle' = Idle
      BY <1>4, <2>1, <2>2
    <2>3. CASE cycle' # Idle
      <3>1. cycle.step \in Placed \ {"reserve"}
        BY <1>8 DEF Gate, Pin, BindSpec, BindStatus, Reconciling, Placed
      <3>2. cycle'.s = cycle.s /\ cycle'.n = cycle.n
        BY <1>3, <1>8, <2>3, <3>1 DEF Gate, Pin, BindSpec, BindStatus, Advance, AbandonCycle,
                                      Placed
      <3>3. CycleHold'
        BY <1>2, <2>1, <3>1, <3>2 DEF CycleHold, cacheVars
      <3>4. QED BY <1>1, <2>1, <3>3, SameCacheExact DEF ExactInv
    <2>4. QED BY <2>2, <2>3
  <1>9. CASE Confirm
    <2>1. /\ cycle.step = "confirm" /\ cycle' = Idle
          /\ ConfirmSliceOrRearm(cycle.s, cycle.n)
          /\ cycle.s \in Slice
      BY <1>3, <1>9 DEF Confirm, Reconciling, Placed
    <2>2. /\ cycle.n \in nodes /\ confirmedBySlice[cycle.s] = NoNode
          /\ assumedBySlice[cycle.s] \in {cycle.n, NoNode}
      BY <1>2, <2>1 DEF CycleHold, Placed
    <2>3. ExactOK'
      BY <1>2, <2>1, <2>2, ConfirmExact
    <2>4. QED BY <1>1, <2>1, <2>3 DEF ExactInv, CycleHold, Idle, Placed
  <1>10. QED BY <1>5, <1>6, <1>7, <1>8, <1>9

LEMMA ExactNext ==
    ASSUME NoNodeLoss, ExactInv, [Next]_vars, OneNode \/ HoldInv
    PROVE  ExactInv'
  <1>1. TypeOK'
    BY TypeNext DEF ExactInv
  <1>2. deletedEvt = {} /\ ExactOK /\ CacheTypeOK
    BY DEF ExactInv, ExactOK
  <1>3. CASE Reconciler
    <2>1. ASSUME (\E nm \in Name : ReconcileGone(nm)) \/ FailOrphan PROVE ExactInv'
      <3>1. UNCHANGED <<cacheVars, deletedEvt>> /\ cycle' \in {cycle, Idle}
        BY <2>1 DEF ReconcileGone, FailOrphan, apiVars
      <3>2. QED BY <1>1, <1>2, <3>1, SameCacheExact, ExactFrame
    <2>2. QED BY <1>1, <1>3, <2>1, CacheCallExact, CycleExact DEF Reconciler, Caller
  <1>4. CASE NodeReconciler
    <2>1. ASSUME NEW n \in Node PROVE ~ ReconcileNodeGone(n)
      BY <1>2 DEF ReconcileNodeGone
    <2>2. ASSUME (\E n \in Node : ReconcileNode(n)) \/ NodeList \/ NodeWalked PROVE ExactInv'
      <3>1. UNCHANGED <<cacheVars, cycle>> /\ deletedEvt' = {}
        BY <1>2, <2>2 DEF ReconcileNode, NodeList, NodeWalked, apiVars, sliceVars
      <3>2. QED BY <1>1, <3>1, SameCacheExact, ExactFrame
    <2>3. ASSUME NodeUpdate \/ NodeHealth PROVE ExactInv'
      <3>1. UNCHANGED <<cycle, deletedEvt>> /\ HoldsUnchanged /\ nodes \subseteq nodes'
        BY <2>3 DEF NodeUpdate, NodeHealth, UpdateNode, SetNodeHealth, HoldsUnchanged, apiVars,
                    sliceVars
      <3>2. ExactOK' /\ HoldsShrink
        BY <1>1, <1>2, <3>1, KeepExact DEF TypeOK
      <3>3. QED BY <1>1, <1>2, <3>1, <3>2, ExactFrame
    <2>4. QED BY <1>1, <1>4, <2>1, <2>2, <2>3, RechargeExact DEF NodeReconciler, Walker
  <1>5. CASE Seed
    <2>1. ASSUME SeedListNodes \/ SeedRegistered \/ SeedListSlices PROVE ExactInv'
      <3>1. UNCHANGED <<cacheVars, cycle, deletedEvt>>
        BY <2>1 DEF SeedListNodes, SeedRegistered, SeedListSlices, apiVars, sliceVars
      <3>2. QED BY <1>1, <1>2, <3>1, SameCacheExact, ExactFrame
    <2>2. ASSUME (\E n \in Node : SeedRegister(n)) \/ SeedDone PROVE ExactInv'
      <3>1. UNCHANGED <<cycle, deletedEvt>> /\ HoldsUnchanged /\ nodes \subseteq nodes'
        BY <2>2 DEF SeedRegister, SeedDone, UpdateNode, MarkSeeded, HoldsUnchanged, apiVars,
                    sliceVars
      <3>2. ExactOK' /\ HoldsShrink
        BY <1>1, <1>2, <3>1, KeepExact DEF TypeOK
      <3>3. QED BY <1>1, <1>2, <3>1, <3>2, ExactFrame
    <2>3. QED BY <1>1, <1>5, <2>1, <2>2, RechargeExact DEF Seed, Walker
  <1>6. CASE Janitor
    <2>1. ASSUME JanitorSnapshot \/ JanitorList \/ JanitorForget \/ JanitorDone PROVE ExactInv'
      <3>1. UNCHANGED <<cacheVars, cycle, deletedEvt>>
        BY <2>1 DEF JanitorSnapshot, JanitorList, JanitorForget, JanitorDone, apiVars, sliceVars
      <3>2. QED BY <1>1, <1>2, <3>1, SameCacheExact, ExactFrame
    <2>2. QED BY <1>1, <1>6, <2>1, CacheCallExact DEF Janitor, Caller
  <1>7. CASE \E s \in Slice : reapExpiredAssumptions(s)
    <2>1. PICK s \in Slice : reapExpiredAssumptions(s)
      BY <1>7
    <2>2. RollbackAssumedSlice(s) /\ UNCHANGED <<cycle, deletedEvt>>
      BY <2>1 DEF reapExpiredAssumptions, apiVars, sliceVars
    <2>3. ExactOK' /\ HoldsShrink /\ nodes' = nodes
      BY <1>2, <2>2, DropHoldExact DEF RollbackAssumedSlice
    <2>4. QED BY <1>1, <1>2, <2>2, <2>3, ExactFrame
  <1>8. CASE Environment
    <2>1. CASE Failover
      <3>1. NewVRAMCache' /\ cycle' = Idle /\ deletedEvt' = {}
        BY <2>1 DEF Failover, NewVRAMCache
      <3>2. ExactOK'
        BY <3>1, ColdExact, PTL
      <3>3. QED BY <1>1, <3>1, <3>2 DEF ExactInv, CycleHold, Idle, Placed
    <2>2. CASE Environment /\ ~ Failover
      <3>1. UNCHANGED <<cacheVars, cycle, deletedEvt>>
        BY <2>2 DEF Environment, CreateSlice, MovePhase, RemoveSlice, Observe, NodeJoin,
                    NodeLeave, NodeFlip, NoNodeLoss, processVars, sliceVars
      <3>2. QED BY <1>1, <1>2, <3>1, SameCacheExact, ExactFrame
    <2>3. QED BY <1>8, <2>1, <2>2
  <1>9. CASE UNCHANGED vars
    <2>1. UNCHANGED <<cacheVars, cycle, deletedEvt>>
      BY <1>9 DEF vars, apiVars, sliceVars
    <2>2. QED BY <1>1, <1>2, <2>1, SameCacheExact, ExactFrame
  <1>10. QED BY <1>3, <1>4, <1>5, <1>6, <1>7, <1>8, <1>9 DEF Next

LEMMA ExactInit == Init => ExactInv
  <1>1. Init => TypeOK
    BY HoldInvInit DEF HoldInv
  <1>2. QED BY <1>1, ColdExact DEF Init, ColdStart, ExactInv, CycleHold, Idle, Placed

(* While no node is lost, the reserved counter of every node is exactly the  *)
(* sum of the holds on it: no path of reserve, re-arm, confirm, promote,     *)
(* rollback, reap, forget, seed and take-over charges a hold twice, gives it *)
(* back twice, or skips one of the two. Reads are current, or there is one   *)
(* node: with a lagging informer and two nodes a promotion can give a hold   *)
(* back on another node than it was taken on.                                *)
THEOREM ReservationsAreExact ==
    NoNodeLoss /\ (NoLag \/ OneNode) => (Spec => []ReservationsExact)
  <1> SUFFICES ASSUME NoNodeLoss, NoLag \/ OneNode PROVE Spec => []ReservationsExact
    OBVIOUS
  <1>1. Init => ExactInv
    BY ExactInit
  <1>2. ExactInv => ReservationsExact
    BY DEF ExactInv, ExactOK
  <1>3. CASE OneNode
    <2>1. ExactInv /\ [Next]_vars => ExactInv'
      BY <1>3, ExactNext
    <2>2. QED BY <1>1, <1>2, <2>1, PTL DEF Spec
  <1>4. CASE NoLag
    <2>1. ExactInv /\ HoldInv /\ [Next]_vars => ExactInv'
      BY ExactNext
    <2>2. Spec => []HoldInv
      BY <1>4, HoldInvariant
    <2>3. QED BY <1>1, <1>2, <2>1, <2>2, PTL DEF Spec
  <1>5. QED BY <1>3, <1>4

-----------------------------------------------------------------------------
(* What is bound is charged.                                               *)

NoTakeOver == "failover" \notin Faults

(* No name is used a second time. *)
UniqueNames == \A s, t \in Slice : NameOf[s] = NameOf[t] => s = t

Occupying == {"Scheduled", "Ready", "Preempting", "Releasing"}
Finished == {"Failed", "Released", "Gone"}

(* A bound slice is charged where it is bound from its Confirm until it no   *)
(* longer occupies the node, whether the warm-up gate is open or not.        *)
ChargedWhereBound ==
    \A s \in Slice : nodeName[s] # NoNode /\ phase[s] \in Occupying =>
        \/ nodeName[s] \in {confirmedBySlice[s], allocatedNodeBySlice[s]}
        \/ cycle = [step |-> "confirm", s |-> s, n |-> nodeName[s]]

(* Only of a slice that is finished does a pending call take the charge. *)
FinishedCall ==
    {c \in Call : c.op \in {"unconfirm", "release", "fail"} => phase[c.s] \in Finished}
CallsForFinished == \A g \in Caller : calls[g] \in Seq(FinishedCall)

(* The object of a cycle stays Pending until the status patch of its bind. *)
CyclePending ==
    cycle.step \in {"schedule", "reserve", "gate", "pin", "bindSpec", "bindStatus"} =>
        phase[cycle.s] \in {"Pending", "Gone"}

(* What the process remembers of a slice is of one that exists, or did. *)
TrackedSane ==
    \A nm \in Name : tracked[nm].uid # NoSlice =>
        phase[tracked[nm].uid] # "Absent" /\ NameOf[tracked[nm].uid] = nm
HeldExist ==
    \A s \in Slice : phase[s] = "Absent" =>
        {assumedBySlice[s], confirmedBySlice[s], allocatedNodeBySlice[s]} = {NoNode}
JanitorSane ==
    \A p \in jset : phase[p[1]] # "Absent" /\ (jpc = "sweep" => phase[p[1]] = "Gone")

ChargeInv ==
    /\ ChargedWhereBound /\ CallsForFinished /\ CyclePending /\ TrackedSane
    /\ HeldExist /\ JanitorSane /\ deletedEvt = {}

-----------------------------------------------------------------------------

(* No object comes to life a second time or starts to occupy its node. *)
PhasesSettle ==
    \A s \in Slice : /\ phase[s] \in Finished => phase'[s] \in Finished
                     /\ phase[s] = "Gone" => phase'[s] = "Gone"
                     /\ phase[s] # "Absent" => phase'[s] # "Absent"
                     /\ phase'[s] = "Absent" => phase[s] = "Absent"

NoneOccupies == \A s \in Slice : phase'[s] \in Occupying => phase[s] \in Occupying

(* No slice that occupies its node loses the charge, none is charged before *)
(* it exists.                                                                *)
ChargesKept ==
    /\ \A s \in Slice : phase'[s] \in Occupying =>
          /\ confirmedBySlice'[s] = confirmedBySlice[s] \/ allocatedNodeBySlice'[s] = nodeName[s]
          /\ allocatedNodeBySlice'[s] \in {allocatedNodeBySlice[s], nodeName[s]}
    /\ \A s \in Slice : phase[s] = "Absent" =>
          /\ assumedBySlice'[s] \in {assumedBySlice[s], NoNode}
          /\ confirmedBySlice'[s] \in {confirmedBySlice[s], NoNode}
          /\ allocatedNodeBySlice'[s] \in {allocatedNodeBySlice[s], NoNode}

SameMaps == UNCHANGED <<assumedBySlice, confirmedBySlice, allocatedNodeBySlice>>

LEMMA SameCharges ==
    ASSUME SameMaps PROVE ChargesKept
  BY DEF SameMaps, ChargesKept

LEMMA ChargedFrame ==
    ASSUME ChargeInv, NoneOccupies, ChargesKept, UNCHANGED nodeName,
           cycle' = cycle \/ cycle.step # "confirm"
    PROVE  ChargedWhereBound'
  <1> SUFFICES ASSUME NEW s \in Slice, nodeName'[s] # NoNode, phase'[s] \in Occupying
               PROVE  \/ nodeName'[s] \in {confirmedBySlice'[s], allocatedNodeBySlice'[s]}
                      \/ cycle' = [step |-> "confirm", s |-> s, n |-> nodeName'[s]]
    BY DEF ChargedWhereBound
  <1>1. \/ nodeName[s] \in {confirmedBySlice[s], allocatedNodeBySlice[s]}
        \/ cycle = [step |-> "confirm", s |-> s, n |-> nodeName[s]]
    BY DEF ChargeInv, ChargedWhereBound, NoneOccupies
  <1>2. cycle = [step |-> "confirm", s |-> s, n |-> nodeName[s]] => cycle' = cycle
    OBVIOUS
  <1>3. /\ confirmedBySlice'[s] = confirmedBySlice[s] \/ allocatedNodeBySlice'[s] = nodeName[s]
        /\ allocatedNodeBySlice'[s] \in {allocatedNodeBySlice[s], nodeName[s]}
    BY DEF ChargesKept
  <1>4. QED BY <1>1, <1>2, <1>3

LEMMA FinishedGrow ==
    ASSUME PhasesSettle PROVE \A q \in Seq(FinishedCall) : q \in Seq(FinishedCall')
  <1>1. FinishedCall \subseteq FinishedCall'
    BY DEF FinishedCall, PhasesSettle, Call
  <1>2. QED BY <1>1

LEMMA HeldFrame ==
    ASSUME ChargeInv, PhasesSettle, ChargesKept PROVE HeldExist'
  BY DEF ChargeInv, PhasesSettle, ChargesKept, HeldExist

LEMMA TrackedFrame ==
    ASSUME HoldInv, ChargeInv, PhasesSettle, UNCHANGED tracked PROVE TrackedSane'
  BY HoldsOfInv DEF ChargeInv, PhasesSettle, TrackedSane, ProcessTypeOK

LEMMA JanitorFrame ==
    ASSUME HoldInv, ChargeInv, PhasesSettle, jset' \subseteq jset, UNCHANGED jpc
    PROVE  JanitorSane'
  BY HoldsOfInv DEF ChargeInv, PhasesSettle, JanitorSane, ProcessTypeOK

(* The cycle stays or ends, and its object is not moved. *)
LEMMA PendingFrame ==
    ASSUME HoldInv, ChargeInv,
           \/ cycle' = Idle
           \/ /\ cycle' = cycle
              /\ \A s \in Slice : phase[s] \in {"Pending", "Gone"} =>
                                     phase'[s] \in {"Pending", "Gone"}
    PROVE  CyclePending'
  <1>1. cycle.step \in {"schedule", "reserve", "gate", "pin", "bindSpec", "bindStatus"}
            => cycle.s \in Slice
    BY CycleShape DEF Placed
  <1>2. QED BY <1>1 DEF ChargeInv, CyclePending, Idle

(* Everything of the invariant but the pending calls. *)
ChargeRest ==
    ChargedWhereBound /\ CyclePending /\ TrackedSane /\ HeldExist /\ JanitorSane /\ deletedEvt = {}

(* A step of another actor than the cycle's own, in all but the calls. *)
LEMMA QuietRest ==
    ASSUME HoldInv, ChargeInv, PhasesSettle, NoneOccupies, ChargesKept,
           \A s \in Slice : phase[s] \in {"Pending", "Gone"} => phase'[s] \in {"Pending", "Gone"},
           UNCHANGED <<nodeName, cycle, tracked, jpc>>, jset' \subseteq jset, deletedEvt' = {}
    PROVE  ChargeRest'
  <1>1. ChargedWhereBound'
    BY ChargedFrame
  <1>2. CyclePending'
    BY PendingFrame
  <1>3. TrackedSane' /\ HeldExist' /\ JanitorSane'
    BY TrackedFrame, HeldFrame, JanitorFrame
  <1>4. QED BY <1>1, <1>2, <1>3 DEF ChargeRest

LEMMA QuietCharge ==
    ASSUME HoldInv, ChargeInv, PhasesSettle, NoneOccupies, ChargesKept,
           \A s \in Slice : phase[s] \in {"Pending", "Gone"} => phase'[s] \in {"Pending", "Gone"},
           UNCHANGED <<nodeName, cycle, tracked, jpc, calls>>, jset' \subseteq jset,
           deletedEvt' = {}
    PROVE  ChargeInv'
  <1>1. ChargeRest'
    BY QuietRest
  <1>2. CallsForFinished'
    BY FinishedGrow DEF ChargeInv, CallsForFinished
  <1>3. QED BY <1>1, <1>2 DEF ChargeInv, ChargeRest

(* Objects that stay as they are. *)
LEMMA SamePhases ==
    ASSUME UNCHANGED phase
    PROVE  /\ PhasesSettle /\ NoneOccupies
           /\ \A s \in Slice : phase[s] \in {"Pending", "Gone"} => phase'[s] \in {"Pending", "Gone"}
  BY DEF PhasesSettle, NoneOccupies

(* A promotion leaves the slice allocated where it is bound, or as it was. *)
LEMMA PromotionKeeps ==
    ASSUME HoldInv, NEW s \in Slice, NEW n \in Node, nodeName[s] = n, UNCHANGED phase,
           PromoteSliceToAllocatedOnce(s, n)
    PROVE  ChargesKept
  <1>1. phase[s] # "Absent"
    BY HoldsOfInv, NodeAssumption DEF ObjectsSane
  <1>2. allocatedNodeBySlice \in [Slice -> Place] /\ confirmedBySlice \in [Slice -> Place]
    BY HoldsOfInv DEF HoldsOK, CacheTypeOK
  <1>3. CASE syncedPhaseBySlice[s] = "Ready"
    BY <1>3, SameCharges DEF PromoteSliceToAllocatedOnce, cacheVars, SameMaps
  <1>4. CASE syncedPhaseBySlice[s] # "Ready"
    <2>1. /\ allocatedNodeBySlice' = [allocatedNodeBySlice EXCEPT ![s] = n]
          /\ confirmedBySlice' \in {confirmedBySlice, [confirmedBySlice EXCEPT ![s] = NoNode]}
          /\ assumedBySlice' = assumedBySlice
      BY <1>4 DEF PromoteSliceToAllocatedOnce, promoteConfirmedToAllocatedLocked
    <2>2. \A t \in Slice \ {s} : /\ allocatedNodeBySlice'[t] = allocatedNodeBySlice[t]
                                 /\ confirmedBySlice'[t] = confirmedBySlice[t]
      BY <1>2, <2>1
    <2>3. allocatedNodeBySlice'[s] = nodeName[s]
      BY <1>2, <2>1
    <2>4. QED BY <1>1, <2>1, <2>2, <2>3 DEF ChargesKept
  <1>5. QED BY <1>3, <1>4

(* A call that takes a charge takes it from a slice that is finished. *)
LEMMA CallKeeps ==
    ASSUME HoldInv, UNCHANGED phase, NEW c \in FinishedCall, c \in BoundCall,
           \/ c.op = "rollback"   /\ RollbackAssumedSlice(c.s)
           \/ c.op = "unconfirm"  /\ ReleaseConfirmedSlice(c.s)
           \/ c.op = "release"    /\ ReleaseSliceOnce(c.s)
           \/ c.op = "fail"       /\ FailSliceOnce(c.s)
           \/ c.op = "unallocate" /\ ReleaseAllocated(c.n, c.s)
           \/ c.op = "untomb"     /\ DropTombstone(c.s)
           \/ c.op = "promote"    /\ PromoteSliceToAllocatedOnce(c.s, c.n)
    PROVE  ChargesKept
  <1>1. c.s \in Slice
    BY DEF BoundCall, Call
  <1>2. /\ assumedBySlice \in [Slice -> Place] /\ confirmedBySlice \in [Slice -> Place]
        /\ allocatedNodeBySlice \in [Slice -> Place]
    BY HoldsOfInv DEF HoldsOK, CacheTypeOK
  <1>3. CASE RollbackAssumedSlice(c.s)
    BY <1>1, <1>2, <1>3 DEF RollbackAssumedSlice, ChargesKept
  <1>4. CASE ReleaseAllocated(c.n, c.s) \/ DropTombstone(c.s)
    BY <1>4, SameCharges DEF ReleaseAllocated, DropTombstone, SameMaps
  <1>5. CASE c.op = "promote" /\ PromoteSliceToAllocatedOnce(c.s, c.n)
    BY <1>1, <1>5, PromotionKeeps DEF BoundCall
  <1>6. CASE /\ c.op \in {"unconfirm", "release", "fail"}
             /\ ReleaseConfirmedSlice(c.s) \/ ReleaseSliceOnce(c.s) \/ FailSliceOnce(c.s)
    <2>1. phase'[c.s] \notin Occupying
      BY <1>6 DEF FinishedCall, Finished, Occupying
    <2>2. /\ assumedBySlice' = assumedBySlice
          /\ confirmedBySlice' \in {confirmedBySlice, [confirmedBySlice EXCEPT ![c.s] = NoNode]}
          /\ allocatedNodeBySlice' \in
                 {allocatedNodeBySlice, [allocatedNodeBySlice EXCEPT ![c.s] = NoNode]}
      BY <1>6 DEF ReleaseConfirmedSlice, ReleaseSliceOnce, FailSliceOnce, cacheVars
    <2>3. \A t \in Slice \ {c.s} : /\ allocatedNodeBySlice'[t] = allocatedNodeBySlice[t]
                                   /\ confirmedBySlice'[t] = confirmedBySlice[t]
      BY <1>2, <2>2
    <2>4. /\ confirmedBySlice'[c.s] \in {confirmedBySlice[c.s], NoNode}
          /\ allocatedNodeBySlice'[c.s] \in {allocatedNodeBySlice[c.s], NoNode}
      BY <1>1, <1>2, <2>2
    <2>5. QED BY <2>1, <2>2, <2>3, <2>4 DEF ChargesKept
  <1>7. QED BY <1>3, <1>4, <1>5, <1>6

LEMMA PlainFinished ==
    ASSUME NEW op \in Ops, NEW s \in Slice, NEW n \in Place,
           op \in {"unconfirm", "release", "fail"} => phase[s] \in Finished
    PROVE  call(op, s, n) \in FinishedCall
  BY DEF call, FinishedCall, Call

LEMMA ContinuationFinished ==
    ASSUME NEW c \in FinishedCall PROVE Continuation(c) \in Seq(FinishedCall)
  <1>1. c.s \in Slice /\ c.n \in Place /\ NoNode \in Place
    BY DEF FinishedCall, Call, Place
  <1>2. /\ call("unallocate", c.s, c.n) \in FinishedCall
        /\ c.op = "fail" => call("unconfirm", c.s, NoNode) \in FinishedCall
    BY <1>1, PlainFinished DEF Ops, FinishedCall
  <1>3. /\ <<call("unallocate", c.s, c.n)>> \in Seq(FinishedCall)
        /\ <<>> \in Seq(FinishedCall)
        /\ c.op = "fail" => <<call("unconfirm", c.s, NoNode)>> \in Seq(FinishedCall)
    BY <1>2
  <1>4. CASE c.op = "fail" /\ FailApplies(c.s)
    <2>1. Continuation(c) =
             (IF Allocated(c.s) THEN <<call("unallocate", c.s, c.n)>> ELSE <<>>)
             \o <<call("unconfirm", c.s, NoNode)>>
      BY <1>4 DEF Continuation
    <2>2. QED BY <1>3, <1>4, <2>1, CallSequences
  <1>5. CASE ~ (c.op = "fail" /\ FailApplies(c.s))
    BY <1>3, <1>5 DEF Continuation
  <1>6. QED BY <1>4, <1>5

(* ForgetSlice of a slice whose object is gone. *)
LEMMA ForgetFinished ==
    ASSUME NEW s \in Slice, NEW n \in Place, phase[s] = "Gone"
    PROVE  ForgetSlice(s, n) \in Seq(FinishedCall)
  <1>1. /\ call("rollback", s, NoNode) \in FinishedCall
        /\ call("unconfirm", s, NoNode) \in FinishedCall
        /\ call("release", s, n) \in FinishedCall
        /\ call("untomb", s, NoNode) \in FinishedCall
    BY PlainFinished DEF Ops, Place, Finished
  <1>2. /\ <<call("rollback", s, NoNode), call("unconfirm", s, NoNode)>> \in Seq(FinishedCall)
        /\ <<call("release", s, n)>> \in Seq(FinishedCall)
        /\ <<call("untomb", s, NoNode)>> \in Seq(FinishedCall)
        /\ <<>> \in Seq(FinishedCall)
    BY <1>1
  <1>3. QED BY <1>2, CallSequences DEF ForgetSlice

LEMMA SyncFinished ==
    ASSUME NEW s \in Slice, NEW n \in Place
    PROVE  SyncCacheFromSlice(s, n, phase[s]) \in Seq(FinishedCall)
  <1>1. /\ call("promote", s, n) \in FinishedCall
        /\ phase[s] = "Released" => call("release", s, n) \in FinishedCall
        /\ phase[s] = "Failed" => call("fail", s, n) \in FinishedCall
    BY PlainFinished DEF Ops, Finished
  <1>2. /\ <<call("promote", s, n)>> \in Seq(FinishedCall)
        /\ phase[s] = "Released" => <<call("release", s, n)>> \in Seq(FinishedCall)
        /\ phase[s] = "Failed" => <<call("fail", s, n)>> \in Seq(FinishedCall)
        /\ <<>> \in Seq(FinishedCall)
    BY <1>1
  <1>3. QED BY <1>2 DEF SyncCacheFromSlice

(* New calls for one goroutine, while the objects stay as they are. *)
LEMMA NewFinished ==
    ASSUME HoldInv, ChargeInv, UNCHANGED phase, NEW g \in Caller, NEW q \in Seq(FinishedCall),
           calls' = [calls EXCEPT ![g] = q]
    PROVE  CallsForFinished'
  <1>1. FinishedCall' = FinishedCall
    BY DEF FinishedCall
  <1>2. calls \in [Caller -> Seq(Call)]
    BY HoldsOfInv DEF ProcessTypeOK
  <1>3. QED BY <1>1, <1>2 DEF ChargeInv, CallsForFinished

LEMMA CacheCallCharge ==
    ASSUME HoldInv, ChargeInv, NEW g \in Caller, CacheCall(g) PROVE ChargeInv'
  <1> DEFINE c == Head(calls[g])
  <1>1. /\ calls[g] \in Seq(FinishedCall) /\ calls[g] \in Seq(BoundCall) /\ calls[g] # <<>>
    BY HoldsOfInv DEF ChargeInv, CallsForFinished, PromotionsWhereBound, CacheCall
  <1>2. c \in FinishedCall /\ c \in BoundCall /\ Tail(calls[g]) \in Seq(FinishedCall)
    BY <1>1, CallSequences
  <1>3. /\ UNCHANGED <<phase, nodeName, cycle, tracked, jpc, jset, deletedEvt>>
        /\ calls' = [calls EXCEPT ![g] = Continuation(c) \o Tail(calls[g])]
        /\ \/ c.op = "rollback"   /\ RollbackAssumedSlice(c.s)
           \/ c.op = "unconfirm"  /\ ReleaseConfirmedSlice(c.s)
           \/ c.op = "release"    /\ ReleaseSliceOnce(c.s)
           \/ c.op = "fail"       /\ FailSliceOnce(c.s)
           \/ c.op = "unallocate" /\ ReleaseAllocated(c.n, c.s)
           \/ c.op = "untomb"     /\ DropTombstone(c.s)
           \/ c.op = "promote"    /\ PromoteSliceToAllocatedOnce(c.s, c.n)
    BY DEF CacheCall, apiVars, sliceVars, janVars
  <1> HIDE DEF c
  <1>4. ChargesKept
    BY <1>2, <1>3, CallKeeps
  <1>5. Continuation(c) \o Tail(calls[g]) \in Seq(FinishedCall)
    BY <1>2, ContinuationFinished, CallSequences
  <1>6. CallsForFinished'
    BY <1>3, <1>5, NewFinished
  <1>7. ChargeRest'
    BY <1>3, <1>4, SamePhases, QuietRest DEF ChargeInv
  <1>8. QED BY <1>6, <1>7 DEF ChargeInv, ChargeRest

LEMMA ReconcileCharge ==
    ASSUME HoldInv, NoLag, ChargeInv,
           \/ \E nm \in Name : ReconcileGone(nm)
           \/ \E s \in Slice : ReconcileSlice(s)
    PROVE  ChargeInv'
  <1>1. UNCHANGED <<cacheVars, phase, nodeName, deletedEvt, jpc, jset>>
    BY DEF ReconcileGone, ReconcileSlice, apiVars, janVars
  <1>2. PhasesSettle /\ NoneOccupies /\ ChargesKept
    BY <1>1, SamePhases, SameCharges DEF cacheVars, SameMaps
  <1>3. HeldExist' /\ JanitorSane'
    BY <1>1, <1>2, HeldFrame, JanitorFrame
  <1>4. CASE \E nm \in Name : ReconcileGone(nm)
    <2>1. PICK nm \in Name : ReconcileGone(nm)
      BY <1>4
    <2>2. /\ UNCHANGED cycle /\ SeenNamed(nm) = {}
          /\ tracked' = [tracked EXCEPT ![nm] = NotTracked]
          /\ calls' = [calls EXCEPT !["reconciler"] =
                          ForgetSlice(tracked[nm].uid, tracked[nm].node)]
          /\ tracked[nm].uid # NoSlice
      BY <2>1 DEF ReconcileGone
    <2>3. tracked[nm].uid \in Slice /\ tracked[nm].node \in Place
      BY <2>2, HoldsOfInv DEF ProcessTypeOK
    <2>4. phase[tracked[nm].uid] = "Gone"
      BY <2>2, <2>3, CurrentView DEF SeenNamed, ChargeInv, TrackedSane, Live
    <2>5. CallsForFinished'
      BY <1>1, <2>2, <2>3, <2>4, ForgetFinished, NewFinished DEF Caller
    <2>6. TrackedSane'
      BY <1>1, <2>2, HoldsOfInv DEF ChargeInv, TrackedSane, ProcessTypeOK, NotTracked
    <2>7. ChargedWhereBound' /\ CyclePending'
      BY <1>1, <1>2, <2>2, ChargedFrame, PendingFrame
    <2>8. QED BY <1>1, <1>3, <2>5, <2>6, <2>7 DEF ChargeInv
  <1>5. CASE \E s \in Slice : ReconcileSlice(s)
    <2>1. PICK s \in Slice : ReconcileSlice(s)
      BY <1>5
    <2> DEFINE old == tracked[NameOf[s]]
               forget == IF Replaced(s) THEN ForgetSlice(old.uid, old.node) ELSE <<>>
               sync == SyncCacheFromSlice(s, nodeName[s], phase[s])
    <2>2. /\ Live(s) /\ cycle.step = "idle"
          /\ tracked' = [tracked EXCEPT ![NameOf[s]] = [uid |-> s, node |-> nodeName[s]]]
          /\ calls' = [calls EXCEPT !["reconciler"] = forget \o sync]
          /\ cycle' = IF phase[s] = "Pending" /\ nodeName[s] = NoNode
                        THEN [step |-> "schedule", s |-> s, n |-> NoNode] ELSE Idle
      BY <2>1, CurrentView DEF ReconcileSlice, Reconciling
    <2>3. /\ NameOf[s] \in Name /\ old.uid \in Slice \cup {NoSlice} /\ old.node \in Place
          /\ nodeName[s] \in Place
      BY HoldsOfInv, SchedulerAssumption DEF ProcessTypeOK
    <2>4. Replaced(s) => old.uid \in Slice /\ phase[old.uid] = "Gone"
      <3>1. SUFFICES ASSUME Replaced(s) PROVE old.uid \in Slice /\ phase[old.uid] = "Gone"
        OBVIOUS
      <3>2. old.uid \in Slice /\ old.uid # s
        BY <2>3, <3>1 DEF Replaced
      <3>3. phase[old.uid] # "Absent" /\ NameOf[old.uid] = NameOf[s]
        BY <2>3, <3>2, SchedulerAssumption DEF ChargeInv, TrackedSane
      <3>4. ~ Live(old.uid)
        BY <2>2, <3>2, <3>3, HoldsOfInv DEF ObjectsSane
      <3>5. QED BY <3>2, <3>3, <3>4 DEF Live
    <2>5. forget \in Seq(FinishedCall) /\ sync \in Seq(FinishedCall)
      BY <2>3, <2>4, ForgetFinished, SyncFinished, CallSequences
    <2> HIDE DEF forget, sync
    <2>6. CallsForFinished'
      BY <1>1, <2>2, <2>5, NewFinished, CallSequences DEF Caller
    <2>7. TrackedSane'
      BY <1>1, <2>2, <2>3, HoldsOfInv DEF ChargeInv, TrackedSane, ProcessTypeOK, Live
    <2>8. ChargedWhereBound'
      BY <1>1, <1>2, <2>2, ChargedFrame
    <2>9. CyclePending'
      BY <1>1, <2>2 DEF CyclePending, Idle
    <2>10. QED BY <1>1, <1>3, <2>6, <2>7, <2>8, <2>9 DEF ChargeInv
  <1>6. QED BY <1>4, <1>5

(* What a step of the cycle has to show besides the charges. *)
LEMMA CycleCharge ==
    ASSUME HoldInv, ChargeInv, PhasesSettle, ChargedWhereBound', CyclePending', ChargesKept,
           UNCHANGED <<tracked, jpc, jset, deletedEvt>>,
           UNCHANGED calls \/ (AbandonCycle /\ cycle.s \in Slice /\ UNCHANGED phase)
    PROVE  ChargeInv'
  <1>1. TrackedSane' /\ HeldExist' /\ JanitorSane'
    BY TrackedFrame, HeldFrame, JanitorFrame
  <1>2. CASE UNCHANGED calls
    <2>1. CallsForFinished'
      BY <1>2, FinishedGrow DEF ChargeInv, CallsForFinished
    <2>2. QED BY <1>1, <2>1 DEF ChargeInv
  <1>3. CASE AbandonCycle /\ cycle.s \in Slice /\ UNCHANGED phase
    <2>1. call("rollback", cycle.s, NoNode) \in FinishedCall
      BY <1>3, PlainFinished DEF Ops, Place
    <2>2. <<call("rollback", cycle.s, NoNode)>> \in Seq(FinishedCall)
      BY <2>1
    <2>3. CallsForFinished'
      BY <1>3, <2>2, NewFinished DEF AbandonCycle, Caller
    <2>4. QED BY <1>1, <2>3 DEF ChargeInv
  <1>4. QED BY <1>2, <1>3

LEMMA CycleStartCharge ==
    ASSUME HoldInv, ChargeInv, FailOrphan \/ ScheduleStart \/ Reserve \/ Gate \/ Pin
    PROVE  ChargeInv'
  <1>1. UNCHANGED <<nodeName, tracked, jpc, jset, deletedEvt>>
    BY DEF FailOrphan, ScheduleStart, Reserve, Gate, Pin, apiVars, janVars
  <1>2. /\ cycle.step \in {"schedule", "reserve", "gate", "pin"} /\ cycle.s \in Slice
        /\ cycle.step # "confirm"
    BY CycleShape DEF FailOrphan, ScheduleStart, Reserve, Gate, Pin, Reconciling, Placed
  <1>3. ChargesKept
    <2>1. CASE Reserve /\ AssumeSlice(cycle.s, cycle.n)
      <3>1. phase[cycle.s] # "Absent"
        BY <1>2 DEF ChargeInv, CyclePending
      <3>2. /\ assumedBySlice' = [assumedBySlice EXCEPT ![cycle.s] = cycle.n]
            /\ UNCHANGED <<confirmedBySlice, allocatedNodeBySlice>>
        BY <2>1 DEF AssumeSlice
      <3>3. assumedBySlice \in [Slice -> Place]
        BY HoldsOfInv DEF HoldsOK, CacheTypeOK
      <3>4. QED BY <3>1, <3>2, <3>3 DEF ChargesKept
    <2>2. CASE ~ (Reserve /\ AssumeSlice(cycle.s, cycle.n))
      <3>1. SameMaps
        BY <2>2 DEF FailOrphan, ScheduleStart, Reserve, Gate, Pin, cacheVars, SameMaps
      <3>2. QED BY <3>1, SameCharges
    <2>3. QED BY <2>1, <2>2
  <1>4. CASE FailOrphan
    <2>1. phase' = [phase EXCEPT ![cycle.s] = "Failed"] /\ phase[cycle.s] = "Pending"
          /\ cycle' = Idle /\ UNCHANGED calls
      BY <1>4 DEF FailOrphan
    <2>2. PhasesSettle /\ NoneOccupies
      BY <1>2, <2>1, HoldsOfInv DEF PhasesSettle, NoneOccupies, ProcessTypeOK, Finished, Occupying
    <2>3. ChargedWhereBound' /\ CyclePending'
      BY <1>1, <1>2, <1>3, <2>1, <2>2, ChargedFrame, PendingFrame
    <2>4. QED BY <1>1, <1>3, <2>1, <2>2, <2>3, CycleCharge
  <1>5. CASE ScheduleStart \/ Reserve \/ Gate \/ Pin
    <2>1. UNCHANGED phase
      BY <1>5 DEF ScheduleStart, Reserve, Gate, Pin, apiVars
    <2>2. PhasesSettle /\ NoneOccupies
      BY <2>1, SamePhases
    <2>3. ChargedWhereBound'
      BY <1>1, <1>2, <1>3, <2>2, ChargedFrame
    <2>4. cycle' = Idle \/ cycle'.s = cycle.s
      <3>1. CASE ScheduleStart
        BY <3>1 DEF ScheduleStart
      <3>2. CASE Reserve \/ Gate \/ Pin
        <4>1. cycle.step \in Placed
          BY <3>2 DEF Reserve, Gate, Pin, Reconciling, Placed
        <4>2. QED BY <3>2, <4>1, CycleShape DEF Reserve, Gate, Pin, Advance, AbandonCycle, Placed
      <3>3. QED BY <1>5, <3>1, <3>2
    <2>5. CyclePending'
      BY <1>2, <2>1, <2>4 DEF ChargeInv, CyclePending, Idle
    <2>6. UNCHANGED calls \/ AbandonCycle
      BY <1>5 DEF ScheduleStart, Reserve, Gate, Pin
    <2>7. QED BY <1>1, <1>2, <1>3, <2>1, <2>2, <2>3, <2>5, <2>6, CycleCharge
  <1>6. QED BY <1>4, <1>5

(* The two bind calls: the object that has the name is the cycle's own, it   *)
(* is still Pending, and it is about to be confirmed where it is bound.      *)
LEMMA BindCharge ==
    ASSUME HoldInv, ChargeInv, UniqueNames, BindSpec \/ BindStatus
    PROVE  ChargeInv'
  <1>1. UNCHANGED <<cacheVars, tracked, jpc, jset, deletedEvt>>
    BY DEF BindSpec, BindStatus, janVars
  <1>2. /\ cycle.step \in {"bindSpec", "bindStatus"} /\ cycle.step \in Placed
        /\ cycle.s \in Slice /\ cycle.n \in Node
        /\ cycle # Idle /\ CycleOwnsBind
    BY CycleShape DEF BindSpec, BindStatus, Reconciling, HoldInv, Placed
  <1>3. ChargesKept
    BY <1>1, SameCharges DEF cacheVars, SameMaps
  <1>4. \A t \in Target : t = cycle.s /\ phase[t] = "Pending" /\ Live(t)
    BY <1>2 DEF Target, Named, UniqueNames, ChargeInv, CyclePending, Live
  <1>5. CASE AbandonCycle /\ UNCHANGED <<phase, nodeName>>
    <2>1. PhasesSettle /\ NoneOccupies
      BY <1>5, SamePhases
    <2>2. ChargedWhereBound' /\ CyclePending'
      BY <1>2, <1>3, <1>5, <2>1, ChargedFrame, PendingFrame DEF AbandonCycle
    <2>3. QED BY <1>1, <1>2, <1>3, <1>5, <2>1, <2>2, CycleCharge
  <1>6. CASE /\ cycle.step = "bindSpec" /\ UNCHANGED <<phase, calls>> /\ Advance("bindStatus")
             /\ \E t \in Target : nodeName' = [nodeName EXCEPT ![t] = cycle.n]
    <2>1. PhasesSettle
      BY <1>6, SamePhases
    <2>2. cycle'.step = "bindStatus" /\ cycle'.s = cycle.s
      BY <1>2, <1>6, CycleShape DEF Advance, Placed
    <2>3. CyclePending'
      BY <1>6, <2>2 DEF ChargeInv, CyclePending
    <2>4. ChargedWhereBound'
      <3>1. nodeName \in [Slice -> Place]
        BY HoldsOfInv DEF ProcessTypeOK
      <3>2. \A s \in Slice : phase'[s] \in Occupying =>
               phase[s] \in Occupying /\ nodeName'[s] = nodeName[s]
        BY <1>4, <1>6, <3>1 DEF Occupying
      <3>3. UNCHANGED <<confirmedBySlice, allocatedNodeBySlice>>
        BY <1>1 DEF cacheVars
      <3>4. QED BY <1>6, <3>2, <3>3 DEF ChargeInv, ChargedWhereBound
    <2>5. QED BY <1>1, <1>3, <1>6, <2>1, <2>3, <2>4, CycleCharge
  <1>7. CASE /\ cycle.step = "bindStatus" /\ UNCHANGED <<nodeName, calls>> /\ Advance("confirm")
             /\ \E t \in Target : phase' = [phase EXCEPT ![t] = "Scheduled"]
    <2>1. phase \in [Slice -> Phases]
      BY HoldsOfInv DEF ProcessTypeOK
    <2>2. /\ phase' = [phase EXCEPT ![cycle.s] = "Scheduled"] /\ phase[cycle.s] = "Pending"
      BY <1>4, <1>7
    <2>3. PhasesSettle
      BY <1>2, <2>1, <2>2 DEF PhasesSettle, Finished
    <2>4. cycle'.step = "confirm"
      BY <1>2, <1>7, CycleShape DEF Advance, Placed
    <2>5. CyclePending'
      BY <2>4 DEF CyclePending
    <2>6. ChargedWhereBound'
      <3>1. nodeName[cycle.s] = cycle.n
        BY <1>2, <1>7, <2>2 DEF CycleOwnsBind
      <3>2. cycle' = [step |-> "confirm", s |-> cycle.s, n |-> cycle.n]
        <4>1. cycle \in [step : Placed, s : Slice, n : Node]
          BY <1>2, HoldsOfInv DEF ProcessTypeOK, Placed
        <4>2. QED BY <1>7, <4>1 DEF Advance
      <3>3. \A s \in Slice \ {cycle.s} : phase'[s] = phase[s]
        BY <2>1, <2>2
      <3>4. UNCHANGED <<confirmedBySlice, allocatedNodeBySlice>>
        BY <1>1 DEF cacheVars
      <3>5. \A s \in Slice : cycle # [step |-> "confirm", s |-> s, n |-> nodeName[s]]
        BY <1>7
      <3>6. QED BY <1>7, <3>1, <3>2, <3>3, <3>4, <3>5 DEF ChargeInv, ChargedWhereBound
    <2>7. QED BY <1>1, <1>3, <1>7, <2>3, <2>5, <2>6, CycleCharge
  <1>8. QED BY <1>5, <1>6, <1>7 DEF BindSpec, BindStatus, Reconciling

LEMMA ConfirmCharge ==
    ASSUME HoldInv, ChargeInv, Confirm PROVE ChargeInv'
  <1>1. UNCHANGED <<phase, nodeName, tracked, jpc, jset, deletedEvt, calls>>
    BY DEF Confirm, apiVars, janVars
  <1>2. /\ cycle.step = "confirm" /\ cycle.s \in Slice /\ cycle.n \in Node
        /\ cycle # Idle /\ CycleOwnsBind /\ cycle' = Idle
        /\ ConfirmSliceOrRearm(cycle.s, cycle.n)
    BY CycleShape DEF Confirm, Reconciling, HoldInv, Placed
  <1>3. /\ phase[cycle.s] # "Absent"
        /\ confirmedBySlice[cycle.s] = NoNode /\ assumedBySlice[cycle.s] \in {cycle.n, NoNode}
    BY <1>2 DEF CycleOwnsBind
  <1>4. /\ confirmedBySlice' = [confirmedBySlice EXCEPT ![cycle.s] = cycle.n]
        /\ Shrinks(assumedBySlice, assumedBySlice')
        /\ UNCHANGED allocatedNodeBySlice
    BY <1>2, <1>3, HoldsOfInv, ConfirmHolds DEF ConfirmSliceOrRearm
  <1>5. confirmedBySlice \in [Slice -> Place]
    BY HoldsOfInv DEF HoldsOK, CacheTypeOK
  <1>6. PhasesSettle
    BY <1>1, SamePhases
  <1>7. ChargedWhereBound'
    <2>1. confirmedBySlice'[cycle.s] = cycle.n
      BY <1>2, <1>4, <1>5
    <2>2. \A s \in Slice \ {cycle.s} : confirmedBySlice'[s] = confirmedBySlice[s]
      BY <1>4, <1>5
    <2>3. nodeName[cycle.s] \in {cycle.n, NoNode}
      BY <1>2 DEF CycleOwnsBind
    <2>4. QED BY <1>1, <1>4, <2>1, <2>2, <2>3 DEF ChargeInv, ChargedWhereBound
  <1>8. HeldExist'
    BY <1>1, <1>3, <1>4, <1>5 DEF ChargeInv, HeldExist, Shrinks
  <1>9. TrackedSane' /\ JanitorSane'
    BY <1>1, <1>6, TrackedFrame, JanitorFrame
  <1>10. CallsForFinished'
    BY <1>1, <1>6, FinishedGrow DEF ChargeInv, CallsForFinished
  <1>11. QED BY <1>1, <1>2, <1>7, <1>8, <1>9, <1>10, PendingFrame DEF ChargeInv

(* The steps that move neither the objects nor the three maps. *)
LEMMA SameMapsCharge ==
    ASSUME HoldInv, ChargeInv, SameMaps, UNCHANGED <<phase, nodeName, cycle, tracked, jpc, jset,
                                                     calls>>, deletedEvt' = {}
    PROVE  ChargeInv'
  BY SameCharges, SamePhases, QuietCharge

LEMMA NodeAndSeedCharge ==
    ASSUME HoldInv, ChargeInv, NodeReconciler \/ Seed PROVE ChargeInv'
  <1>1. UNCHANGED <<phase, nodeName, cycle, tracked, jpc, jset, calls>> /\ deletedEvt' = {}
    BY DEF NodeReconciler, ReconcileNodeGone, ReconcileNode, NodeUpdate, NodeList, Recharge,
           NodeWalked, NodeHealth, Seed, SeedListNodes, SeedRegister, SeedRegistered,
           SeedListSlices, SeedDone, apiVars, sliceVars, janVars, ChargeInv
  <1>2. CASE \E w \in Walker : Recharge(w)
    <2>1. PICK w \in Walker : Recharge(w)
      BY <1>2
    <2>2. PICK p \in walk[w] : PromoteSliceToAllocatedOnce(p[1], p[2])
      BY <2>1 DEF Recharge
    <2>3. p[1] \in Slice /\ p[2] \in Node /\ nodeName[p[1]] = p[2]
      BY HoldsOfInv DEF ProcessTypeOK, PromotionsWhereBound
    <2>4. ChargesKept
      BY <1>1, <2>2, <2>3, PromotionKeeps
    <2>5. QED BY <1>1, <2>4, SamePhases, QuietCharge
  <1>3. CASE ~ \E w \in Walker : Recharge(w)
    <2>1. SameMaps
      BY <1>3 DEF NodeReconciler, ReconcileNodeGone, ReconcileNode, NodeUpdate, NodeList,
           NodeWalked, NodeHealth, Seed, SeedListNodes, SeedRegister, SeedRegistered,
           SeedListSlices, SeedDone, UpdateNode, SetNodeHealth, MarkSeeded, cacheVars, SameMaps,
           ChargeInv, Walker
    <2>2. QED BY <1>1, <2>1, SameMapsCharge
  <1>4. QED BY <1>2, <1>3

LEMMA JanitorCharge ==
    ASSUME HoldInv, ChargeInv, Janitor PROVE ChargeInv'
  <1>1. CASE CacheCall("janitor")
    BY <1>1, CacheCallCharge DEF Caller
  <1>2. CASE JanitorSnapshot \/ JanitorList \/ JanitorForget \/ JanitorDone
    <2>1. UNCHANGED <<cacheVars, phase, nodeName, cycle, tracked, deletedEvt>>
      BY <1>2 DEF JanitorSnapshot, JanitorList, JanitorForget, JanitorDone, apiVars, sliceVars
    <2>2. PhasesSettle /\ ChargesKept /\ NoneOccupies
      BY <2>1, SamePhases, SameCharges DEF cacheVars, SameMaps
    <2>3. ChargedWhereBound' /\ CyclePending' /\ HeldExist' /\ TrackedSane'
      <3>1. ChargedWhereBound'
        BY <2>1, <2>2, ChargedFrame
      <3>2. CyclePending'
        BY <2>1, PendingFrame
      <3>3. QED BY <2>1, <2>2, <3>1, <3>2, HeldFrame, TrackedFrame
    <2>4. JanitorSane' /\ CallsForFinished'
      <3>1. CASE JanitorSnapshot
        <4>1. \A p \in jset' : p[1] \in Slice /\ TrackedNode(p[1]) # NoNode
          BY <3>1 DEF JanitorSnapshot, TrackedSliceUIDs
        <4>2. \A p \in jset' : phase[p[1]] # "Absent"
          BY <4>1 DEF ChargeInv, HeldExist, TrackedNode, Allocated
        <4>3. JanitorSane'
          BY <2>1, <3>1, <4>2 DEF JanitorSnapshot, JanitorSane
        <4>4. CallsForFinished'
          BY <2>2, <3>1, FinishedGrow DEF JanitorSnapshot, ChargeInv, CallsForFinished
        <4>5. QED BY <4>3, <4>4
      <3>2. CASE JanitorList
        <4>1. \A p \in jset' : phase[p[1]] # "Absent" /\ (jpc' = "sweep" => phase[p[1]] = "Gone")
          BY <3>2 DEF JanitorList, ChargeInv, JanitorSane, Live
        <4>2. JanitorSane'
          BY <2>1, <4>1 DEF JanitorSane
        <4>3. CallsForFinished'
          BY <2>2, <3>2, FinishedGrow DEF JanitorList, ChargeInv, CallsForFinished
        <4>4. QED BY <4>2, <4>3
      <3>3. CASE JanitorForget
        <4>1. PICK p \in jset :
                 /\ calls' = [calls EXCEPT !["janitor"] = ForgetSlice(p[1], p[2])]
                 /\ jset' = jset \ {p}
          BY <3>3 DEF JanitorForget
        <4>2. p[1] \in Slice /\ p[2] \in Place /\ phase[p[1]] = "Gone" /\ UNCHANGED jpc
          BY <3>3, HoldsOfInv DEF ProcessTypeOK, Place, ChargeInv, JanitorSane, JanitorForget
        <4>3. CallsForFinished'
          BY <2>1, <4>1, <4>2, ForgetFinished, NewFinished DEF Caller
        <4>4. JanitorSane'
          BY <2>2, <4>1, <4>2, JanitorFrame
        <4>5. QED BY <4>3, <4>4
      <3>4. CASE JanitorDone
        <4>1. UNCHANGED calls /\ jset' = {}
          BY <3>4 DEF JanitorDone
        <4>2. JanitorSane'
          BY <4>1 DEF JanitorSane
        <4>3. CallsForFinished'
          BY <2>2, <4>1, FinishedGrow DEF ChargeInv, CallsForFinished
        <4>4. QED BY <4>2, <4>3
      <3>5. QED BY <1>2, <3>1, <3>2, <3>3, <3>4
    <2>5. QED BY <2>1, <2>3, <2>4 DEF ChargeInv
  <1>3. QED BY <1>1, <1>2 DEF Janitor

LEMMA EnvironmentCharge ==
    ASSUME HoldInv, ChargeInv, NoNodeLoss, NoTakeOver, Environment PROVE ChargeInv'
  <1>1. UNCHANGED cacheVars
        /\ UNCHANGED <<nodeName, cycle, tracked, jpc, jset, calls, deletedEvt>>
    BY DEF Environment, CreateSlice, MovePhase, RemoveSlice, Observe, NodeJoin, NodeLeave,
           NodeFlip, Failover, NoNodeLoss, NoTakeOver, processVars, sliceVars, janVars
  <1>2. ChargesKept
    BY <1>1, SameCharges DEF cacheVars, SameMaps
  <1>3. phase \in [Slice -> Phases]
    BY HoldsOfInv DEF ProcessTypeOK
  <1>4. \A s \in Slice :
           \/ phase'[s] = phase[s]
           \/ phase[s] = "Absent" /\ phase'[s] = "Pending"
           \/ \E m \in Moves : phase[s] = m[1] /\ phase'[s] = m[2]
           \/ phase[s] \in {"Pending", "Scheduled", "Released"} /\ phase'[s] = "Gone"
    BY <1>3 DEF Environment, CreateSlice, MovePhase, RemoveSlice, Observe, NodeJoin, NodeLeave,
                NodeFlip, Failover, NoTakeOver
  <1>5. /\ PhasesSettle /\ NoneOccupies
        /\ \A s \in Slice : phase[s] \in {"Pending", "Gone"} => phase'[s] \in {"Pending", "Gone"}
    BY <1>4 DEF PhasesSettle, NoneOccupies, Moves, Finished, Occupying
  <1>6. QED BY <1>1, <1>2, <1>5, QuietCharge DEF ChargeInv

LEMMA ChargeNext ==
    ASSUME NoLag, NoNodeLoss, NoTakeOver, UniqueNames, HoldInv, ChargeInv, [Next]_vars
    PROVE  ChargeInv'
  <1>1. CASE Reconciler
    BY <1>1, CacheCallCharge, ReconcileCharge, CycleStartCharge, BindCharge, ConfirmCharge
       DEF Reconciler, Caller
  <1>2. CASE NodeReconciler \/ Seed
    BY <1>2, NodeAndSeedCharge
  <1>3. CASE Janitor
    BY <1>3, JanitorCharge
  <1>4. CASE \E s \in Slice : reapExpiredAssumptions(s)
    <2>1. PICK s \in Slice : reapExpiredAssumptions(s)
      BY <1>4
    <2>2. /\ RollbackAssumedSlice(s)
          /\ UNCHANGED <<phase, nodeName, cycle, tracked, jpc, jset, calls>> /\ deletedEvt' = {}
      BY <2>1 DEF reapExpiredAssumptions, apiVars, sliceVars, janVars, ChargeInv
    <2>3. assumedBySlice \in [Slice -> Place]
      BY HoldsOfInv DEF HoldsOK, CacheTypeOK
    <2>4. ChargesKept
      BY <2>2, <2>3 DEF RollbackAssumedSlice, ChargesKept
    <2>5. QED BY <2>2, <2>4, SamePhases, QuietCharge
  <1>5. CASE Environment
    BY <1>5, EnvironmentCharge
  <1>6. CASE UNCHANGED vars
    <2>1. /\ SameMaps /\ UNCHANGED <<phase, nodeName, cycle, tracked, jpc, jset, calls>>
          /\ deletedEvt' = {}
      BY <1>6 DEF vars, cacheVars, apiVars, sliceVars, janVars, SameMaps, ChargeInv
    <2>2. QED BY <2>1, SameMapsCharge
  <1>7. QED BY <1>1, <1>2, <1>3, <1>4, <1>5, <1>6 DEF Next

LEMMA ChargeInit ==
    ASSUME Init PROVE ChargeInv
  <1>1. /\ phase = [s \in Slice |-> "Absent"] /\ deletedEvt = {} /\ jset = {}
        /\ calls = [g \in Caller |-> <<>>] /\ cycle = Idle
        /\ tracked = [nm \in Name |-> NotTracked]
        /\ assumedBySlice = [s \in Slice |-> NoNode]
        /\ confirmedBySlice = [s \in Slice |-> NoNode]
        /\ allocatedNodeBySlice = [s \in Slice |-> NoNode]
    BY DEF Init, NewVRAMCache, ColdStart
  <1>2. ChargedWhereBound
    BY <1>1 DEF ChargedWhereBound, Occupying
  <1>3. CallsForFinished
    BY <1>1 DEF CallsForFinished
  <1>4. CyclePending /\ HeldExist
    BY <1>1 DEF CyclePending, HeldExist, Idle
  <1>5. TrackedSane /\ JanitorSane
    BY <1>1 DEF TrackedSane, JanitorSane, NotTracked
  <1>6. QED BY <1>1, <1>2, <1>3, <1>4, <1>5 DEF ChargeInv

(* The charge of a bound slice outlives everything but the slice: races of  *)
(* the bind with phase events, promotions, the reaper, rollbacks, the seed   *)
(* and the janitor never leave a slice that occupies its node uncounted.     *)
(* With a take-over, a lost node, a lagging informer or a reused name there  *)
(* are such slices.                                                          *)
THEOREM BoundStaysCharged ==
    NoLag /\ NoNodeLoss /\ NoTakeOver /\ UniqueNames => (Spec => []BoundIsCharged)
  <1> SUFFICES ASSUME NoLag, NoNodeLoss, NoTakeOver, UniqueNames PROVE Spec => []BoundIsCharged
    OBVIOUS
  <1>1. Init => ChargeInv
    BY ChargeInit
  <1>2. HoldInv /\ ChargeInv /\ [Next]_vars => ChargeInv'
    BY ChargeNext
  <1>3. HoldInv /\ ChargeInv => BoundIsCharged
    <2> SUFFICES ASSUME HoldInv, ChargeInv
                 PROVE  \A n \in nodes : \A s \in OccupiedBy(n) :
                           \/ n \in {assumedBySlice[s], confirmedBySlice[s],
                                     allocatedNodeBySlice[s]}
                           \/ cycle = [step |-> "confirm", s |-> s, n |-> n]
      BY DEF BoundIsCharged
    <2> TAKE n \in nodes
    <2> TAKE s \in OccupiedBy(n)
    <2>1. n \in Node /\ n # NoNode
      BY HoldsOfInv, NodeAssumption DEF HoldsOK, CacheTypeOK
    <2>2. s \in Slice /\ nodeName[s] = n /\ phase[s] \in Occupying
      BY DEF OccupiedBy, Occupying
    <2>3. \/ n \in {confirmedBySlice[s], allocatedNodeBySlice[s]}
          \/ cycle = [step |-> "confirm", s |-> s, n |-> n]
      BY <2>1, <2>2 DEF ChargeInv, ChargedWhereBound
    <2>4. QED BY <2>3
  <1>4. NoLag
    OBVIOUS
  <1>5. QED BY <1>1, <1>2, <1>3, <1>4, HoldInvariant, PTL DEF Spec

-----------------------------------------------------------------------------
(* Capacity.                                                               *)

(* The sum grows with the set, and a union has at most the two sums.        *)
LEMMA BytesUnion ==
    ASSUME NEW S \in SUBSET Slice, NEW T \in SUBSET Slice
    PROVE  Bytes[S] <= Bytes[S \cup T] /\ Bytes[S \cup T] <= Bytes[S] + Bytes[T]
  <1> DEFINE Sums(A, B) == Bytes[A] <= Bytes[A \cup B] /\ Bytes[A \cup B] <= Bytes[A] + Bytes[B]
             C == {k \in Nat : \A A, B \in SUBSET Slice : Bytes[B \ A] <= k => Sums(A, B)}
  <1>1. ASSUME NEW A \in SUBSET Slice, NEW B \in SUBSET Slice, NEW s \in B \ A,
               Sums(A, B \ {s})
        PROVE  Sums(A, B)
    <2>1. /\ Bytes[A] \in Nat /\ Bytes[B \ {s}] \in Nat /\ Bytes[A \cup (B \ {s})] \in Nat
          /\ Req[s] \in Nat
      BY BytesStep
    <2>2. Bytes[B] = Bytes[B \ {s}] + Req[s]
      BY BytesStep
    <2>3. Bytes[A \cup B] = Bytes[A \cup (B \ {s})] + Req[s]
      <3>1. (A \cup B) \ {s} = A \cup (B \ {s}) /\ s \in A \cup B /\ A \cup B \in SUBSET Slice
        OBVIOUS
      <3>2. QED BY <3>1, BytesStep
    <2>4. Bytes[A] <= Bytes[A \cup (B \ {s})]
          /\ Bytes[A \cup (B \ {s})] <= Bytes[A] + Bytes[B \ {s}]
      BY <1>1
    <2> HIDE DEF Sums
    <2>5. Bytes[A] <= Bytes[A \cup B] /\ Bytes[A \cup B] <= Bytes[A] + Bytes[B]
      BY <2>1, <2>2, <2>3, <2>4
    <2>6. QED BY <2>5 DEF Sums
  <1>2. ASSUME NEW A \in SUBSET Slice, NEW B \in SUBSET Slice, B \ A = {} PROVE Sums(A, B)
    <2>1. A \cup B = A
      BY <1>2
    <2>2. Bytes[A \cup B] = Bytes[A]
      BY <2>1, Zenon
    <2>3. Bytes[A] \in Nat /\ Bytes[B] \in Nat
      BY BytesAssumption
    <2>4. QED BY <2>2, <2>3
  <1>3. ASSUME NEW A \in SUBSET Slice, NEW B \in SUBSET Slice, NEW s \in B \ A
        PROVE  /\ Bytes[B \ A] \in Nat /\ Bytes[(B \ {s}) \ A] \in Nat
               /\ Bytes[(B \ {s}) \ A] < Bytes[B \ A]
    <2>1. (B \ A) \ {s} = (B \ {s}) \ A /\ B \ A \in SUBSET Slice
      OBVIOUS
    <2>2. ASSUME NEW D \in SUBSET Slice, s \in D
          PROVE  Bytes[D] \in Nat /\ Bytes[D \ {s}] \in Nat /\ Bytes[D \ {s}] < Bytes[D]
      <3>1. Bytes[D] = Bytes[D \ {s}] + Req[s]
        BY <2>2, BytesStep
      <3>2. Bytes[D] \in Nat /\ Bytes[D \ {s}] \in Nat /\ Req[s] \in Nat \ {0}
        BY BytesAssumption, SizeAssumption
      <3>3. QED BY <3>1, <3>2
    <2>3. s \in B \ A
      OBVIOUS
    <2>4. QED BY <2>1, <2>2, <2>3, Zenon
  <1>4. 0 \in C
    <2> SUFFICES ASSUME NEW A \in SUBSET Slice, NEW B \in SUBSET Slice, Bytes[B \ A] <= 0
                 PROVE  B \ A = {}
      BY <1>2
    <2> SUFFICES ASSUME NEW s \in B \ A PROVE FALSE
      OBVIOUS
    <2>1. /\ Bytes[B \ A] \in Nat /\ Bytes[(B \ {s}) \ A] \in Nat
          /\ Bytes[(B \ {s}) \ A] < Bytes[B \ A]
      BY <1>3
    <2>2. QED BY <2>1
  <1>5. ASSUME NEW k \in Nat, k \in C PROVE k + 1 \in C
    <2> SUFFICES ASSUME NEW A \in SUBSET Slice, NEW B \in SUBSET Slice,
                        Bytes[B \ A] <= k + 1, B \ A # {}
                 PROVE  Sums(A, B)
      BY <1>2
    <2>1. PICK s \in B \ A : TRUE
      OBVIOUS
    <2>2. Bytes[(B \ {s}) \ A] <= k
      <3>1. /\ Bytes[B \ A] \in Nat /\ Bytes[(B \ {s}) \ A] \in Nat
            /\ Bytes[(B \ {s}) \ A] < Bytes[B \ A]
        BY <1>3
      <3>2. QED BY <3>1
    <2>3. Sums(A, B \ {s})
      BY <1>5, <2>2
    <2>4. QED BY <1>1, <2>3
  <1>6. Nat \subseteq C
    <2> HIDE DEF C
    <2>1. QED BY <1>4, <1>5, Counting
  <1>7. Bytes[T \ S] \in Nat /\ Bytes[T \ S] <= Bytes[T \ S]
    BY BytesAssumption
  <1>8. Sums(S, T)
    <2>1. Bytes[T \ S] \in C
      BY <1>6, <1>7
    <2> HIDE DEF Sums
    <2>2. QED BY <1>7, <2>1
  <1>9. QED BY <1>8

LEMMA BytesWithin ==
    ASSUME NEW T \in SUBSET Slice, NEW S \in SUBSET T
    PROVE  Bytes[S] <= Bytes[T]
  <1>1. S \cup T = T /\ S \in SUBSET Slice
    OBVIOUS
  <1>2. QED BY <1>1, BytesUnion

(* A slice that may still occupy its node. *)
Unfinished(s) == phase[s] \notin Finished

Started(s) == phase[s] \notin {"Absent", "Pending"}

(* The cycle is past Reserve: it binds its slice without another look at the *)
(* capacity, even if the reaper takes the hold meanwhile.                    *)
Committed == Placed \ {"reserve"}

(* The slices that a node has been sold to and that can still occupy it. *)
SoldTo(n) ==
    {s \in Slice :
        /\ Unfinished(s)
        /\ \/ n \in {assumedBySlice[s], confirmedBySlice[s], allocatedNodeBySlice[s]}
           \/ cycle.step \in Committed /\ cycle.s = s /\ cycle.n = n}

SoldWithinCapacity == \A n \in Node : Bytes[SoldTo(n)] <= Capacity[n]

(* The bytes a goroutine gives back in the next critical section: the slice  *)
(* is no longer allocated and the counter of the node is still to follow.    *)
Returning(g, n) ==
    IF calls[g] # <<>> /\ Head(calls[g]).op = "unallocate" /\ Head(calls[g]).n = n
      THEN Req[Head(calls[g]).s] ELSE 0

(* The allocated counter never falls short of the allocations: a promotion   *)
(* that races a deletion can charge a slice twice, never too little.         *)
AllocationsCovered ==
    \A n \in Node :
        Bytes[AllocatedOn(n)] + Returning("reconciler", n) + Returning("janitor", n)
            <= allocatedVRAM[n]

(* Only what has started is promoted; what is given back is of a finished    *)
(* slice and goes to the node it was bound to.                               *)
SaneCall ==
    {c \in Call :
        /\ c.op = "promote" => Started(c.s)
        /\ c.op \in {"release", "fail"} =>
              /\ phase[c.s] \in Finished
              /\ c.n # NoNode /\ nodeName[c.s] \in {NoNode, c.n}}

(* A decrement is made at once, before the calls after it. *)
PlainCall == {c \in SaneCall : c.op # "unallocate"}

CallsSane ==
    \A g \in Caller : /\ calls[g] \in Seq(SaneCall)
                      /\ calls[g] # <<>> => Tail(calls[g]) \in Seq(PlainCall)

WalksStarted == \A w \in Walker : \A p \in walk[w] : Started(p[1])

AllocatedWhereBound == \A s \in Slice : allocatedNodeBySlice[s] \in {NoNode, nodeName[s]}

TrackedWhereBound ==
    \A nm \in Name : tracked[nm].uid # NoSlice =>
        tracked[nm].node \in {NoNode, nodeName[tracked[nm].uid]}

BoundOnKnown == \A s \in Slice : nodeName[s] # NoNode => nodeName[s] \in nodes

CapacityInv ==
    /\ SoldWithinCapacity /\ AllocationsCovered /\ CallsSane /\ WalksStarted
    /\ AllocatedWhereBound /\ TrackedWhereBound /\ BoundOnKnown

(* What the janitor sweeps it has on the node it was bound to, if any. (It   *)
(* takes the node from the cache before it lists the objects: a speculative  *)
(* hold can move to another node, and be bound there, in between.)           *)
JanitorCurrent == \A p \in jset : nodeName[p[1]] \in {NoNode, p[2]}

(* The state a step starts from. *)
Ledger == HoldInv /\ ExactInv /\ ChargeInv /\ CapacityInv

-----------------------------------------------------------------------------
(* What a step does to the objects, whoever makes it.                      *)

LEMMA ObjectMoves ==
    ASSUME Ledger, UniqueNames, [Next]_vars, NEW s \in Slice
    PROVE  \/ phase'[s] = phase[s]
           \/ phase[s] = "Absent" /\ phase'[s] = "Pending"
           \/ phase[s] = "Pending" /\ phase'[s] \in {"Scheduled", "Failed"}
           \/ \E m \in Moves : phase[s] = m[1] /\ phase'[s] = m[2]
           \/ phase[s] \in {"Pending", "Scheduled", "Released"} /\ phase'[s] = "Gone"
  <1>1. phase \in [Slice -> Phases]
    BY HoldsOfInv DEF Ledger, ProcessTypeOK
  <1>2. CASE FailOrphan
    BY <1>1, <1>2 DEF FailOrphan
  <1>3. CASE BindStatus
    <2>1. \A t \in Target : phase[t] = "Pending"
      <3>1. cycle.step = "bindStatus" /\ cycle.s \in Slice
        BY <1>3, CycleShape DEF BindStatus, Reconciling, Ledger, Placed
      <3>2. QED BY <3>1 DEF Target, Named, UniqueNames, Ledger, ChargeInv, CyclePending, Live
    <2>2. QED BY <1>1, <1>3, <2>1 DEF BindStatus
  <1>4. CASE Reconciler /\ ~FailOrphan /\ ~BindStatus
    BY <1>4 DEF Reconciler, CacheCall, ReconcileGone, ReconcileSlice, ScheduleStart,
                Reserve, Gate, Pin, BindSpec, Confirm, apiVars
  <1>5. CASE NodeReconciler
    BY <1>5 DEF NodeReconciler, ReconcileNodeGone, ReconcileNode, NodeUpdate, NodeList,
                Recharge, NodeWalked, NodeHealth, apiVars
  <1>6. CASE Seed
    BY <1>6 DEF Seed, SeedListNodes, SeedRegister, SeedRegistered, SeedListSlices, Recharge,
                SeedDone, apiVars
  <1>7. CASE Janitor
    BY <1>7 DEF Janitor, CacheCall, JanitorSnapshot, JanitorList, JanitorForget, JanitorDone,
                apiVars
  <1>8. CASE \E t \in Slice : reapExpiredAssumptions(t)
    BY <1>8 DEF reapExpiredAssumptions, apiVars
  <1>9. CASE Environment
    BY <1>1, <1>9 DEF Environment, CreateSlice, MovePhase, RemoveSlice, Observe, NodeJoin,
                      NodeLeave, NodeFlip, Failover
  <1>10. CASE UNCHANGED vars
    BY <1>10 DEF vars, apiVars
  <1>11. QED BY <1>2, <1>3, <1>4, <1>5, <1>6, <1>7, <1>8, <1>9, <1>10 DEF Next

LEMMA NameStays ==
    ASSUME [Next]_vars, ~ BindSpec PROVE UNCHANGED nodeName
  <1>1. CASE Reconciler
    BY <1>1 DEF Reconciler, CacheCall, ReconcileGone, ReconcileSlice, FailOrphan,
          ScheduleStart, Reserve, Gate, Pin, BindStatus, Confirm, apiVars
  <1>2. CASE NodeReconciler \/ Seed
    BY <1>2 DEF NodeReconciler, ReconcileNodeGone, ReconcileNode, NodeUpdate, NodeList,
          Recharge, NodeWalked, NodeHealth, Seed, SeedListNodes, SeedRegister,
          SeedRegistered, SeedListSlices, SeedDone, apiVars
  <1>3. CASE Janitor
    BY <1>3 DEF Janitor, CacheCall, JanitorSnapshot, JanitorList, JanitorForget,
          JanitorDone, apiVars
  <1>4. CASE Environment \/ (\E s \in Slice : reapExpiredAssumptions(s)) \/ UNCHANGED vars
    BY <1>4 DEF Environment, CreateSlice, MovePhase, RemoveSlice, Observe, NodeJoin,
          NodeLeave, NodeFlip, Failover, reapExpiredAssumptions, apiVars, vars
  <1>5. QED BY <1>1, <1>2, <1>3, <1>4 DEF Next

(* What is not yet bound and Pending is all that a bind can change. *)
ObjectsSettle ==
    /\ PhasesSettle /\ KeepsNode
    /\ \A s \in Slice : Started(s) => Started(s)' /\ nodeName'[s] = nodeName[s]

LEMMA StepSettles ==
    ASSUME Ledger, UniqueNames, [Next]_vars PROVE ObjectsSettle
  <1>1. PhasesSettle /\ \A s \in Slice : Started(s) => Started(s)'
    BY ObjectMoves DEF Moves, Finished, Started, PhasesSettle
  <1>2. KeepsNode
    <2>1. CASE UNCHANGED nodeName
      BY <2>1 DEF KeepsNode
    <2>2. QED BY <2>1, NodeNameKept DEF Ledger
  <1>3. \A s \in Slice : Started(s) => nodeName'[s] = nodeName[s]
    <2>1. CASE BindSpec
      <3>1. nodeName \in [Slice -> Place]
        BY HoldsOfInv DEF Ledger, ProcessTypeOK
      <3>2. \A t \in Target : ~ Started(t)
        <4>1. cycle.step = "bindSpec" /\ cycle.s \in Slice
          BY <2>1, CycleShape DEF BindSpec, Reconciling, Ledger, Placed
        <4>2. QED BY <4>1 DEF Target, Named, UniqueNames, Ledger, ChargeInv, CyclePending, Live,
                              Started
      <3>3. QED BY <2>1, <3>1, <3>2 DEF BindSpec
    <2>2. CASE ~BindSpec
      BY <2>2, NameStays
    <2>3. QED BY <2>1, <2>2
  <1>4. QED BY <1>1, <1>2, <1>3 DEF ObjectsSettle

(* A node that the cache knows stays: none is lost, no process taken over.  *)
LEMMA NodesStay ==
    ASSUME Ledger, NoTakeOver, [Next]_vars PROVE nodes \subseteq nodes'
  <1>1. CASE Reconciler
    BY <1>1 DEF Reconciler, CacheCall, RollbackAssumedSlice, ReleaseConfirmedSlice,
         ReleaseSliceOnce, FailSliceOnce, ReleaseAllocated, DropTombstone,
         PromoteSliceToAllocatedOnce, ReconcileGone, ReconcileSlice, FailOrphan, ScheduleStart,
         Reserve, AssumeSlice, Gate, Pin, BindSpec, BindStatus, Confirm, ConfirmSliceOrRearm,
         cacheVars
  <1>2. CASE NodeReconciler \/ Seed
    <2>1. ASSUME NEW n \in Node PROVE ~ ReconcileNodeGone(n)
      BY DEF Ledger, ChargeInv, ReconcileNodeGone
    <2>2. QED BY <1>2, <2>1 DEF NodeReconciler, ReconcileNode, NodeUpdate, NodeList, Recharge,
         NodeWalked, NodeHealth, Seed, SeedListNodes, SeedRegister, SeedRegistered,
         SeedListSlices, SeedDone, UpdateNode, SetNodeHealth, MarkSeeded,
         PromoteSliceToAllocatedOnce, cacheVars
  <1>3. CASE Janitor
    BY <1>3 DEF Janitor, CacheCall, RollbackAssumedSlice, ReleaseConfirmedSlice,
         ReleaseSliceOnce, FailSliceOnce, ReleaseAllocated, DropTombstone,
         PromoteSliceToAllocatedOnce, JanitorSnapshot, JanitorList, JanitorForget, JanitorDone,
         cacheVars
  <1>4. CASE Environment \/ (\E s \in Slice : reapExpiredAssumptions(s)) \/ UNCHANGED vars
    BY <1>4 DEF Environment, CreateSlice, MovePhase, RemoveSlice, Observe, NodeJoin, NodeLeave,
         NodeFlip, Failover, NoTakeOver, reapExpiredAssumptions, RollbackAssumedSlice,
         processVars, cacheVars, vars
  <1>5. QED BY <1>1, <1>2, <1>3, <1>4 DEF Next

LEMMA BoundOnKnownStep ==
    ASSUME Ledger, NoTakeOver, UniqueNames, [Next]_vars PROVE BoundOnKnown'
  <1>1. nodes \subseteq nodes'
    BY NodesStay
  <1>2. \A s \in Slice : nodeName[s] # NoNode => nodeName[s] \in nodes
    BY DEF Ledger, CapacityInv, BoundOnKnown
  <1>3. CASE BindSpec
    <2>1. cycle.step \in Placed
      BY <1>3 DEF BindSpec, Reconciling, Placed
    <2>2. cycle.n \in nodes /\ nodeName \in [Slice -> Place]
      BY <2>1, HoldsOfInv DEF Ledger, ExactInv, CycleHold, ProcessTypeOK
    <2>3. \A s \in Slice : nodeName'[s] \in {nodeName[s], cycle.n}
      BY <1>3, <2>2 DEF BindSpec
    <2>4. QED BY <1>1, <1>2, <2>2, <2>3 DEF BoundOnKnown
  <1>4. CASE ~ BindSpec
    <2>1. UNCHANGED nodeName
      BY <1>4, NameStays
    <2>2. QED BY <1>1, <1>2, <2>1 DEF BoundOnKnown
  <1>5. QED BY <1>3, <1>4

(* The cache has an allocation where the slice is bound or has none.        *)
LEMMA AllocationMoves ==
    ASSUME Ledger, NoTakeOver, [Next]_vars, NEW s \in Slice
    PROVE  allocatedNodeBySlice'[s] \in {allocatedNodeBySlice[s], NoNode, nodeName[s]}
  <1>1. allocatedNodeBySlice \in [Slice -> Place]
    BY HoldsOfInv DEF Ledger, HoldsOK, CacheTypeOK
  <1>2. ASSUME NEW g \in Caller, CacheCall(g)
        PROVE  allocatedNodeBySlice'[s] \in {allocatedNodeBySlice[s], NoNode, nodeName[s]}
    <2> DEFINE c == Head(calls[g])
    <2>1. calls[g] \in Seq(BoundCall) /\ calls[g] # <<>>
      BY <1>2, HoldsOfInv DEF Ledger, PromotionsWhereBound, CacheCall
    <2>2. c \in BoundCall
      BY <2>1, CallSequences
    <2>3. \/ RollbackAssumedSlice(c.s) \/ ReleaseConfirmedSlice(c.s) \/ ReleaseSliceOnce(c.s)
          \/ FailSliceOnce(c.s) \/ ReleaseAllocated(c.n, c.s) \/ DropTombstone(c.s)
          \/ c.op = "promote" /\ PromoteSliceToAllocatedOnce(c.s, c.n)
      BY <1>2 DEF CacheCall
    <2> HIDE DEF c
    <2>4. c.op = "promote" => c.n = nodeName[c.s]
      BY <2>2 DEF BoundCall
    <2>5. QED BY <1>1, <2>3, <2>4 DEF RollbackAssumedSlice, ReleaseConfirmedSlice,
            ReleaseSliceOnce, FailSliceOnce, ReleaseAllocated, DropTombstone,
            PromoteSliceToAllocatedOnce, cacheVars
  <1>3. CASE Reconciler
    BY <1>2, <1>3 DEF Reconciler, Caller, ReconcileGone, ReconcileSlice, FailOrphan,
         ScheduleStart, Reserve, AssumeSlice, Gate, Pin, BindSpec, BindStatus, Confirm,
         ConfirmSliceOrRearm, cacheVars
  <1>4. CASE NodeReconciler \/ Seed
    <2>1. CASE \E w \in Walker : Recharge(w)
      <3>1. PICK w \in Walker : Recharge(w)
        BY <2>1
      <3>2. PICK p \in walk[w] : PromoteSliceToAllocatedOnce(p[1], p[2])
        BY <3>1 DEF Recharge
      <3>3. nodeName[p[1]] = p[2]
        BY HoldsOfInv DEF Ledger, PromotionsWhereBound
      <3>4. QED BY <1>1, <3>2, <3>3 DEF PromoteSliceToAllocatedOnce, cacheVars
    <2>2. CASE ~ \E w \in Walker : Recharge(w)
      <3>1. ASSUME NEW n \in Node PROVE ~ ReconcileNodeGone(n)
        BY DEF Ledger, ChargeInv, ReconcileNodeGone
      <3>2. QED BY <1>4, <2>2, <3>1 DEF NodeReconciler, ReconcileNode, NodeUpdate, NodeList,
         NodeWalked, NodeHealth, Seed, SeedListNodes, SeedRegister, SeedRegistered,
         SeedListSlices, SeedDone, UpdateNode, SetNodeHealth, MarkSeeded, Walker, cacheVars
    <2>3. QED BY <2>1, <2>2
  <1>5. CASE Janitor
    BY <1>2, <1>5 DEF Janitor, Caller, JanitorSnapshot, JanitorList, JanitorForget, JanitorDone,
         cacheVars
  <1>6. CASE Environment \/ (\E t \in Slice : reapExpiredAssumptions(t)) \/ UNCHANGED vars
    BY <1>6 DEF Environment, CreateSlice, MovePhase, RemoveSlice, Observe, NodeJoin, NodeLeave,
         NodeFlip, Failover, NoTakeOver, reapExpiredAssumptions, RollbackAssumedSlice,
         processVars, cacheVars, vars
  <1>7. QED BY <1>3, <1>4, <1>5, <1>6 DEF Next

LEMMA AllocatedWhereBoundStep ==
    ASSUME Ledger, NoTakeOver, UniqueNames, [Next]_vars PROVE AllocatedWhereBound'
  <1>1. \A s \in Slice : nodeName[s] # NoNode => nodeName'[s] = nodeName[s]
    BY StepSettles DEF ObjectsSettle, KeepsNode
  <1>2. QED BY <1>1, AllocationMoves DEF Ledger, CapacityInv, AllocatedWhereBound

LEMMA TrackedWhereBoundStep ==
    ASSUME Ledger, NoLag, NoTakeOver, UniqueNames, [Next]_vars PROVE TrackedWhereBound'
  <1>1. tracked \in [Name -> [uid : Slice \cup {NoSlice}, node : Place]]
    BY HoldsOfInv DEF Ledger, ProcessTypeOK
  <1>2. \A s \in Slice : nodeName[s] # NoNode => nodeName'[s] = nodeName[s]
    BY StepSettles DEF ObjectsSettle, KeepsNode
  <1>3. TrackedWhereBound
    BY DEF Ledger, CapacityInv
  <1>4. CASE \E nm \in Name : ReconcileGone(nm)
    <2>1. PICK nm \in Name : tracked' = [tracked EXCEPT ![nm] = NotTracked]
      BY <1>4 DEF ReconcileGone
    <2>2. QED BY <1>1, <1>2, <1>3, <2>1 DEF TrackedWhereBound, NotTracked
  <1>5. CASE \E s \in Slice : ReconcileSlice(s)
    <2>1. PICK s \in Slice : ReconcileSlice(s)
      BY <1>5
    <2>2. /\ tracked' = [tracked EXCEPT ![NameOf[s]] = [uid |-> s, node |-> nodeName[s]]]
          /\ UNCHANGED nodeName
      BY <2>1, CurrentView DEF ReconcileSlice, apiVars
    <2>3. QED BY <1>1, <1>3, <2>2, SchedulerAssumption DEF TrackedWhereBound
  <1>6. CASE UNCHANGED tracked
    BY <1>1, <1>2, <1>3, <1>6 DEF TrackedWhereBound
  <1>7. CASE Reconciler /\ ~ (\E nm \in Name : ReconcileGone(nm))
                        /\ ~ (\E s \in Slice : ReconcileSlice(s))
    BY <1>6, <1>7 DEF Reconciler, CacheCall, FailOrphan, ScheduleStart, Reserve, Gate, Pin,
         BindSpec, BindStatus, Confirm, sliceVars
  <1>8. CASE NodeReconciler \/ Seed
    BY <1>6, <1>8 DEF NodeReconciler, ReconcileNodeGone, ReconcileNode, NodeUpdate, NodeList,
         Recharge, NodeWalked, NodeHealth, Seed, SeedListNodes, SeedRegister,
         SeedRegistered, SeedListSlices, SeedDone, sliceVars
  <1>9. CASE Janitor
    BY <1>6, <1>9 DEF Janitor, CacheCall, JanitorSnapshot, JanitorList, JanitorForget,
         JanitorDone, sliceVars
  <1>10. CASE Environment \/ (\E s \in Slice : reapExpiredAssumptions(s)) \/ UNCHANGED vars
    BY <1>6, <1>10 DEF Environment, CreateSlice, MovePhase, RemoveSlice, Observe, NodeJoin,
         NodeLeave, NodeFlip, Failover, NoTakeOver, reapExpiredAssumptions, processVars,
         sliceVars, vars
  <1>11. QED BY <1>4, <1>5, <1>7, <1>8, <1>9, <1>10 DEF Next

LEMMA WalksStartedStep ==
    ASSUME Ledger, NoLag, UniqueNames, [Next]_vars PROVE WalksStarted'
  <1>1. walk \in [Walker -> SUBSET (Slice \X Node)] /\ WalksStarted
    BY HoldsOfInv DEF Ledger, ProcessTypeOK, CapacityInv
  <1>2. \A s \in Slice : Started(s) => Started(s)'
    BY StepSettles DEF ObjectsSettle
  <1>3. ASSUME \A w \in Walker : \A p \in walk'[w] : p \in walk[w] \/ Started(p[1])',
               UNCHANGED phase \/ walk' = walk
        PROVE  WalksStarted'
    BY <1>1, <1>2, <1>3 DEF WalksStarted
  <1>4. CASE NodeList
    <2>1. \A s \in Slice : View(s) = [phase |-> "Ready", node |-> nodeStep.n] => Started(s)
      BY CurrentView DEF Started
    <2>2. UNCHANGED phase
      BY <1>4 DEF NodeList, apiVars
    <2>3. \A w \in Walker : \A p \in walk'[w] : p \in walk[w] \/ Started(p[1])'
      BY <1>1, <1>4, <2>1, <2>2 DEF NodeList, Walker, Started
    <2>4. QED BY <1>3, <2>2, <2>3
  <1>5. CASE SeedListSlices
    <2>1. \A s \in Slice : View(s).phase \in SeedCounted => Started(s)
      BY CurrentView DEF Started, SeedCounted
    <2>2. UNCHANGED phase
      BY <1>5 DEF SeedListSlices, apiVars
    <2>3. \A w \in Walker : \A p \in walk'[w] : p \in walk[w] \/ Started(p[1])'
      BY <1>1, <1>5, <2>1, <2>2 DEF SeedListSlices, Walker, Started
    <2>4. QED BY <1>3, <2>2, <2>3
  <1>6. CASE \E w \in Walker : Recharge(w)
    <2>1. \A w \in Walker : walk'[w] \subseteq walk[w]
      BY <1>1, <1>6 DEF Recharge
    <2>2. UNCHANGED phase
      BY <1>6 DEF Recharge, apiVars
    <2>3. QED BY <1>3, <2>1, <2>2
  <1>7. CASE Failover
    BY <1>7 DEF Failover, WalksStarted
  <1>8. CASE UNCHANGED walk
    BY <1>3, <1>8
  <1>9. CASE Reconciler \/ Janitor
    BY <1>8, <1>9 DEF Reconciler, CacheCall, ReconcileGone, ReconcileSlice, FailOrphan,
          ScheduleStart, Reserve, Gate, Pin, BindSpec, BindStatus, Confirm, Janitor,
          JanitorSnapshot, JanitorList, JanitorForget, JanitorDone
  <1>10. CASE NodeReconciler \/ Seed
    BY <1>4, <1>5, <1>6, <1>8, <1>10 DEF NodeReconciler, ReconcileNodeGone, ReconcileNode,
          NodeUpdate, NodeWalked, NodeHealth, Seed, SeedListNodes, SeedRegister,
          SeedRegistered, SeedDone, Walker
  <1>11. CASE Environment \/ (\E s \in Slice : reapExpiredAssumptions(s)) \/ UNCHANGED vars
    BY <1>7, <1>8, <1>11 DEF Environment, CreateSlice, MovePhase, RemoveSlice, Observe, NodeJoin,
          NodeLeave, NodeFlip, reapExpiredAssumptions, processVars, vars
  <1>12. QED BY <1>9, <1>10, <1>11 DEF Next

-----------------------------------------------------------------------------
(* The pending calls.                                                      *)

LEMMA SaneGrow ==
    ASSUME ObjectsSettle
    PROVE  /\ \A q \in Seq(SaneCall) : q \in Seq(SaneCall')
           /\ \A q \in Seq(PlainCall) : q \in Seq(PlainCall')
  <1>1. \A s \in Slice : phase[s] \in Finished =>
           phase'[s] \in Finished /\ nodeName'[s] = nodeName[s]
    BY DEF ObjectsSettle, PhasesSettle, Finished, Started
  <1>2. SaneCall \subseteq SaneCall'
    BY <1>1 DEF SaneCall, ObjectsSettle, Call
  <1>3. PlainCall \subseteq PlainCall'
    BY <1>2 DEF PlainCall
  <1>4. QED BY <1>2, <1>3

LEMMA PlainOfKind ==
    ASSUME NEW op \in Ops \ {"promote", "release", "fail", "unallocate"}, NEW s \in Slice
    PROVE  call(op, s, NoNode) \in PlainCall /\ <<call(op, s, NoNode)>> \in Seq(PlainCall)
  <1>1. call(op, s, NoNode) \in PlainCall
    BY DEF PlainCall, SaneCall, Call, call, Place
  <1>2. QED BY <1>1, CallSequences

LEMMA PlainIsSane == /\ \A q \in Seq(PlainCall) : q \in Seq(SaneCall)
                     /\ \A q \in Seq(PlainCall) : q # <<>> => Tail(q) \in Seq(PlainCall)
                     /\ <<>> \in Seq(PlainCall)
  <1>1. PlainCall \subseteq SaneCall
    BY DEF PlainCall
  <1>2. QED BY <1>1, CallSequences

(* What a section leaves to do has at most its first call a decrement.      *)
LEMMA ContinuationSane ==
    ASSUME NEW c \in SaneCall
    PROVE  /\ Continuation(c) \in Seq(SaneCall)
           /\ \/ Continuation(c) \in Seq(PlainCall)
              \/ \E r \in Seq(PlainCall) :
                    Continuation(c) = <<call("unallocate", c.s, c.n)>> \o r
  <1>1. c.s \in Slice /\ c.n \in Place
    BY DEF SaneCall, Call
  <1>2. call("unallocate", c.s, c.n) \in SaneCall
    BY <1>1 DEF SaneCall, Call, call, Ops
  <1>3. <<call("unallocate", c.s, c.n)>> \in Seq(SaneCall)
    BY <1>2, CallSequences
  <1>4. /\ <<call("unconfirm", c.s, NoNode)>> \in Seq(PlainCall) /\ <<>> \in Seq(PlainCall)
        /\ <<call("unconfirm", c.s, NoNode)>> \in Seq(SaneCall)
    BY <1>1, PlainOfKind, PlainIsSane DEF Ops
  <1> DEFINE u == call("unallocate", c.s, c.n)  f == call("unconfirm", c.s, NoNode)
  <1>5. \/ Continuation(c) = <<u>> \/ Continuation(c) = <<>>
        \/ Continuation(c) = <<u>> \o <<f>> \/ Continuation(c) = <<>> \o <<f>>
    BY DEF Continuation
  <1> HIDE DEF u, f
  <1>6. <<>> \o <<f>> = <<f>> /\ <<u>> = <<u>> \o <<>> /\ <<u>> \o <<f>> \in Seq(SaneCall)
    BY <1>3, <1>4 DEF u, f
  <1>7. QED BY <1>3, <1>4, <1>5, <1>6, PlainIsSane DEF u, f

LEMMA ForgetSane ==
    ASSUME NEW s \in Slice, NEW n \in Place, phase[s] = "Gone",
           n = NoNode \/ nodeName[s] \in {NoNode, n}
    PROVE  ForgetSlice(s, n) \in Seq(PlainCall)
  <1>1. n # NoNode => call("release", s, n) \in PlainCall
    BY DEF PlainCall, SaneCall, Call, call, Ops, Finished
  <1>2. /\ call("rollback", s, NoNode) \in PlainCall
        /\ call("unconfirm", s, NoNode) \in PlainCall
        /\ <<call("untomb", s, NoNode)>> \in Seq(PlainCall)
    BY PlainOfKind DEF Ops
  <1>3. /\ <<call("rollback", s, NoNode), call("unconfirm", s, NoNode)>> \in Seq(PlainCall)
        /\ n # NoNode => <<call("release", s, n)>> \in Seq(PlainCall)
        /\ <<>> \in Seq(PlainCall)
    BY <1>1, <1>2
  <1>4. QED BY <1>2, <1>3, CallSequences DEF ForgetSlice

LEMMA SyncSane ==
    ASSUME NEW s \in Slice, nodeName[s] \in Place
    PROVE  SyncCacheFromSlice(s, nodeName[s], phase[s]) \in Seq(PlainCall)
  <1>1. /\ phase[s] = "Ready" => call("promote", s, nodeName[s]) \in PlainCall
        /\ nodeName[s] # NoNode /\ phase[s] = "Released" =>
              call("release", s, nodeName[s]) \in PlainCall
        /\ nodeName[s] # NoNode /\ phase[s] = "Failed" =>
              call("fail", s, nodeName[s]) \in PlainCall
    BY DEF PlainCall, SaneCall, Call, call, Ops, Finished, Started
  <1>2. /\ phase[s] = "Ready" => <<call("promote", s, nodeName[s])>> \in Seq(PlainCall)
        /\ nodeName[s] # NoNode /\ phase[s] = "Released" =>
              <<call("release", s, nodeName[s])>> \in Seq(PlainCall)
        /\ nodeName[s] # NoNode /\ phase[s] = "Failed" =>
              <<call("fail", s, nodeName[s])>> \in Seq(PlainCall)
        /\ <<>> \in Seq(PlainCall)
    BY <1>1
  <1>3. QED BY <1>2 DEF SyncCacheFromSlice

(* The calls of a goroutine are replaced by plain ones while the objects     *)
(* stay as they are.                                                         *)
PlainCallsOf(g) ==
    /\ UNCHANGED <<phase, nodeName>>
    /\ \E q \in Seq(PlainCall) : calls' = [calls EXCEPT ![g] = q]

LEMMA PlainCallsSane ==
    ASSUME Ledger, NEW g \in Caller, PlainCallsOf(g) PROVE CallsSane'
  <1>1. calls \in [Caller -> Seq(Call)]
    BY HoldsOfInv DEF Ledger, ProcessTypeOK
  <1>2. SaneCall' = SaneCall /\ PlainCall' = PlainCall
    BY DEF PlainCallsOf, SaneCall, PlainCall, Started
  <1>3. PICK q \in Seq(PlainCall) : calls' = [calls EXCEPT ![g] = q]
    BY DEF PlainCallsOf
  <1>4. q \in Seq(SaneCall) /\ (q # <<>> => Tail(q) \in Seq(PlainCall))
    BY PlainIsSane
  <1>5. \A h \in Caller : calls'[h] = IF h = g THEN q ELSE calls[h]
    BY <1>1, <1>3
  <1>6. QED BY <1>2, <1>4, <1>5 DEF CallsSane, Ledger, CapacityInv

(* What the steps that make calls leave for a goroutine to do. *)
LEMMA ReconcileGoneCalls ==
    ASSUME Ledger, NoLag, NEW nm \in Name, ReconcileGone(nm) PROVE PlainCallsOf("reconciler")
  <1>1. /\ UNCHANGED <<phase, nodeName>> /\ SeenNamed(nm) = {}
        /\ calls' = [calls EXCEPT !["reconciler"] =
                        ForgetSlice(tracked[nm].uid, tracked[nm].node)]
        /\ tracked[nm].uid # NoSlice
    BY DEF ReconcileGone, apiVars
  <1>2. tracked[nm].uid \in Slice /\ tracked[nm].node \in Place
    BY <1>1, HoldsOfInv DEF Ledger, ProcessTypeOK
  <1>3. phase[tracked[nm].uid] = "Gone"
    BY <1>1, <1>2, CurrentView DEF SeenNamed, Ledger, ChargeInv, TrackedSane, Live
  <1>4. tracked[nm].node \in {NoNode, nodeName[tracked[nm].uid]}
    BY <1>1 DEF Ledger, CapacityInv, TrackedWhereBound
  <1>5. ForgetSlice(tracked[nm].uid, tracked[nm].node) \in Seq(PlainCall)
    BY <1>2, <1>3, <1>4, ForgetSane
  <1>6. QED BY <1>1, <1>5 DEF PlainCallsOf

LEMMA ReconcileSliceCalls ==
    ASSUME Ledger, NoLag, NEW s \in Slice, ReconcileSlice(s) PROVE PlainCallsOf("reconciler")
  <1> DEFINE old == tracked[NameOf[s]]
             forget == IF Replaced(s) THEN ForgetSlice(old.uid, old.node) ELSE <<>>
             sync == SyncCacheFromSlice(s, nodeName[s], phase[s])
  <1>1. /\ UNCHANGED <<phase, nodeName>> /\ Live(s)
        /\ calls' = [calls EXCEPT !["reconciler"] = forget \o sync]
    BY CurrentView DEF ReconcileSlice, apiVars
  <1>2. /\ NameOf[s] \in Name /\ old.uid \in Slice \cup {NoSlice} /\ old.node \in Place
        /\ nodeName[s] \in Place
    BY HoldsOfInv, SchedulerAssumption DEF Ledger, ProcessTypeOK
  <1>3. ASSUME Replaced(s) PROVE forget \in Seq(PlainCall)
    <2>1. old.uid \in Slice /\ old.uid # s /\ old.uid # NoSlice
      BY <1>2, <1>3 DEF Replaced
    <2>2. phase[old.uid] # "Absent" /\ NameOf[old.uid] = NameOf[s]
      BY <1>2, <2>1, SchedulerAssumption DEF Ledger, ChargeInv, TrackedSane
    <2>3. phase[old.uid] = "Gone"
      BY <1>1, <2>1, <2>2, HoldsOfInv DEF Ledger, ObjectsSane, Live
    <2>4. old.node \in {NoNode, nodeName[old.uid]}
      BY <1>2, <2>1 DEF Ledger, CapacityInv, TrackedWhereBound
    <2>5. ForgetSlice(old.uid, old.node) \in Seq(PlainCall)
      BY <1>2, <2>1, <2>3, <2>4, ForgetSane
    <2>6. QED BY <1>3, <2>5
  <1>4. forget \in Seq(PlainCall) /\ sync \in Seq(PlainCall)
    BY <1>2, <1>3, SyncSane, PlainIsSane
  <1> HIDE DEF forget, sync
  <1>5. forget \o sync \in Seq(PlainCall)
    BY <1>4, CallSequences
  <1>6. QED BY <1>1, <1>5 DEF PlainCallsOf

LEMMA AbandonCalls ==
    ASSUME UNCHANGED <<phase, nodeName>>, cycle.s \in Slice, AbandonCycle
    PROVE  PlainCallsOf("reconciler")
  BY PlainOfKind DEF AbandonCycle, PlainCallsOf, Ops

LEMMA JanitorForgetCalls ==
    ASSUME Ledger, JanitorCurrent, JanitorForget PROVE PlainCallsOf("janitor")
  <1>1. PICK p \in jset : calls' = [calls EXCEPT !["janitor"] = ForgetSlice(p[1], p[2])]
    BY DEF JanitorForget
  <1>2. p[1] \in Slice /\ p[2] \in Node /\ p[2] \in Place
    BY HoldsOfInv DEF Ledger, ProcessTypeOK, Place
  <1>3. phase[p[1]] = "Gone" /\ nodeName[p[1]] \in {NoNode, p[2]}
    BY DEF JanitorForget, JanitorCurrent, Ledger, ChargeInv, JanitorSane
  <1>4. ForgetSlice(p[1], p[2]) \in Seq(PlainCall)
    BY <1>2, <1>3, ForgetSane
  <1>5. UNCHANGED <<phase, nodeName>>
    BY DEF JanitorForget, apiVars
  <1>6. QED BY <1>1, <1>4, <1>5 DEF PlainCallsOf

(* Every step but a cache call leaves the calls of a goroutine as they are   *)
(* or replaces them by plain ones.                                           *)
LEMMA CallsOfStep ==
    ASSUME Ledger, NoLag, NoTakeOver, JanitorCurrent, [Next]_vars,
           ~ CacheCall("reconciler"), ~ CacheCall("janitor")
    PROVE  UNCHANGED calls \/ \E g \in Caller : PlainCallsOf(g)
  <1>1. CASE (\E nm \in Name : ReconcileGone(nm)) \/ (\E s \in Slice : ReconcileSlice(s))
    BY <1>1, ReconcileGoneCalls, ReconcileSliceCalls DEF Caller
  <1>2. CASE (Gate \/ Pin \/ BindSpec \/ BindStatus) /\ AbandonCycle
    <2>1. UNCHANGED <<phase, nodeName>>
      <3>1. CASE Gate \/ Pin
        BY <3>1 DEF Gate, Pin, apiVars
      <3>2. CASE BindSpec \/ BindStatus
        <4>1. cycle # Idle /\ cycle' = Idle /\ cycle.step \in Placed
          BY <1>2, <3>2, CycleShape DEF BindSpec, BindStatus, Reconciling, AbandonCycle, Placed,
             Ledger
        <4>2. cycle'.step = "idle"
          BY <4>1 DEF Idle
        <4>3. \A x \in Placed : Advance(x) => cycle'.step = x
          BY <4>1, CycleShape DEF Advance, Ledger
        <4>4. ~ Advance("bindStatus") /\ ~ Advance("confirm")
          BY <4>2, <4>3 DEF Placed
        <4>5. QED BY <3>2, <4>4 DEF BindSpec, BindStatus
      <3>3. QED BY <1>2, <3>1, <3>2
    <2>2. cycle.s \in Slice
      BY <1>2, CycleShape DEF Gate, Pin, BindSpec, BindStatus, Reconciling, Placed, Ledger
    <2>3. QED BY <1>2, <2>1, <2>2, AbandonCalls DEF Caller
  <1>3. CASE Reconciler /\ UNCHANGED calls
    BY <1>3
  <1>4. CASE Reconciler
    BY <1>1, <1>2, <1>3, <1>4 DEF Reconciler, FailOrphan, ScheduleStart, Reserve, Gate, Pin,
          BindSpec, BindStatus, Confirm
  <1>5. CASE NodeReconciler \/ Seed
    BY <1>5 DEF NodeReconciler, ReconcileNodeGone, ReconcileNode, NodeUpdate, NodeList,
          Recharge, NodeWalked, NodeHealth, Seed, SeedListNodes, SeedRegister,
          SeedRegistered, SeedListSlices, SeedDone
  <1>6. CASE Janitor
    BY <1>6, JanitorForgetCalls DEF Janitor, Caller, JanitorSnapshot, JanitorList, JanitorDone
  <1>7. CASE Environment \/ (\E s \in Slice : reapExpiredAssumptions(s)) \/ UNCHANGED vars
    BY <1>7 DEF Environment, CreateSlice, MovePhase, RemoveSlice, Observe, NodeJoin, NodeLeave,
          NodeFlip, Failover, NoTakeOver, reapExpiredAssumptions, processVars, vars
  <1>8. QED BY <1>4, <1>5, <1>6, <1>7 DEF Next

LEMMA FirstCall ==
    ASSUME NEW S, NEW u \in S, NEW r \in Seq(S), NEW t \in Seq(S)
    PROVE  /\ (<<u>> \o r) \o t # <<>>
           /\ Head((<<u>> \o r) \o t) = u
           /\ Tail((<<u>> \o r) \o t) = r \o t
  <1>1. (<<u>> \o r) \o t = <<u>> \o (r \o t)
    OBVIOUS
  <1>2. r \o t \in Seq(S)
    OBVIOUS
  <1>3. \A q \in Seq(S) : <<u>> \o q # <<>> /\ Head(<<u>> \o q) = u /\ Tail(<<u>> \o q) = q
    OBVIOUS
  <1>4. QED BY <1>1, <1>2, <1>3

(* The call a goroutine makes next, and what it has left after it.          *)
LEMMA NextCall ==
    ASSUME Ledger, NEW g \in Caller, CacheCall(g)
    PROVE  LET c == Head(calls[g]) IN
           /\ c \in SaneCall /\ c \in BoundCall /\ c.s \in Slice /\ c.n \in Place
           /\ Tail(calls[g]) \in Seq(PlainCall)
           /\ UNCHANGED <<phase, nodeName, cycle>>
           /\ calls' = [calls EXCEPT ![g] = Continuation(c) \o Tail(calls[g])]
           /\ \/ c.op = "rollback"   /\ RollbackAssumedSlice(c.s)
              \/ c.op = "unconfirm"  /\ ReleaseConfirmedSlice(c.s)
              \/ c.op = "release"    /\ ReleaseSliceOnce(c.s)
              \/ c.op = "fail"       /\ FailSliceOnce(c.s)
              \/ c.op = "unallocate" /\ ReleaseAllocated(c.n, c.s)
              \/ c.op = "untomb"     /\ DropTombstone(c.s)
              \/ c.op = "promote"    /\ PromoteSliceToAllocatedOnce(c.s, c.n)
  <1> DEFINE c == Head(calls[g])
  <1>1. /\ calls[g] \in Seq(SaneCall) /\ calls[g] \in Seq(BoundCall) /\ calls[g] # <<>>
        /\ Tail(calls[g]) \in Seq(PlainCall)
    BY HoldsOfInv DEF Ledger, CapacityInv, CallsSane, PromotionsWhereBound, CacheCall
  <1>2. c \in SaneCall /\ c \in BoundCall
    BY <1>1, CallSequences
  <1>3. c.s \in Slice /\ c.n \in Place
    BY <1>2 DEF SaneCall, Call
  <1>4. QED BY <1>1, <1>2, <1>3 DEF CacheCall, apiVars, sliceVars

LEMMA CacheCallSane ==
    ASSUME Ledger, NEW g \in Caller, CacheCall(g) PROVE CallsSane'
  <1> DEFINE c == Head(calls[g])
             t == Tail(calls[g])
             u == call("unallocate", c.s, c.n)
  <1>1. /\ c \in SaneCall /\ t \in Seq(PlainCall) /\ UNCHANGED <<phase, nodeName>>
        /\ calls' = [calls EXCEPT ![g] = Continuation(c) \o t]
    BY NextCall
  <1>2. Continuation(c) \in Seq(SaneCall)
    BY <1>1, ContinuationSane
  <1>3. CASE Continuation(c) \in Seq(PlainCall)
    <2>1. Continuation(c) \o t \in Seq(PlainCall)
      BY <1>1, <1>3, CallSequences
    <2>2. PlainCallsOf(g)
      BY <1>1, <2>1 DEF PlainCallsOf
    <2>3. QED BY <2>2, PlainCallsSane
  <1>4. CASE \E r \in Seq(PlainCall) : Continuation(c) = <<u>> \o r
    <2> HIDE DEF c, t
    <2>1. PICK r \in Seq(PlainCall) : Continuation(c) = <<u>> \o r
      BY <1>4
    <2>2. r \in Seq(SaneCall) /\ t \in Seq(SaneCall) /\ u \in SaneCall
      <3>1. u \in SaneCall
        BY <1>1 DEF SaneCall, Call, call, Ops
      <3>2. QED BY <1>1, <2>1, <3>1, PlainIsSane
    <2> HIDE DEF u
    <2> DEFINE q == Continuation(c) \o t
    <2>3. Tail(q) = r \o t
      BY <2>1, <2>2, FirstCall
    <2>4. q \in Seq(SaneCall) /\ Tail(q) \in Seq(PlainCall)
      BY <1>1, <1>2, <2>1, <2>2, <2>3, CallSequences
    <2> HIDE DEF q
    <2>5. SaneCall' = SaneCall /\ PlainCall' = PlainCall
      BY <1>1 DEF SaneCall, PlainCall, Started
    <2>6. calls \in [Caller -> Seq(Call)]
      BY HoldsOfInv DEF Ledger, ProcessTypeOK
    <2>7. \A h \in Caller : calls'[h] = IF h = g THEN q ELSE calls[h]
      BY <1>1, <2>6 DEF q
    <2>8. QED BY <2>4, <2>5, <2>7 DEF CallsSane, Ledger, CapacityInv
  <1>5. QED BY <1>1, <1>3, <1>4, ContinuationSane

LEMMA CallsSaneStep ==
    ASSUME Ledger, NoLag, NoTakeOver, UniqueNames, JanitorCurrent, [Next]_vars PROVE CallsSane'
  <1>1. CASE \E g \in Caller : CacheCall(g)
    BY <1>1, CacheCallSane
  <1>2. CASE UNCHANGED calls
    <2>1. ObjectsSettle
      BY StepSettles
    <2>2. QED BY <1>2, <2>1, SaneGrow DEF CallsSane, Ledger, CapacityInv
  <1>3. CASE \E g \in Caller : PlainCallsOf(g)
    BY <1>3, PlainCallsSane
  <1>4. QED BY <1>1, <1>2, <1>3, CallsOfStep DEF Caller

-----------------------------------------------------------------------------
(* The allocated counter.                                                  *)

LEMMA CounterTypes ==
    ASSUME Ledger, NEW n \in Node
    PROVE  /\ allocatedVRAM \in [Node -> Nat] /\ allocatedVRAM[n] \in Nat
           /\ allocatedNodeBySlice \in [Slice -> Place] /\ nodes \subseteq Node
           /\ AllocatedOn(n) \in SUBSET Slice /\ Bytes[AllocatedOn(n)] \in Nat
           /\ AllocatedOn(n)' \in SUBSET Slice /\ Bytes[AllocatedOn(n)'] \in Nat
           /\ \A g \in Caller : Returning(g, n) \in Nat
  <1>1. /\ allocatedVRAM \in [Node -> Nat] /\ allocatedNodeBySlice \in [Slice -> Place]
        /\ nodes \subseteq Node
    BY HoldsOfInv DEF Ledger, HoldsOK, CacheTypeOK
  <1>2. AllocatedOn(n) \in SUBSET Slice /\ AllocatedOn(n)' \in SUBSET Slice
    BY DEF AllocatedOn
  <1>3. ASSUME NEW g \in Caller PROVE Returning(g, n) \in Nat
    <2>1. calls[g] \in Seq(Call)
      BY HoldsOfInv DEF Ledger, ProcessTypeOK
    <2>2. calls[g] # <<>> => Head(calls[g]) \in Call
      BY <2>1, CallSequences
    <2>3. calls[g] # <<>> => Head(calls[g]).s \in Slice
      BY <2>2 DEF Call
    <2>4. QED BY <2>3, SizeAssumption DEF Returning
  <1>4. QED BY <1>1, <1>2, <1>3, BytesAssumption

(* The counter of every node grows at least as its allocations do, and none  *)
(* begins to give back.                                                      *)
LEMMA CoverFrame ==
    ASSUME Ledger,
           \A n \in Node : \E d \in Nat :
               /\ allocatedVRAM'[n] = allocatedVRAM[n] + d
               /\ Bytes[AllocatedOn(n)'] <= Bytes[AllocatedOn(n)] + d,
           \A g \in Caller : \A n \in Node : Returning(g, n)' \in {Returning(g, n), 0}
    PROVE  AllocationsCovered'
  <1> SUFFICES ASSUME NEW n \in Node
               PROVE  Bytes[AllocatedOn(n)']
                          + Returning("reconciler", n)' + Returning("janitor", n)'
                          <= allocatedVRAM'[n]
    BY DEF AllocationsCovered
  <1>1. /\ allocatedVRAM[n] \in Nat /\ Bytes[AllocatedOn(n)] \in Nat
        /\ Bytes[AllocatedOn(n)'] \in Nat
        /\ Returning("reconciler", n) \in Nat /\ Returning("janitor", n) \in Nat
    BY CounterTypes DEF Caller
  <1>2. Bytes[AllocatedOn(n)] + Returning("reconciler", n) + Returning("janitor", n)
            <= allocatedVRAM[n]
    BY DEF Ledger, CapacityInv, AllocationsCovered
  <1>3. PICK d \in Nat : /\ allocatedVRAM'[n] = allocatedVRAM[n] + d
                         /\ Bytes[AllocatedOn(n)'] <= Bytes[AllocatedOn(n)] + d
    OBVIOUS
  <1>4. /\ Returning("reconciler", n)' \in {Returning("reconciler", n), 0}
        /\ Returning("janitor", n)' \in {Returning("janitor", n), 0}
    BY DEF Caller
  <1>5. QED BY <1>1, <1>2, <1>3, <1>4

(* Neither counters nor allocations change. *)
LEMMA SameAllocations ==
    ASSUME Ledger, UNCHANGED <<allocatedVRAM, allocatedNodeBySlice>>
    PROVE  \A n \in Node : \E d \in Nat :
               /\ allocatedVRAM'[n] = allocatedVRAM[n] + d
               /\ Bytes[AllocatedOn(n)'] <= Bytes[AllocatedOn(n)] + d
  <1> SUFFICES ASSUME NEW n \in Node
               PROVE  \E d \in Nat : /\ allocatedVRAM'[n] = allocatedVRAM[n] + d
                                     /\ Bytes[AllocatedOn(n)'] <= Bytes[AllocatedOn(n)] + d
    OBVIOUS
  <1>1. AllocatedOn(n)' = AllocatedOn(n) /\ allocatedVRAM'[n] = allocatedVRAM[n]
    BY DEF AllocatedOn
  <1>2. allocatedVRAM[n] \in Nat /\ Bytes[AllocatedOn(n)] \in Nat
    BY CounterTypes
  <1>3. /\ allocatedVRAM'[n] = allocatedVRAM[n] + 0
        /\ Bytes[AllocatedOn(n)'] <= Bytes[AllocatedOn(n)] + 0
    BY <1>1, <1>2
  <1>4. QED BY <1>3

(* A promotion charges a node the cache knows. *)
LEMMA PromotionCovers ==
    ASSUME Ledger, NEW s \in Slice, NEW m \in Node, nodeName[s] = m,
           PromoteSliceToAllocatedOnce(s, m)
    PROVE  \A n \in Node : \E d \in Nat :
               /\ allocatedVRAM'[n] = allocatedVRAM[n] + d
               /\ Bytes[AllocatedOn(n)'] <= Bytes[AllocatedOn(n)] + d
  <1>1. CASE syncedPhaseBySlice[s] = "Ready"
    BY <1>1, SameAllocations DEF PromoteSliceToAllocatedOnce, cacheVars
  <1>2. CASE syncedPhaseBySlice[s] # "Ready"
    <2> SUFFICES ASSUME NEW n \in Node
                 PROVE  \E d \in Nat : /\ allocatedVRAM'[n] = allocatedVRAM[n] + d
                                       /\ Bytes[AllocatedOn(n)'] <= Bytes[AllocatedOn(n)] + d
      OBVIOUS
    <2>1. m \in nodes
      BY NodeAssumption DEF Ledger, CapacityInv, BoundOnKnown
    <2>2. /\ allocatedVRAM' = [allocatedVRAM EXCEPT ![m] = @ + Req[s]]
          /\ allocatedNodeBySlice' = [allocatedNodeBySlice EXCEPT ![s] = m]
      BY <1>2, <2>1 DEF PromoteSliceToAllocatedOnce, promoteConfirmedToAllocatedLocked
    <2>3. /\ allocatedVRAM \in [Node -> Nat] /\ allocatedVRAM[n] \in Nat
          /\ allocatedNodeBySlice \in [Slice -> Place]
          /\ AllocatedOn(n) \in SUBSET Slice /\ Bytes[AllocatedOn(n)] \in Nat
          /\ Bytes[AllocatedOn(n)'] \in Nat /\ Req[s] \in Nat
      BY CounterTypes, SizeAssumption
    <2>4. CASE n = m
      <3>1. allocatedVRAM'[n] = allocatedVRAM[n] + Req[s]
        BY <2>2, <2>3, <2>4
      <3>2. AllocatedOn(n)' = AllocatedOn(n) \cup {s}
        BY <2>2, <2>3, <2>4 DEF AllocatedOn
      <3>3. Bytes[AllocatedOn(n)'] <= Bytes[AllocatedOn(n)] + Req[s]
        <4>1. CASE s \in AllocatedOn(n)
          <5>1. AllocatedOn(n)' = AllocatedOn(n)
            BY <3>2, <4>1
          <5>2. QED BY <2>3, <5>1
        <4>2. CASE s \notin AllocatedOn(n)
          <5>1. Bytes[AllocatedOn(n) \cup {s}] = Bytes[AllocatedOn(n)] + Req[s]
            BY <2>3, <4>2, BytesStep
          <5>2. Bytes[AllocatedOn(n)'] = Bytes[AllocatedOn(n)] + Req[s]
            BY <3>2, <5>1
          <5>3. QED BY <2>3, <5>2
        <4>3. QED BY <4>1, <4>2
      <3>4. QED BY <2>3, <3>1, <3>3
    <2>5. CASE n # m
      <3>1. allocatedVRAM'[n] = allocatedVRAM[n] + 0
        BY <2>2, <2>3, <2>5
      <3>2. AllocatedOn(n)' \in SUBSET AllocatedOn(n)
        BY <2>2, <2>3, <2>5 DEF AllocatedOn
      <3>3. Bytes[AllocatedOn(n)'] <= Bytes[AllocatedOn(n)] + 0
        BY <2>3, <3>2, BytesWithin
      <3>4. QED BY <3>1, <3>3
    <2>6. QED BY <2>4, <2>5
  <1>3. QED BY <1>1, <1>2

(* A goroutine that has only plain calls left gives nothing back.           *)
LEMMA NothingReturning ==
    ASSUME NEW g \in Caller, calls'[g] \in Seq(PlainCall), NEW n \in Node
    PROVE  Returning(g, n)' = 0
  <1>1. calls'[g] # <<>> => Head(calls'[g]) \in PlainCall
    BY CallSequences
  <1>2. QED BY <1>1 DEF PlainCall, Returning

(* The first section of ReleaseSliceOnce and of FailSliceOnce: what is no    *)
(* longer allocated is given back by the next call, on the same node.        *)
LEMMA TombstoneCovers ==
    ASSUME Ledger, NEW g \in Caller, CacheCall(g), NEW n \in Node,
           LET c == Head(calls[g]) IN
              \/ c.op = "release" /\ ReleaseSliceOnce(c.s)
              \/ c.op = "fail" /\ FailSliceOnce(c.s)
    PROVE  /\ allocatedVRAM' = allocatedVRAM
           /\ Returning(g, n) = 0
           /\ Returning(g, n)' \in Nat
           /\ Bytes[AllocatedOn(n)'] + Returning(g, n)' <= Bytes[AllocatedOn(n)]
  <1> DEFINE c == Head(calls[g])
             t == Tail(calls[g])
             u == call("unallocate", c.s, c.n)
  <1>1. /\ c \in SaneCall /\ c.s \in Slice /\ c.n \in Place /\ t \in Seq(PlainCall)
        /\ calls' = [calls EXCEPT ![g] = Continuation(c) \o t]
    BY NextCall
  <1>2. calls \in [Caller -> Seq(Call)]
    BY HoldsOfInv DEF Ledger, ProcessTypeOK
  <1>3. calls'[g] = Continuation(c) \o t
    BY <1>1, <1>2
  <1>4. c.op \in {"release", "fail"}
    OBVIOUS
  <1>5. \/ ReleaseSliceOnce(c.s) /\ c.op = "release"
        \/ FailSliceOnce(c.s) /\ c.op = "fail"
    OBVIOUS
  <1>6. Returning(g, n) = 0
    BY <1>4 DEF Returning
  <1>7. c.n # NoNode /\ nodeName[c.s] \in {NoNode, c.n}
    BY <1>1, <1>4 DEF SaneCall
  <1> DEFINE A == AllocatedOn(n)
  <1>8. /\ allocatedNodeBySlice \in [Slice -> Place] /\ A \in SUBSET Slice /\ Bytes[A] \in Nat
        /\ Bytes[A'] \in Nat /\ Req[c.s] \in Nat
    BY <1>1, CounterTypes, SizeAssumption
  <1>9. allocatedVRAM' = allocatedVRAM
    BY <1>5 DEF ReleaseSliceOnce, FailSliceOnce, cacheVars
  <1> HIDE DEF c, t
  <1>10. CASE \/ c.op = "release" /\ syncedPhaseBySlice[c.s] # "Released" /\ Allocated(c.s)
              \/ c.op = "fail" /\ FailApplies(c.s) /\ Allocated(c.s)
    <2>1. allocatedNodeBySlice' = [allocatedNodeBySlice EXCEPT ![c.s] = NoNode]
      BY <1>5, <1>10 DEF ReleaseSliceOnce, FailSliceOnce
    <2>2. \E r \in Seq(PlainCall) : Continuation(c) = <<u>> \o r
      <3>1. Continuation(c) = <<u>> \/ Continuation(c) = <<u>> \o <<call("unconfirm", c.s, NoNode)>>
        BY <1>10 DEF Continuation
      <3>2. <<u>> = <<u>> \o <<>>
        OBVIOUS
      <3>3. QED BY <1>1, <3>1, <3>2, PlainOfKind, PlainIsSane DEF Ops
    <2>3. calls'[g] # <<>> /\ Head(calls'[g]) = u
      <3>1. PICK r \in Seq(PlainCall) : Continuation(c) = <<u>> \o r
        BY <2>2
      <3>2. u \in SaneCall /\ r \in Seq(SaneCall) /\ t \in Seq(SaneCall)
        <4>1. u \in SaneCall
          BY <1>1 DEF SaneCall, Call, call, Ops
        <4>2. QED BY <1>1, <4>1, PlainIsSane
      <3> HIDE DEF u
      <3>3. QED BY <1>3, <3>1, <3>2, FirstCall
    <2>4. Returning(g, n)' = IF c.n = n THEN Req[c.s] ELSE 0
      BY <2>3 DEF Returning, call
    <2>5. allocatedNodeBySlice[c.s] = c.n
      BY <1>1, <1>7, <1>10 DEF Allocated, Ledger, CapacityInv, AllocatedWhereBound
    <2>6. A' = A \ {c.s}
      BY <1>8, <2>1, NodeAssumption DEF AllocatedOn
    <2>7. CASE c.n = n
      <3>1. c.s \in A
        BY <1>1, <2>5, <2>7 DEF AllocatedOn
      <3>2. Bytes[A] = Bytes[A \ {c.s}] + Req[c.s]
        BY <1>8, <3>1, BytesStep
      <3>3. Bytes[A'] + Req[c.s] = Bytes[A]
        <4> HIDE DEF A
        <4>1. QED BY <1>8, <2>6, <3>2
      <3>4. QED BY <1>6, <1>8, <1>9, <2>4, <2>7, <3>3
    <2>8. CASE c.n # n
      <3>1. c.s \notin A
        BY <2>5, <2>8 DEF AllocatedOn
      <3>2. A' = A
        BY <2>6, <3>1
      <3>3. QED BY <1>6, <1>8, <1>9, <2>4, <2>8, <3>2
    <2>9. QED BY <2>7, <2>8
  <1>11. CASE ~ \/ c.op = "release" /\ syncedPhaseBySlice[c.s] # "Released" /\ Allocated(c.s)
                \/ c.op = "fail" /\ FailApplies(c.s) /\ Allocated(c.s)
    <2>1. Continuation(c) \in {<<>>, <<>> \o <<call("unconfirm", c.s, NoNode)>>}
      BY <1>4, <1>11 DEF Continuation
    <2>2. Continuation(c) \in Seq(PlainCall)
      <3>1. <<>> \in Seq(PlainCall) /\ <<call("unconfirm", c.s, NoNode)>> \in Seq(PlainCall)
        BY <1>1, PlainOfKind, PlainIsSane DEF Ops
      <3>2. QED BY <2>1, <3>1, CallSequences
    <2>3. Returning(g, n)' = 0
      BY <1>1, <1>3, <2>2, CallSequences, NothingReturning
    <2>4. A' \subseteq A
      <3>1. allocatedNodeBySlice' \in
               {allocatedNodeBySlice, [allocatedNodeBySlice EXCEPT ![c.s] = NoNode]}
        BY <1>5 DEF ReleaseSliceOnce, FailSliceOnce, cacheVars
      <3>2. QED BY <1>8, <3>1, NodeAssumption DEF AllocatedOn
    <2>5. Bytes[A'] <= Bytes[A]
      BY <1>8, <2>4, BytesWithin
    <2>6. QED BY <1>6, <1>8, <1>9, <2>3, <2>5
  <1>12. QED BY <1>10, <1>11

LEMMA CacheCallCovers ==
    ASSUME Ledger, NEW g \in Caller, CacheCall(g) PROVE AllocationsCovered'
  <1> DEFINE c == Head(calls[g])
             t == Tail(calls[g])
  <1>1. /\ c \in SaneCall /\ c \in BoundCall /\ c.s \in Slice /\ c.n \in Place
        /\ t \in Seq(PlainCall)
        /\ calls' = [calls EXCEPT ![g] = Continuation(c) \o t]
        /\ \/ c.op = "rollback"   /\ RollbackAssumedSlice(c.s)
           \/ c.op = "unconfirm"  /\ ReleaseConfirmedSlice(c.s)
           \/ c.op = "release"    /\ ReleaseSliceOnce(c.s)
           \/ c.op = "fail"       /\ FailSliceOnce(c.s)
           \/ c.op = "unallocate" /\ ReleaseAllocated(c.n, c.s)
           \/ c.op = "untomb"     /\ DropTombstone(c.s)
           \/ c.op = "promote"    /\ PromoteSliceToAllocatedOnce(c.s, c.n)
    BY NextCall
  <1>2. calls \in [Caller -> Seq(Call)]
    BY HoldsOfInv DEF Ledger, ProcessTypeOK
  <1>3. calls'[g] = Continuation(c) \o t /\ \A h \in Caller \ {g} : calls'[h] = calls[h]
    BY <1>1, <1>2
  <1>4. \A h \in Caller \ {g} : \A n \in Node : Returning(h, n)' = Returning(h, n)
    BY <1>3 DEF Returning
  <1>5. c.op \notin {"release", "fail"} => \A n \in Node : Returning(g, n)' = 0
    <2> SUFFICES ASSUME c.op \notin {"release", "fail"} PROVE \A n \in Node : Returning(g, n)' = 0
      OBVIOUS
    <2> HIDE DEF c, t
    <2>1. Continuation(c) = <<>>
      BY DEF Continuation
    <2>2. calls'[g] \in Seq(PlainCall)
      BY <1>1, <1>3, <2>1
    <2>3. QED BY <2>2, NothingReturning
  <1>6. CASE c.op \in {"rollback", "unconfirm", "untomb", "promote"}
    <2>1. \A h \in Caller : \A n \in Node : Returning(h, n)' \in {Returning(h, n), 0}
      BY <1>4, <1>5, <1>6
    <2>2. \A n \in Node : \E d \in Nat :
             /\ allocatedVRAM'[n] = allocatedVRAM[n] + d
             /\ Bytes[AllocatedOn(n)'] <= Bytes[AllocatedOn(n)] + d
      <3>1. CASE c.op = "promote"
        <4>1. c.n \in Node /\ nodeName[c.s] = c.n /\ PromoteSliceToAllocatedOnce(c.s, c.n)
          BY <1>1, <3>1 DEF BoundCall
        <4>2. QED BY <1>1, <4>1, PromotionCovers
      <3>2. CASE c.op # "promote"
        <4>1. UNCHANGED <<allocatedVRAM, allocatedNodeBySlice>>
          BY <1>1, <1>6, <3>2 DEF RollbackAssumedSlice, ReleaseConfirmedSlice, DropTombstone
        <4>2. QED BY <4>1, SameAllocations
      <3>3. QED BY <3>1, <3>2
    <2>3. QED BY <2>1, <2>2, CoverFrame
  <1>7. CASE c.op \in {"release", "fail", "unallocate"}
    <2>1. ASSUME NEW n \in Node
          PROVE  \A k \in Nat :
                    Bytes[AllocatedOn(n)] + Returning(g, n) + k <= allocatedVRAM[n] =>
                        Bytes[AllocatedOn(n)'] + Returning(g, n)' + k <= allocatedVRAM'[n]
      <3>1. /\ allocatedVRAM \in [Node -> Nat] /\ allocatedVRAM[n] \in Nat
            /\ Bytes[AllocatedOn(n)] \in Nat /\ Bytes[AllocatedOn(n)'] \in Nat
            /\ Returning(g, n) \in Nat /\ nodes \subseteq Node /\ Req[c.s] \in Nat
        BY <1>1, CounterTypes, SizeAssumption
      <3>2. CASE c.op \in {"release", "fail"}
        <4>1. /\ allocatedVRAM' = allocatedVRAM /\ Returning(g, n) = 0
              /\ Returning(g, n)' \in Nat
              /\ Bytes[AllocatedOn(n)'] + Returning(g, n)' <= Bytes[AllocatedOn(n)]
          BY <1>1, <3>2, TombstoneCovers
        <4>2. allocatedVRAM'[n] = allocatedVRAM[n]
          BY <4>1
        <4>3. QED BY <3>1, <4>1, <4>2
      <3>3. CASE c.op = "unallocate"
        <4>1. /\ allocatedVRAM' = Discharge(allocatedVRAM, c.n, c.s)
              /\ UNCHANGED allocatedNodeBySlice
          BY <1>1, <3>3 DEF ReleaseAllocated
        <4>2. AllocatedOn(n)' = AllocatedOn(n) /\ Returning(g, n)' = 0
          BY <1>5, <3>3, <4>1 DEF AllocatedOn
        <4>3. Returning(g, n) = IF c.n = n THEN Req[c.s] ELSE 0
          BY <3>3 DEF Returning, CacheCall
        <4>4. allocatedVRAM'[n] = IF n = c.n /\ c.n \in nodes
                                    THEN Floor(allocatedVRAM[n], Req[c.s]) ELSE allocatedVRAM[n]
          BY <1>1, <3>1, <4>1, CounterStep
        <4>5. CASE n = c.n /\ c.n \in nodes
          <5>1. /\ allocatedVRAM'[n] = Floor(allocatedVRAM[n], Req[c.s])
                /\ Returning(g, n) = Req[c.s]
            BY <4>3, <4>4, <4>5
          <5>2. Bytes[AllocatedOn(n)'] = Bytes[AllocatedOn(n)]
            BY <4>2
          <5> HIDE DEF c
          <5>3. QED BY <3>1, <4>2, <5>1, <5>2 DEF Floor
        <4>6. CASE ~ (n = c.n /\ c.n \in nodes)
          <5>1. allocatedVRAM'[n] = allocatedVRAM[n]
            BY <4>4, <4>6
          <5>2. Bytes[AllocatedOn(n)'] = Bytes[AllocatedOn(n)]
            BY <4>2
          <5> HIDE DEF c
          <5>3. QED BY <3>1, <4>2, <5>1, <5>2
        <4>7. QED BY <4>5, <4>6
      <3>4. QED BY <1>7, <3>2, <3>3
    <2> SUFFICES ASSUME NEW n \in Node
                 PROVE  Bytes[AllocatedOn(n)'] + Returning("reconciler", n)'
                            + Returning("janitor", n)' <= allocatedVRAM'[n]
      BY DEF AllocationsCovered
    <2>2. PICK h \in Caller : h # g /\ Caller = {g, h}
      BY DEF Caller
    <2>3. Bytes[AllocatedOn(n)] + Returning(g, n) + Returning(h, n) <= allocatedVRAM[n]
      <3>1. /\ Bytes[AllocatedOn(n)] \in Nat /\ Returning(g, n) \in Nat
            /\ Returning(h, n) \in Nat
        BY CounterTypes
      <3>2. Bytes[AllocatedOn(n)] + Returning("reconciler", n) + Returning("janitor", n)
                <= allocatedVRAM[n]
        BY DEF Ledger, CapacityInv, AllocationsCovered
      <3>3. CASE g = "reconciler" /\ h = "janitor"
        BY <3>2, <3>3
      <3>4. CASE g = "janitor" /\ h = "reconciler"
        BY <3>1, <3>2, <3>4
      <3>5. QED BY <2>2, <3>3, <3>4 DEF Caller
    <2>4. /\ allocatedVRAM[n] \in Nat /\ Bytes[AllocatedOn(n)] \in Nat
          /\ Bytes[AllocatedOn(n)'] \in Nat /\ Returning(g, n) \in Nat /\ Returning(h, n) \in Nat
      BY CounterTypes
    <2>5. Returning(h, n)' = Returning(h, n)
      BY <1>4, <2>2
    <2>6. /\ allocatedVRAM' \in [Node -> Nat]
          /\ Returning(g, n)' \in Nat
      <3>1. CASE c.op \in {"release", "fail"}
        BY <1>1, <3>1, <2>4, CounterTypes, TombstoneCovers
      <3>2. CASE c.op = "unallocate"
        <4>1. allocatedVRAM' = Discharge(allocatedVRAM, c.n, c.s) /\ Returning(g, n)' = 0
          BY <1>1, <1>5, <3>2 DEF ReleaseAllocated
        <4>2. nodes \subseteq Node /\ allocatedVRAM \in [Node -> Nat]
          BY CounterTypes
        <4>3. QED BY <1>1, <4>1, <4>2, CounterStep
      <3>3. QED BY <1>7, <3>1, <3>2
    <2>7. Bytes[AllocatedOn(n)'] + Returning(g, n)' + Returning(h, n)' <= allocatedVRAM'[n]
      <3>1. allocatedVRAM'[n] \in Nat
        BY <2>6
      <3>2. Bytes[AllocatedOn(n)'] + Returning(g, n)' + Returning(h, n) <= allocatedVRAM'[n]
        BY <2>1, <2>3, <2>4
      <3>3. QED BY <2>5, <3>2
    <2>8. CASE g = "reconciler" /\ h = "janitor"
      BY <2>7, <2>8
    <2>9. CASE g = "janitor" /\ h = "reconciler"
      BY <2>4, <2>5, <2>6, <2>7, <2>9
    <2>10. QED BY <2>2, <2>8, <2>9 DEF Caller
  <1>8. QED BY <1>1, <1>6, <1>7

LEMMA AllocationsStay ==
    ASSUME Ledger, NoTakeOver, [Next]_vars, ~ CacheCall("reconciler"), ~ CacheCall("janitor"),
           \A w \in Walker : ~ Recharge(w)
    PROVE  UNCHANGED <<allocatedVRAM, allocatedNodeBySlice>>
  <1>1. CASE Reconciler
    BY <1>1 DEF Reconciler, ReconcileGone, ReconcileSlice, FailOrphan, ScheduleStart, Reserve,
         AssumeSlice, Gate, Pin, BindSpec, BindStatus, Confirm, ConfirmSliceOrRearm, cacheVars
  <1>2. CASE NodeReconciler \/ Seed
    <2>1. ASSUME NEW n \in Node PROVE ~ ReconcileNodeGone(n)
      BY DEF Ledger, ChargeInv, ReconcileNodeGone
    <2>2. QED BY <1>2, <2>1 DEF NodeReconciler, ReconcileNode, NodeUpdate, NodeList,
         NodeWalked, NodeHealth, Seed, SeedListNodes, SeedRegister, SeedRegistered,
         SeedListSlices, SeedDone, UpdateNode, SetNodeHealth, MarkSeeded, Walker, cacheVars
  <1>3. CASE Janitor
    BY <1>3 DEF Janitor, JanitorSnapshot, JanitorList, JanitorForget, JanitorDone, cacheVars
  <1>4. CASE Environment \/ (\E s \in Slice : reapExpiredAssumptions(s)) \/ UNCHANGED vars
    BY <1>4 DEF Environment, CreateSlice, MovePhase, RemoveSlice, Observe, NodeJoin, NodeLeave,
         NodeFlip, Failover, NoTakeOver, reapExpiredAssumptions, RollbackAssumedSlice,
         processVars, cacheVars, vars
  <1>5. QED BY <1>1, <1>2, <1>3, <1>4 DEF Next

LEMMA AllocationsCoveredStep ==
    ASSUME Ledger, NoLag, NoTakeOver, JanitorCurrent, [Next]_vars PROVE AllocationsCovered'
  <1>1. CASE \E g \in Caller : CacheCall(g)
    BY <1>1, CacheCallCovers
  <1>2. CASE ~ \E g \in Caller : CacheCall(g)
    <2>1. \A g \in Caller : \A n \in Node : Returning(g, n)' \in {Returning(g, n), 0}
      <3>1. CASE UNCHANGED calls
        BY <3>1 DEF Returning
      <3>2. CASE \E g \in Caller : PlainCallsOf(g)
        <4>1. PICK g \in Caller : PlainCallsOf(g)
          BY <3>2
        <4>2. PICK q \in Seq(PlainCall) : calls' = [calls EXCEPT ![g] = q]
          BY <4>1 DEF PlainCallsOf
        <4>3. PlainCall' = PlainCall
          BY <4>1 DEF PlainCallsOf, PlainCall, SaneCall, Started
        <4>4. calls'[g] = q /\ \A h \in Caller \ {g} : calls'[h] = calls[h]
          BY <4>2, HoldsOfInv DEF Ledger, ProcessTypeOK
        <4>5. \A n \in Node : Returning(g, n)' = 0
          BY <4>4, NothingReturning
        <4>6. \A h \in Caller \ {g} : \A n \in Node : Returning(h, n)' = Returning(h, n)
          BY <4>4 DEF Returning
        <4>7. QED BY <4>5, <4>6
      <3>3. QED BY <1>2, <3>1, <3>2, CallsOfStep DEF Caller
    <2>2. \A n \in Node : \E d \in Nat :
             /\ allocatedVRAM'[n] = allocatedVRAM[n] + d
             /\ Bytes[AllocatedOn(n)'] <= Bytes[AllocatedOn(n)] + d
      <3>1. CASE \E w \in Walker : Recharge(w)
        <4>1. PICK w \in Walker : Recharge(w)
          BY <3>1
        <4>2. PICK p \in walk[w] : PromoteSliceToAllocatedOnce(p[1], p[2])
          BY <4>1 DEF Recharge
        <4>3. p[1] \in Slice /\ p[2] \in Node /\ nodeName[p[1]] = p[2]
          BY HoldsOfInv DEF Ledger, ProcessTypeOK, PromotionsWhereBound
        <4>4. QED BY <4>2, <4>3, PromotionCovers
      <3>2. CASE ~ \E w \in Walker : Recharge(w)
        BY <1>2, <3>2, AllocationsStay, SameAllocations DEF Caller
      <3>3. QED BY <3>1, <3>2
    <2>3. QED BY <2>1, <2>2, CoverFrame
  <1>3. QED BY <1>1, <1>2

-----------------------------------------------------------------------------
(* What is sold.                                                           *)

Sites(s) == {assumedBySlice[s], confirmedBySlice[s], allocatedNodeBySlice[s]}

LEMMA SoldFrame ==
    ASSUME Ledger, PhasesSettle,
           \A s \in Slice : \A n \in Node : n \in Sites(s)' /\ Unfinished(s) => s \in SoldTo(n),
           \/ cycle' = cycle
           \/ cycle'.step \in Committed /\ cycle'.s \in Slice /\ cycle'.n \in Node
                  /\ Unfinished(cycle'.s) => cycle'.s \in SoldTo(cycle'.n)
    PROVE  SoldWithinCapacity'
  <1> SUFFICES ASSUME NEW n \in Node PROVE Bytes[SoldTo(n)'] <= Capacity[n]
    BY DEF SoldWithinCapacity
  <1>1. \A s \in Slice : Unfinished(s)' => Unfinished(s)
    BY DEF PhasesSettle, Unfinished
  <1>2. ASSUME NEW s \in SoldTo(n)' PROVE s \in SoldTo(n)
    <2>1. s \in Slice /\ Unfinished(s)
      BY <1>1 DEF SoldTo
    <2>2. CASE n \in Sites(s)'
      BY <2>1, <2>2
    <2>3. CASE n \notin Sites(s)'
      <3>1. cycle'.step \in Committed /\ cycle'.s = s /\ cycle'.n = n
        BY <2>3 DEF SoldTo, Sites
      <3>2. CASE cycle' = cycle
        BY <2>1, <3>1, <3>2 DEF SoldTo
      <3>3. CASE cycle' # cycle
        BY <2>1, <3>1, <3>3
      <3>4. QED BY <3>2, <3>3
    <2>4. QED BY <2>2, <2>3
  <1>3. SoldTo(n) \in SUBSET Slice /\ SoldTo(n)' \in SUBSET SoldTo(n)
    BY <1>2 DEF SoldTo
  <1>4. Bytes[SoldTo(n)'] <= Bytes[SoldTo(n)] /\ Bytes[SoldTo(n)] <= Capacity[n]
    BY <1>3, BytesWithin DEF Ledger, CapacityInv, SoldWithinCapacity
  <1>5. Bytes[SoldTo(n)'] \in Nat /\ Bytes[SoldTo(n)] \in Nat /\ Capacity[n] \in Nat
    BY <1>3, BytesAssumption, SizeAssumption
  <1>6. QED BY <1>4, <1>5

(* A slice that has started and is bound to a node has been sold to it. *)
LEMMA BoundIsSold ==
    ASSUME Ledger, NEW s \in Slice, NEW n \in Node, nodeName[s] = n, Started(s), Unfinished(s)
    PROVE  s \in SoldTo(n)
  <1>1. phase[s] \in Occupying
    BY HoldsOfInv DEF Ledger, ProcessTypeOK, Phases, Started, Unfinished, Finished, Occupying
  <1>2. \/ n \in {confirmedBySlice[s], allocatedNodeBySlice[s]}
        \/ cycle = [step |-> "confirm", s |-> s, n |-> n]
    BY <1>1, NodeAssumption DEF Ledger, ChargeInv, ChargedWhereBound
  <1>3. QED BY <1>2 DEF SoldTo, Committed, Placed

LEMMA SoldSites ==
    ASSUME NEW s \in Slice, NEW n \in Node, n \in Sites(s), Unfinished(s) PROVE s \in SoldTo(n)
  BY DEF Sites, SoldTo

(* Sections that only take holds and allocations away. *)
LEMMA SitesShrink ==
    ASSUME Shrinks(assumedBySlice, assumedBySlice'), Shrinks(confirmedBySlice, confirmedBySlice'),
           Shrinks(allocatedNodeBySlice, allocatedNodeBySlice')
    PROVE  \A s \in Slice : \A n \in Node : n \in Sites(s)' /\ Unfinished(s) => s \in SoldTo(n)
  BY SoldSites, NodeAssumption DEF Shrinks, Sites

LEMMA PromotionSells ==
    ASSUME Ledger, NEW t \in Slice, NEW m \in Node, nodeName[t] = m, Started(t),
           PromoteSliceToAllocatedOnce(t, m)
    PROVE  \A s \in Slice : \A n \in Node : n \in Sites(s)' /\ Unfinished(s) => s \in SoldTo(n)
  <1>1. /\ confirmedBySlice \in [Slice -> Place] /\ allocatedNodeBySlice \in [Slice -> Place]
    BY HoldsOfInv DEF Ledger, HoldsOK, CacheTypeOK
  <1>2. \A s \in Slice : /\ assumedBySlice'[s] = assumedBySlice[s]
                         /\ confirmedBySlice'[s] \in {confirmedBySlice[s], NoNode}
                         /\ \/ allocatedNodeBySlice'[s] = allocatedNodeBySlice[s]
                            \/ s = t /\ allocatedNodeBySlice'[s] = m
    BY <1>1 DEF PromoteSliceToAllocatedOnce, promoteConfirmedToAllocatedLocked, cacheVars
  <1> SUFFICES ASSUME NEW s \in Slice, NEW n \in Node, n \in Sites(s)', Unfinished(s)
               PROVE  s \in SoldTo(n)
    OBVIOUS
  <1>3. n \in Sites(s) \/ (s = t /\ n = m)
    BY <1>2, NodeAssumption DEF Sites
  <1>4. QED BY <1>3, SoldSites, BoundIsSold

LEMMA CacheCallSold ==
    ASSUME Ledger, NEW g \in Caller, CacheCall(g) PROVE SoldWithinCapacity'
  <1> DEFINE c == Head(calls[g])
  <1>1. /\ c \in SaneCall /\ c \in BoundCall /\ c.s \in Slice /\ c.n \in Place
        /\ UNCHANGED <<phase, nodeName, cycle>>
        /\ \/ c.op = "rollback"   /\ RollbackAssumedSlice(c.s)
           \/ c.op = "unconfirm"  /\ ReleaseConfirmedSlice(c.s)
           \/ c.op = "release"    /\ ReleaseSliceOnce(c.s)
           \/ c.op = "fail"       /\ FailSliceOnce(c.s)
           \/ c.op = "unallocate" /\ ReleaseAllocated(c.n, c.s)
           \/ c.op = "untomb"     /\ DropTombstone(c.s)
           \/ c.op = "promote"    /\ PromoteSliceToAllocatedOnce(c.s, c.n)
    BY NextCall
  <1> HIDE DEF c
  <1>2. PhasesSettle
    BY <1>1, SamePhases
  <1>3. /\ assumedBySlice \in [Slice -> Place] /\ confirmedBySlice \in [Slice -> Place]
        /\ allocatedNodeBySlice \in [Slice -> Place]
    BY HoldsOfInv DEF Ledger, HoldsOK, CacheTypeOK
  <1>4. CASE c.op = "promote"
    <2>1. c.n \in Node /\ nodeName[c.s] = c.n /\ Started(c.s)
          /\ PromoteSliceToAllocatedOnce(c.s, c.n)
      BY <1>1, <1>4 DEF BoundCall, SaneCall
    <2>2. QED BY <1>1, <1>2, <2>1, PromotionSells, SoldFrame
  <1>5. CASE c.op # "promote"
    <2>1. /\ Shrinks(assumedBySlice, assumedBySlice')
          /\ Shrinks(confirmedBySlice, confirmedBySlice')
          /\ Shrinks(allocatedNodeBySlice, allocatedNodeBySlice')
      BY <1>1, <1>3, <1>5 DEF Shrinks, RollbackAssumedSlice, ReleaseConfirmedSlice,
           ReleaseSliceOnce, FailSliceOnce, ReleaseAllocated, DropTombstone, cacheVars
    <2>2. QED BY <1>1, <1>2, <2>1, SitesShrink, SoldFrame
  <1>6. QED BY <1>4, <1>5

(* Sections that leave the three maps alone. *)
LEMMA SoldKept ==
    ASSUME Ledger, PhasesSettle, SameMaps,
           \/ cycle' = cycle
           \/ cycle'.step \in Committed /\ cycle'.s \in Slice /\ cycle'.n \in Node
                  /\ Unfinished(cycle'.s) => cycle'.s \in SoldTo(cycle'.n)
    PROVE  SoldWithinCapacity'
  <1>1. \A s \in Slice : \A n \in Node : n \in Sites(s)' /\ Unfinished(s) => s \in SoldTo(n)
    BY SoldSites DEF SameMaps, Sites
  <1>2. QED BY <1>1, SoldFrame

(* The one step that sells: the hold fits beside everything that is charged, *)
(* and everything that is sold to the node is charged.                       *)
LEMMA ReserveSold ==
    ASSUME Ledger, Reserve, AssumeSlice(cycle.s, cycle.n) PROVE SoldWithinCapacity'
  <1>a. /\ cycle.step \in Placed /\ Advance("gate") /\ UNCHANGED phase
        /\ cycle.s \in Slice /\ cycle.n \in Node
    BY CycleShape DEF Reserve, Reconciling, AssumeSlice, Placed, Ledger, apiVars
  <1> SUFFICES ASSUME NEW s \in Slice, NEW m \in Node, s = cycle.s, m = cycle.n
               PROVE  SoldWithinCapacity'
    BY <1>a
  <1>1. /\ s \in Slice /\ m \in Node /\ cycle'.s = s /\ cycle'.n = m
        /\ UNCHANGED phase
    BY <1>a, CycleShape DEF Advance, Placed, Ledger
  <1>2. /\ m \in nodes /\ Req[s] <= FreeVRAM(m)
        /\ assumedBySlice' = [assumedBySlice EXCEPT ![s] = m]
        /\ UNCHANGED <<confirmedBySlice, allocatedNodeBySlice>>
    BY DEF AssumeSlice, CanAssume, CanFit
  <1>3. assumedBySlice \in [Slice -> Place] /\ \A t \in Slice : phase'[t] = phase[t]
    BY <1>1, HoldsOfInv DEF Ledger, HoldsOK, CacheTypeOK
  <1>4. assumedBySlice'[s] = m /\ \A t \in Slice \ {s} : assumedBySlice'[t] = assumedBySlice[t]
    BY <1>1, <1>2, <1>3
  <1>5. ASSUME NEW n \in Node, n # m PROVE SoldTo(n)' \subseteq SoldTo(n)
    BY <1>1, <1>2, <1>3, <1>4, <1>5 DEF SoldTo, Unfinished
  <1>6. SoldTo(m)' \subseteq HeldOn(m) \cup AllocatedOn(m) \cup {s}
    <2> SUFFICES ASSUME NEW t \in SoldTo(m)', t # s PROVE t \in HeldOn(m) \cup AllocatedOn(m)
      OBVIOUS
    <2>1. t \in Slice /\ m \in Sites(t)'
      BY <1>1 DEF SoldTo, Sites
    <2>2. Sites(t)' = Sites(t)
      BY <1>2, <1>4, <2>1 DEF Sites
    <2>3. QED BY <2>1, <2>2 DEF Sites, HeldOn, AllocatedOn
  <1>7. Bytes[SoldTo(m)'] <= Capacity[m]
    <2> DEFINE H == HeldOn(m)  A == AllocatedOn(m)  X == SoldTo(m)'
    <2>1. H \in SUBSET Slice /\ A \in SUBSET Slice /\ {s} \in SUBSET Slice
      BY <1>1 DEF HeldOn, AllocatedOn
    <2>2. Bytes[{s}] = Req[s]
      <3>1. {s} \ {s} = {} /\ s \in {s}
        OBVIOUS
      <3>2. Bytes[{s}] = Bytes[{}] + Req[s]
        BY <2>1, <3>1, BytesStep
      <3>3. QED BY <1>1, <3>2, BytesAssumption, SizeAssumption
    <2>3. Bytes[H] = reservedVRAM[m] /\ Bytes[A] <= allocatedVRAM[m]
      <3>1. Bytes[H] = reservedVRAM[m]
        BY <1>1 DEF Ledger, ExactInv, ExactOK, ReservationsExact
      <3>2. Bytes[A] + Returning("reconciler", m) + Returning("janitor", m) <= allocatedVRAM[m]
        BY <1>1 DEF Ledger, CapacityInv, AllocationsCovered
      <3>3. /\ Bytes[A] \in Nat /\ allocatedVRAM[m] \in Nat
            /\ Returning("reconciler", m) \in Nat /\ Returning("janitor", m) \in Nat
        BY <1>1, CounterTypes DEF Caller
      <3> HIDE DEF A, H
      <3>4. QED BY <3>1, <3>2, <3>3
    <2>4. reservedVRAM[m] \in Nat /\ allocatedVRAM[m] \in Nat
      BY <1>1, HoldsOfInv DEF Ledger, HoldsOK, CacheTypeOK
    <2>5. allocatedVRAM[m] + reservedVRAM[m] + Req[s] <= Capacity[m]
      BY <1>1, <1>2, <2>4, SizeAssumption DEF FreeVRAM, Floor
    <2> HIDE DEF H, A
    <2>6. Bytes[H \cup A \cup {s}] <= Bytes[H \cup A] + Req[s]
          /\ Bytes[H \cup A] <= Bytes[H] + Bytes[A]
      <3>1. H \cup A \in SUBSET Slice
        BY <2>1
      <3>2. QED BY <2>1, <2>2, <3>1, BytesUnion
    <2>7. X \in SUBSET (H \cup A \cup {s}) /\ H \cup A \cup {s} \in SUBSET Slice
      BY <1>6, <2>1 DEF H, A
    <2> HIDE DEF X
    <2>8. Bytes[X] <= Bytes[H \cup A \cup {s}]
      BY <2>7, BytesWithin
    <2>9. /\ Bytes[X] \in Nat /\ Bytes[H \cup A \cup {s}] \in Nat /\ Bytes[H \cup A] \in Nat
          /\ Bytes[H] \in Nat /\ Bytes[A] \in Nat /\ Req[s] \in Nat /\ Capacity[m] \in Nat
      BY <1>1, <2>1, <2>7, BytesAssumption, SizeAssumption
    <2>10. Bytes[X] <= Capacity[m]
      BY <2>3, <2>4, <2>5, <2>6, <2>8, <2>9
    <2>11. QED BY <2>10 DEF X
  <1>8. ASSUME NEW n \in Node, n # m PROVE Bytes[SoldTo(n)'] <= Capacity[n]
    <2>1. SoldTo(n) \in SUBSET Slice /\ SoldTo(n)' \in SUBSET SoldTo(n)
      BY <1>5, <1>8 DEF SoldTo
    <2>2. Bytes[SoldTo(n)'] <= Bytes[SoldTo(n)] /\ Bytes[SoldTo(n)] <= Capacity[n]
      BY <2>1, BytesWithin DEF Ledger, CapacityInv, SoldWithinCapacity
    <2>3. Bytes[SoldTo(n)'] \in Nat /\ Bytes[SoldTo(n)] \in Nat /\ Capacity[n] \in Nat
      BY <2>1, BytesAssumption, SizeAssumption
    <2>4. QED BY <2>2, <2>3
  <1>9. \A n \in Node : Bytes[SoldTo(n)'] <= Capacity[n]
    BY <1>7, <1>8
  <1>10. QED BY <1>9 DEF SoldWithinCapacity

(* The other steps of the slice reconciler: a committed cycle goes on with   *)
(* what it was sold, Confirm makes it a confirmed hold.                      *)
LEMMA CycleSold ==
    ASSUME Ledger, PhasesSettle, Reconciler, ~ CacheCall("reconciler") PROVE SoldWithinCapacity'
  <1>1. CASE (\E nm \in Name : ReconcileGone(nm)) \/ (\E s \in Slice : ReconcileSlice(s))
             \/ FailOrphan
    <2>1. SameMaps
      BY <1>1 DEF ReconcileGone, ReconcileSlice, FailOrphan, cacheVars, SameMaps
    <2>2. cycle' = cycle \/ cycle'.step \notin Committed
      <3>1. \A s \in Slice : ReconcileSlice(s) =>
               cycle' \in {Idle, [step |-> "schedule", s |-> s, n |-> NoNode]}
        BY DEF ReconcileSlice
      <3>2. QED BY <1>1, <3>1 DEF ReconcileGone, FailOrphan, Idle, Committed, Placed
    <2>3. QED BY <2>1, <2>2, SoldKept
  <1>2. CASE ScheduleStart
    <2>1. SameMaps
      BY <1>2 DEF ScheduleStart, cacheVars, SameMaps
    <2>2. \/ cycle'.step \notin Committed
          \/ cycle'.s = cycle.s /\ cycle'.n = assumedBySlice[cycle.s]
      BY <1>2 DEF ScheduleStart, Idle, Committed, Placed
    <2>3. cycle'.step \in Committed /\ cycle'.s \in Slice /\ cycle'.n \in Node
             /\ Unfinished(cycle'.s) => cycle'.s \in SoldTo(cycle'.n)
      BY <2>2 DEF SoldTo
    <2>4. QED BY <2>1, <2>3, SoldKept
  <1>3. CASE Reserve
    <2>1. CASE AssumeSlice(cycle.s, cycle.n)
      BY <1>3, <2>1, ReserveSold
    <2>2. CASE cycle' = Idle /\ UNCHANGED cacheVars
      BY <2>2, SoldKept DEF cacheVars, SameMaps, Idle, Committed, Placed
    <2>3. QED BY <1>3, <2>1, <2>2 DEF Reserve
  <1>4. CASE Gate \/ Pin \/ BindSpec \/ BindStatus
    <2>1. SameMaps
      BY <1>4 DEF Gate, Pin, BindSpec, BindStatus, cacheVars, SameMaps
    <2>2. cycle.step \in Committed /\ cycle.step \in Placed /\ cycle.s \in Slice /\ cycle.n \in Node
      BY <1>4, CycleShape DEF Gate, Pin, BindSpec, BindStatus, Reconciling, Ledger, Committed,
           Placed
    <2>3. \A x \in Placed : Advance(x) => cycle'.s = cycle.s /\ cycle'.n = cycle.n
      BY <2>2, CycleShape DEF Advance, Ledger
    <2>4. cycle' = Idle \/ (cycle'.s = cycle.s /\ cycle'.n = cycle.n)
      BY <1>4, <2>3 DEF Gate, Pin, BindSpec, BindStatus, AbandonCycle, Placed
    <2>5. cycle'.step \in Committed /\ cycle'.s \in Slice /\ cycle'.n \in Node
             /\ Unfinished(cycle'.s) => cycle'.s \in SoldTo(cycle'.n)
      BY <2>2, <2>4 DEF SoldTo, Idle, Committed, Placed
    <2>6. QED BY <2>1, <2>5, SoldKept
  <1>5. CASE Confirm
    <2>1. /\ cycle.step = "confirm" /\ cycle.s \in Slice /\ cycle.n \in Node
          /\ cycle # Idle /\ CycleOwnsBind /\ cycle' = Idle
          /\ ConfirmSliceOrRearm(cycle.s, cycle.n)
      BY <1>5, CycleShape DEF Confirm, Reconciling, HoldInv, Placed, Ledger
    <2>2. confirmedBySlice[cycle.s] = NoNode /\ assumedBySlice[cycle.s] \in {cycle.n, NoNode}
      BY <2>1 DEF CycleOwnsBind
    <2>3. /\ confirmedBySlice' = [confirmedBySlice EXCEPT ![cycle.s] = cycle.n]
          /\ Shrinks(assumedBySlice, assumedBySlice')
          /\ UNCHANGED allocatedNodeBySlice
      BY <2>1, <2>2, HoldsOfInv, ConfirmHolds DEF ConfirmSliceOrRearm, Ledger
    <2>4. confirmedBySlice \in [Slice -> Place]
      BY HoldsOfInv DEF Ledger, HoldsOK, CacheTypeOK
    <2>5. \A s \in Slice : \A n \in Node :
             n \in Sites(s)' => n \in Sites(s) \/ (s = cycle.s /\ n = cycle.n)
      BY <2>3, <2>4, NodeAssumption DEF Sites, Shrinks
    <2>6. \A s \in Slice : \A n \in Node :
             n \in Sites(s)' /\ Unfinished(s) => s \in SoldTo(n)
      BY <2>1, <2>5, SoldSites DEF SoldTo, Committed, Placed
    <2>7. cycle'.step \notin Committed
      BY <2>1 DEF Idle, Committed, Placed
    <2>8. QED BY <2>6, <2>7, SoldFrame
  <1>6. QED BY <1>1, <1>2, <1>3, <1>4, <1>5 DEF Reconciler

LEMMA SoldStep ==
    ASSUME Ledger, NoTakeOver, UniqueNames, [Next]_vars PROVE SoldWithinCapacity'
  <1>1. PhasesSettle
    BY StepSettles DEF ObjectsSettle
  <1>2. CASE Reconciler
    BY <1>1, <1>2, CycleSold, CacheCallSold DEF Caller
  <1>3. CASE NodeReconciler \/ Seed
    <2>1. UNCHANGED <<phase, nodeName, cycle>>
      BY <1>3 DEF NodeReconciler, ReconcileNodeGone, ReconcileNode, NodeUpdate, NodeList, Recharge,
           NodeWalked, NodeHealth, Seed, SeedListNodes, SeedRegister, SeedRegistered,
           SeedListSlices, SeedDone, apiVars, sliceVars
    <2>2. CASE \E w \in Walker : Recharge(w)
      <3>1. PICK w \in Walker : Recharge(w)
        BY <2>2
      <3>2. PICK p \in walk[w] : PromoteSliceToAllocatedOnce(p[1], p[2])
        BY <3>1 DEF Recharge
      <3>3. p[1] \in Slice /\ p[2] \in Node /\ nodeName[p[1]] = p[2] /\ Started(p[1])
        BY HoldsOfInv DEF Ledger, ProcessTypeOK, PromotionsWhereBound, CapacityInv, WalksStarted
      <3>4. QED BY <1>1, <2>1, <3>2, <3>3, PromotionSells, SoldFrame
    <2>3. CASE ~ \E w \in Walker : Recharge(w)
      <3>1. SameMaps
        BY <1>3, <2>3 DEF NodeReconciler, ReconcileNodeGone, ReconcileNode, NodeUpdate, NodeList,
             NodeWalked, NodeHealth, Seed, SeedListNodes, SeedRegister, SeedRegistered,
             SeedListSlices, SeedDone, UpdateNode, SetNodeHealth, MarkSeeded, cacheVars,
             SameMaps, Ledger, ChargeInv, Walker
      <3>2. QED BY <1>1, <2>1, <3>1, SoldKept
    <2>4. QED BY <2>2, <2>3
  <1>4. CASE Janitor
    <2>1. CASE CacheCall("janitor")
      BY <2>1, CacheCallSold DEF Caller
    <2>2. CASE ~ CacheCall("janitor")
      BY <1>1, <1>4, <2>2, SoldKept DEF Janitor, JanitorSnapshot, JanitorList, JanitorForget,
           JanitorDone, cacheVars, sliceVars, SameMaps
    <2>3. QED BY <2>1, <2>2
  <1>5. CASE \E s \in Slice : reapExpiredAssumptions(s)
    <2>1. PICK s \in Slice : RollbackAssumedSlice(s) /\ cycle' = cycle
      BY <1>5 DEF reapExpiredAssumptions, sliceVars
    <2>2. assumedBySlice \in [Slice -> Place]
      BY HoldsOfInv DEF Ledger, HoldsOK, CacheTypeOK
    <2>3. /\ Shrinks(assumedBySlice, assumedBySlice')
          /\ Shrinks(confirmedBySlice, confirmedBySlice')
          /\ Shrinks(allocatedNodeBySlice, allocatedNodeBySlice')
      BY <2>1, <2>2 DEF RollbackAssumedSlice, Shrinks
    <2>4. QED BY <1>1, <2>1, <2>3, SitesShrink, SoldFrame
  <1>6. CASE Environment \/ UNCHANGED vars
    <2>1. SameMaps /\ cycle' = cycle
      BY <1>6 DEF Environment, CreateSlice, MovePhase, RemoveSlice, Observe, NodeJoin, NodeLeave,
           NodeFlip, Failover, NoTakeOver, processVars, sliceVars, cacheVars, vars, SameMaps
    <2>2. QED BY <1>1, <2>1, SoldKept
  <1>7. QED BY <1>2, <1>3, <1>4, <1>5, <1>6 DEF Next

-----------------------------------------------------------------------------

LEMMA CapacityNext ==
    ASSUME Ledger, NoLag, NoTakeOver, UniqueNames, JanitorCurrent, [Next]_vars
    PROVE  CapacityInv'
  BY SoldStep, AllocationsCoveredStep, CallsSaneStep, WalksStartedStep, AllocatedWhereBoundStep,
     TrackedWhereBoundStep, BoundOnKnownStep DEF CapacityInv

LEMMA CapacityInit ==
    ASSUME Init PROVE CapacityInv
  <1>1. /\ phase = [s \in Slice |-> "Absent"] /\ nodeName = [s \in Slice |-> NoNode]
        /\ calls = [g \in Caller |-> <<>>] /\ cycle = Idle
        /\ tracked = [nm \in Name |-> NotTracked] /\ walk = [w \in Walker |-> {}]
        /\ allocatedVRAM = [n \in Node |-> 0]
        /\ assumedBySlice = [s \in Slice |-> NoNode]
        /\ confirmedBySlice = [s \in Slice |-> NoNode]
        /\ allocatedNodeBySlice = [s \in Slice |-> NoNode]
    BY DEF Init, NewVRAMCache, ColdStart
  <1>2. \A n \in Node : SoldTo(n) = {} /\ AllocatedOn(n) = {}
    BY <1>1, NodeAssumption DEF SoldTo, AllocatedOn, Idle, Committed, Placed
  <1>3. SoldWithinCapacity
    <2>1. \A n \in Node : Bytes[{}] <= Capacity[n]
      BY BytesAssumption, SizeAssumption
    <2>2. QED BY <1>2, <2>1 DEF SoldWithinCapacity
  <1>4. AllocationsCovered
    <2>1. \A g \in Caller : \A n \in Node : Returning(g, n) = 0
      BY <1>1 DEF Returning
    <2>2. ASSUME NEW n \in Node
          PROVE  Bytes[AllocatedOn(n)] = 0 /\ allocatedVRAM[n] = 0
      BY <1>1, <1>2, BytesAssumption
    <2>3. QED BY <2>1, <2>2 DEF AllocationsCovered, Caller
  <1>5. CallsSane /\ WalksStarted
    BY <1>1 DEF CallsSane, WalksStarted
  <1>6. AllocatedWhereBound /\ TrackedWhereBound /\ BoundOnKnown
    BY <1>1 DEF AllocatedWhereBound, TrackedWhereBound, BoundOnKnown, NotTracked
  <1>7. QED BY <1>3, <1>4, <1>5, <1>6 DEF CapacityInv

(* What occupies a node is charged there, so it has been sold to it. *)
LEMMA LedgerAdmits ==
    ASSUME Ledger PROVE NoOverAdmission
  <1> SUFFICES ASSUME NEW n \in Node PROVE Bytes[OccupiedBy(n)] <= Capacity[n]
    BY DEF NoOverAdmission
  <1>1. SoldTo(n) \in SUBSET Slice /\ OccupiedBy(n) \in SUBSET SoldTo(n)
    <2>1. ASSUME NEW s \in OccupiedBy(n) PROVE s \in SoldTo(n)
      <3>1. s \in Slice /\ nodeName[s] = n /\ Started(s) /\ Unfinished(s)
        BY DEF OccupiedBy, Started, Unfinished, Finished
      <3>2. QED BY <3>1, BoundIsSold
    <2>2. QED BY <2>1 DEF SoldTo
  <1>2. Bytes[OccupiedBy(n)] <= Bytes[SoldTo(n)] /\ Bytes[SoldTo(n)] <= Capacity[n]
    BY <1>1, BytesWithin DEF Ledger, CapacityInv, SoldWithinCapacity
  <1>3. Bytes[OccupiedBy(n)] \in Nat /\ Bytes[SoldTo(n)] \in Nat /\ Capacity[n] \in Nat
    BY <1>1, BytesAssumption, SizeAssumption
  <1>4. QED BY <1>2, <1>3

(* As long as what the janitor sweeps is on the node its slice was bound to,  *)
(* no node is over-admitted.                                                  *)
LEMMA CapacityWhileJanitorCurrent ==
    NoLag /\ NoNodeLoss /\ NoTakeOver /\ UniqueNames =>
        (Spec /\ []JanitorCurrent => []NoOverAdmission)
  <1> SUFFICES ASSUME NoLag, NoNodeLoss, NoTakeOver, UniqueNames
               PROVE  Spec /\ []JanitorCurrent => []NoOverAdmission
    OBVIOUS
  <1> DEFINE Inv == ExactInv /\ ChargeInv /\ CapacityInv
  <1>1. Init => Inv
    BY ExactInit, ChargeInit, CapacityInit
  <1>2. HoldInv /\ JanitorCurrent /\ Inv /\ [Next]_vars => Inv'
    BY ExactNext, ChargeNext, CapacityNext DEF Ledger
  <1>3. HoldInv /\ Inv => NoOverAdmission
    BY LedgerAdmits DEF Ledger
  <1>4. Spec => []HoldInv
    BY HoldInvariant
  <1> HIDE DEF Inv
  <1>5. QED BY <1>1, <1>2, <1>3, <1>4, PTL DEF Spec

(* The scheduler never binds more VRAM to a node than the node has: between  *)
(* the reservation and the end of a slice's life the bytes it was sold stay  *)
(* counted in one of the cache's two counters, through the reaper taking the *)
(* hold during the bind, the re-arm, the promotion by whoever comes first,   *)
(* and the two critical sections in which a release gives them back. With one*)
(* node the janitor's snapshot cannot have a slice on another one.           *)
THEOREM CapacityHoldsOnOneNode ==
    NoLag /\ NoNodeLoss /\ NoTakeOver /\ UniqueNames /\ OneNode => (Spec => []NoOverAdmission)
  <1> SUFFICES ASSUME NoLag, NoNodeLoss, NoTakeOver, UniqueNames, OneNode
               PROVE  Spec => []NoOverAdmission
    OBVIOUS
  <1>1. HoldInv => JanitorCurrent
    BY HoldsOfInv DEF JanitorCurrent, ProcessTypeOK, Place, OneNode
  <1>2. Spec => []HoldInv
    BY HoldInvariant
  <1>3. Spec /\ []JanitorCurrent => []NoOverAdmission
    BY CapacityWhileJanitorCurrent
  <1>4. QED BY <1>1, <1>2, <1>3, PTL
=============================================================================
