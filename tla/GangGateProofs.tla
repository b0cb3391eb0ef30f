--------------------------- MODULE GangGateProofs ---------------------------
(***************************************************************************)
(* Proofs about the gang binding gate: its types, that one gang assembles  *)
(* at a time and owns the slot, that no member of a gang binds alone, and  *)
(* that at quorum all members hold capacity, for any gangs, slices, sizes, *)
(* priorities, capacity, delays and faults, the last for calls that do not *)
(* fail or outlast a hold and waiting slices that are not deleted.         *)
(*                                                                         *)
(* A check transforms the gate in stages. Sound and Backed are the parts of*)
(* GateInv that speak of one gate state; each stage preserves them.        *)
(***************************************************************************)
EXTENDS GangGate, FiniteSetTheorems, TLAPS

(* The slot and the members of a gate state; "caller" is the gang that may   *)
(* have the slot before its first member is registered.                      *)
Sound(G, caller) ==
    /\ G \in GateType
    /\ G.admitting # NoGang =>
          /\ G.admitting \in G.exists \ G.released
          /\ G.members[G.admitting] # {} \/ G.admitting = caller
    /\ \A g \in Gang \ G.released : g # G.admitting => G.members[g] = {}
    /\ G.released \subseteq G.exists

(* CohortsJoined of a gate state, against incarnations U and history J. *)
Backed(G, U, J) ==
    \A g \in Gang :
        /\ G.uid[g] <= U[g]
        /\ G.uid[g] = U[g] =>
              /\ G.members[g] \subseteq J[g]
              /\ g \in G.released => Cardinality(J[g]) >= Size[g]

(* The delays and bounds are natural numbers. *)
LEMMA Bounds ==
    /\ Timeout \in Nat /\ Backoff \in Nat /\ MaxHoldAge \in Nat /\ MaxUID \in Nat
    /\ Capacity \in Nat /\ SlowRetry \in Nat /\ SliceTTL \in Nat /\ HoldTTL \in Nat
    /\ Timeout < SliceTTL /\ SliceTTL <= HoldTTL
  BY GateAssumption

(* F is G with the cohorts S deleted, in the fields that Sound and Backed see.*)
Forgot(F, G, S) ==
    /\ F \in GateType
    /\ F.exists = G.exists \ S
    /\ F.released = G.released \ S
    /\ F.members = [g \in Gang |-> IF g \in S THEN {} ELSE G.members[g]]
    /\ F.uid = [g \in Gang |-> IF g \in S THEN 0 ELSE G.uid[g]]
    /\ F.admitting = IF G.admitting \in S THEN NoGang ELSE G.admitting
    /\ F.slotAge = G.slotAge

(* Deleting cohorts: what Forget does to each field. *)
LEMMA ForgetFields ==
    ASSUME NEW G \in GateType, NEW S \in SUBSET Gang
    PROVE  Forgot(Forget(G, S), G, S)
<1> DEFINE F == Forget(G, S)
<1>1. /\ G.exists \in SUBSET Gang /\ G.members \in [Gang -> SUBSET Slice]
      /\ G.released \in SUBSET Gang /\ G.uid \in [Gang -> 0..MaxUID]
      /\ G.age \in [Gang -> 0..MaxHoldAge + 1] /\ G.before \in SUBSET (Gang \X Gang)
      /\ G.admitting \in Gang \cup {NoGang} /\ G.slotAge \in 0..Timeout + 1
      /\ G.backoff \in [Gang -> 0..Backoff]
  BY DEF GateType
<1>2. F.exists = G.exists \ S
  BY DEF Forget, GateType
<1>3. F.members = [g \in Gang |-> IF g \in S THEN {} ELSE G.members[g]]
  BY DEF Forget, GateType
<1>4. F.released = G.released \ S
  BY DEF Forget, GateType
<1>5. F.uid = [g \in Gang |-> IF g \in S THEN 0 ELSE G.uid[g]]
  BY DEF Forget, GateType
<1>6. F.admitting = IF G.admitting \in S THEN NoGang ELSE G.admitting
  BY DEF Forget, GateType
<1>8. F.slotAge = G.slotAge
  BY DEF Forget, GateType
<1>7. F \in GateType
  <2> DEFINE m == [g \in Gang |-> IF g \in S THEN {} ELSE G.members[g]]
             u == [g \in Gang |-> IF g \in S THEN 0 ELSE G.uid[g]]
             a == [g \in Gang |-> IF g \in S THEN 0 ELSE G.age[g]]
             b == [g \in Gang |-> IF g \in S THEN 0 ELSE G.backoff[g]]
             o == {p \in G.before : p[1] \notin S /\ p[2] \notin S}
             h == IF G.admitting \in S THEN NoGang ELSE G.admitting
  <2>1. F = [G EXCEPT !.exists = G.exists \ S, !.released = G.released \ S,
                      !.members = m, !.uid = u, !.age = a, !.backoff = b,
                      !.before = o, !.admitting = h]
    BY DEF Forget
  <2>2. /\ G.exists \ S \in SUBSET Gang /\ G.released \ S \in SUBSET Gang
        /\ m \in [Gang -> SUBSET Slice] /\ u \in [Gang -> 0..MaxUID]
        /\ a \in [Gang -> 0..MaxHoldAge + 1] /\ b \in [Gang -> 0..Backoff]
        /\ o \in SUBSET (Gang \X Gang) /\ h \in Gang \cup {NoGang}
    BY <1>1, Bounds
  <2>3. [G EXCEPT !.exists = G.exists \ S, !.released = G.released \ S,
                  !.members = m, !.uid = u, !.age = a, !.backoff = b,
                  !.before = o, !.admitting = h] \in GateType
    <3> HIDE DEF m, u, a, b, o, h
    <3> QED
      BY <2>2 DEF GateType
  <2> QED
    BY <2>1, <2>3
<1> QED
  BY <1>2, <1>3, <1>4, <1>5, <1>6, <1>7, <1>8 DEF Forgot

(* Deleting cohorts leaves a sound gate. *)
LEMMA ForgetSound ==
    ASSUME NEW G \in GateType, NEW S \in SUBSET Gang, Sound(G, NoGang)
    PROVE  Sound(Forget(G, S), NoGang)
<1>1. /\ Forget(G, S) \in GateType
      /\ Forget(G, S).exists = G.exists \ S
      /\ Forget(G, S).released = G.released \ S
      /\ Forget(G, S).members = [g \in Gang |-> IF g \in S THEN {} ELSE G.members[g]]
      /\ Forget(G, S).admitting = IF G.admitting \in S THEN NoGang ELSE G.admitting
  <2>1. Forgot(Forget(G, S), G, S)
    BY ForgetFields
  <2> QED
    BY <2>1 DEF Forgot
<1>2. G.admitting \in Gang \cup {NoGang} /\ G.members \in [Gang -> SUBSET Slice]
  BY DEF GateType
<1>3. ASSUME Forget(G, S).admitting # NoGang
      PROVE  /\ Forget(G, S).admitting \in Forget(G, S).exists \ Forget(G, S).released
             /\ Forget(G, S).members[Forget(G, S).admitting] # {}
  <2>1. /\ Forget(G, S).admitting = G.admitting
        /\ G.admitting \in Gang \ S
    BY <1>1, <1>2, <1>3
  <2>2. /\ G.admitting \in G.exists \ G.released
        /\ G.members[G.admitting] # {}
    BY <1>3, <2>1 DEF Sound
  <2> QED
    BY <1>1, <2>1, <2>2
<1>4. \A g \in Gang \ Forget(G, S).released :
          g # Forget(G, S).admitting => Forget(G, S).members[g] = {}
  BY <1>1, <1>2 DEF Sound
<1> QED
  BY <1>1, <1>3, <1>4 DEF Sound

(* Deleting cohorts leaves a backed gate. *)
LEMMA ForgetBacked ==
    ASSUME NEW G \in GateType, NEW S \in SUBSET Gang,
           NEW U \in [Gang -> Nat], NEW J, Backed(G, U, J)
    PROVE  Backed(Forget(G, S), U, J)
<1>1. /\ Forget(G, S).released = G.released \ S
      /\ Forget(G, S).members = [g \in Gang |-> IF g \in S THEN {} ELSE G.members[g]]
      /\ Forget(G, S).uid = [g \in Gang |-> IF g \in S THEN 0 ELSE G.uid[g]]
  BY ForgetFields DEF Forgot
<1> QED
  BY <1>1 DEF Backed

(* E is G, of the same type, with cohort g and its incarnation u added. *)
Joined(E, G, g, u) ==
    /\ E \in GateType
    /\ E.exists = G.exists \cup {g}
    /\ E.released = G.released
    /\ E.members = G.members
    /\ E.uid = [G.uid EXCEPT ![g] = u]
    /\ E.admitting = G.admitting
    /\ E.slotAge = G.slotAge

(* Stamping a cohort touches only its age and its place in the order. *)
LEMMA StampFields ==
    ASSUME NEW G \in GateType, NEW g \in Gang, NEW same \in SUBSET Gang
    PROVE  /\ Stamp(G, g, same) \in GateType
           /\ Stamp(G, g, same).exists = G.exists
           /\ Stamp(G, g, same).released = G.released
           /\ Stamp(G, g, same).members = G.members
           /\ Stamp(G, g, same).uid = G.uid
           /\ Stamp(G, g, same).admitting = G.admitting
           /\ Stamp(G, g, same).slotAge = G.slotAge
<1>1. [G.age EXCEPT ![g] = 0] \in [Gang -> 0..MaxHoldAge + 1]
  BY Bounds DEF GateType
<1>2. {p \in G.before : p[1] # g /\ p[2] # g} \cup {<<h, g>> : h \in G.exists \ (same \cup {g})}
         \in SUBSET (Gang \X Gang)
  BY DEF GateType
<1> QED
  BY <1>1, <1>2 DEF Stamp, GateType

(* A new cohort enters with the incarnation of its reservation, no members. *)
LEMMA EnteredFields ==
    ASSUME NEW G \in GateType, NEW g \in Gang, NEW u \in 0..MaxUID, g \notin G.exists
    PROVE  Joined(Entered(G, g, u), G, g, u)
<1> DEFINE E == [G EXCEPT !.exists = @ \cup {g}, !.uid[g] = u]
<1>1. /\ E \in GateType
      /\ E.exists = G.exists \cup {g}
      /\ E.released = G.released
      /\ E.members = G.members
      /\ E.uid = [G.uid EXCEPT ![g] = u]
      /\ E.admitting = G.admitting /\ E.slotAge = G.slotAge
  BY DEF GateType
<1>2. Entered(G, g, u) = Stamp(E, g, {})
  BY DEF Entered
<1> HIDE DEF E
<1> QED
  BY <1>1, <1>2, StampFields DEF Joined

(* After Purged and Entered, the cohort of the caller's gang exists and has   *)
(* the incarnation of the reservation that was read.                          *)
LEMMA EnteredSound ==
    ASSUME NEW G \in GateType, NEW g \in Gang, NEW u \in 0..MaxUID,
           NEW U \in [Gang -> Nat], NEW J,
           U[g] = u, g \in G.exists => G.uid[g] = u,
           Sound(G, NoGang), Backed(G, U, J)
    PROVE  /\ Entered(G, g, u) \in GateType
           /\ Sound(Entered(G, g, u), NoGang)
           /\ Backed(Entered(G, g, u), U, J)
           /\ g \in Entered(G, g, u).exists
           /\ Entered(G, g, u).uid[g] = u
<1>1. CASE g \in G.exists
  BY <1>1 DEF Entered
<1>2. CASE g \notin G.exists
  <2> DEFINE E == Entered(G, g, u)
  <2>1. Joined(E, G, g, u)
    BY <1>2, EnteredFields
  <2>2. G.uid \in [Gang -> 0..MaxUID]
    BY DEF GateType
  <2>3. g \notin G.released /\ G.members[g] = {}
    BY <1>2, GateAssumption DEF Sound
  <2> HIDE DEF E
  <2>4. Sound(E, NoGang)
    BY <2>1 DEF Sound, Joined
  <2>5. Backed(E, U, J)
    BY <2>1, <2>2, <2>3 DEF Backed, Joined
  <2>6. E \in GateType /\ g \in E.exists /\ E.uid[g] = u
    BY <2>1, <2>2 DEF Joined
  <2> QED
    BY <2>4, <2>5, <2>6 DEF E
<1> QED
  BY <1>1, <1>2

(* The gate after the cohort of an earlier incarnation is purged. *)
LEMMA PurgedSound ==
    ASSUME NEW G \in GateType, NEW g \in Gang, NEW u,
           NEW U \in [Gang -> Nat], NEW J,
           Sound(G, NoGang), Backed(G, U, J)
    PROVE  /\ Purged(G, g, u) \in GateType
           /\ Sound(Purged(G, g, u), NoGang)
           /\ Backed(Purged(G, g, u), U, J)
           /\ g \in Purged(G, g, u).exists => Purged(G, g, u).uid[g] = u
<1>1. CASE g \in G.exists /\ G.uid[g] # u
  <2>1. Purged(G, g, u) = Forget(G, {g})
    BY <1>1 DEF Purged
  <2>2. {g} \in SUBSET Gang
    OBVIOUS
  <2>3. Forget(G, {g}) \in GateType /\ g \notin Forget(G, {g}).exists
    <3>1. Forgot(Forget(G, {g}), G, {g})
      BY <2>2, ForgetFields
    <3> QED
      BY <3>1 DEF Forgot
  <2> QED
    BY <2>1, <2>2, <2>3, ForgetSound, ForgetBacked
<1>2. CASE ~(g \in G.exists /\ G.uid[g] # u)
  BY <1>2 DEF Purged
<1> QED
  BY <1>1, <1>2

(* The gate after stale cohorts are reaped. *)
LEMMA ReapSound ==
    ASSUME NEW G \in GateType, NEW U \in [Gang -> Nat], NEW J,
           Sound(G, NoGang), Backed(G, U, J)
    PROVE  /\ reapStaleCohorts(G) \in GateType
           /\ Sound(reapStaleCohorts(G), NoGang)
           /\ Backed(reapStaleCohorts(G), U, J)
<1> DEFINE S == {g \in G.exists \ G.released : G.age[g] > MaxHoldAge}
<1>1. S \in SUBSET Gang
  BY DEF GateType
<1>2. reapStaleCohorts(G) = Forget(G, S)
  BY DEF reapStaleCohorts
<1> HIDE DEF S
<1>3. Forget(G, S) \in GateType
  BY <1>1, ForgetFields DEF Forgot
<1>4. Sound(Forget(G, S), NoGang)
  BY <1>1, ForgetSound
<1>5. Backed(Forget(G, S), U, J)
  BY <1>1, ForgetBacked
<1> QED
  BY <1>2, <1>3, <1>4, <1>5

(* A stalled holder loses the slot and its members. *)
LEMMA StallSound ==
    ASSUME NEW G \in GateType, NEW new \in SUBSET Gang,
           NEW U \in [Gang -> Nat], NEW J,
           Sound(G, NoGang), Backed(G, U, J)
    PROVE  /\ StallHandled(G, new) \in GateType
           /\ Sound(StallHandled(G, new), NoGang)
           /\ Backed(StallHandled(G, new), U, J)
           /\ StallHandled(G, new).exists = G.exists
           /\ StallHandled(G, new).released = G.released
           /\ StallHandled(G, new).uid = G.uid
<1> DEFINE h == G.admitting
<1>1. CASE h = NoGang \/ G.slotAge <= Timeout
  BY <1>1 DEF StallHandled
<1>2. CASE ~(h = NoGang \/ G.slotAge <= Timeout)
  <2> DEFINE X == Stamp(G, h, new)
             F == [X EXCEPT !.backoff[h] = Backoff, !.members[h] = {}, !.admitting = NoGang]
  <2>1. h \in Gang /\ h \in G.exists \ G.released /\ G.members[h] # {}
    BY <1>2 DEF Sound, GateType
  <2>2. StallHandled(G, new) = F
    BY <1>2, <2>1 DEF StallHandled
  <2>3. /\ X \in GateType
        /\ X.exists = G.exists
        /\ X.released = G.released
        /\ X.members = G.members
        /\ X.uid = G.uid
    BY <2>1, StampFields
  <2>4. /\ F \in GateType
        /\ F.exists = X.exists
        /\ F.released = X.released
        /\ F.members = [X.members EXCEPT ![h] = {}]
        /\ F.uid = X.uid
        /\ F.admitting = NoGang
    <3> HIDE DEF X
    <3>1. X.backoff \in [Gang -> 0..Backoff] /\ Backoff \in 0..Backoff
      BY <2>3, Bounds DEF GateType
    <3> QED
      BY <2>1, <2>3, <3>1, Bounds DEF GateType
  <2>5. G.members \in [Gang -> SUBSET Slice]
    BY DEF GateType
  <2> HIDE DEF F, X
  <2>6. F.members = [G.members EXCEPT ![h] = {}]
    BY <2>3, <2>4
  <2>7. Sound(F, NoGang)
    BY <2>1, <2>3, <2>4, <2>5, <2>6 DEF Sound
  <2>8. Backed(F, U, J)
    BY <2>1, <2>3, <2>4, <2>5, <2>6 DEF Backed
  <2> QED
    BY <2>2, <2>3, <2>4, <2>7, <2>8
<1> QED
  BY <1>1, <1>2

(* A free slot goes to a cohort that exists, is not released, and has members *)
(* or is the caller's.                                                        *)
LEMMA ClaimSound ==
    ASSUME NEW G \in GateType, NEW g \in Gang, NEW U, NEW J,
           Sound(G, NoGang), Backed(G, U, J)
    PROVE  /\ SlotClaimed(G, g) \in GateType
           /\ Sound(SlotClaimed(G, g), g)
           /\ Backed(SlotClaimed(G, g), U, J)
           /\ SlotClaimed(G, g).exists = G.exists
           /\ SlotClaimed(G, g).released = G.released
           /\ SlotClaimed(G, g).uid = G.uid
<1> DEFINE head == pickAdmissionHead(G, g)
<1>1. CASE G.admitting # NoGang \/ head = NoGang
  <2>1. SlotClaimed(G, g) = G
    BY <1>1 DEF SlotClaimed
  <2>2. Sound(G, g)
    BY DEF Sound
  <2> QED
    BY <2>1, <2>2
<1>2. CASE ~(G.admitting # NoGang \/ head = NoGang)
  <2> DEFINE F == [G EXCEPT !.admitting = head, !.slotAge = 0]
  <2>1. SlotClaimed(G, g) = F
    BY <1>2 DEF SlotClaimed
  <2>2. head \in Contenders(G, g)
    BY <1>2 DEF pickAdmissionHead
  <2>3. /\ head \in G.exists \ G.released
        /\ head = g \/ G.members[head] # {}
        /\ head \in Gang
    BY <2>2 DEF Contenders, GateType
  <2> HIDE DEF head
  <2>4. /\ F \in GateType
        /\ F.exists = G.exists
        /\ F.released = G.released
        /\ F.members = G.members
        /\ F.uid = G.uid
        /\ F.admitting = head
    <3>1. 0 \in 0..Timeout + 1
      BY Bounds
    <3> QED
      BY <2>3, <3>1 DEF GateType
  <2> HIDE DEF F
  <2>5. Sound(F, g)
    BY <1>2, <2>3, <2>4, GateAssumption DEF Sound
  <2>6. Backed(F, U, J)
    BY <2>4 DEF Backed
  <2> QED
    BY <2>1, <2>4, <2>5, <2>6
<1> QED
  BY <1>1, <1>2

(* J with slice s added to the slices that were let hold capacity, unless the *)
(* verdict is Wait.                                                           *)
JoinedAfter(J, s, result) ==
    IF result = "Wait" THEN J ELSE [J EXCEPT ![GangOf[s]] = @ \cup {s}]

(* More slices that joined leave a backed gate. *)
LEMMA BackedMonotone ==
    ASSUME NEW G, NEW U, NEW J \in [Gang -> SUBSET Slice],
           NEW K \in [Gang -> SUBSET Slice],
           \A g \in Gang : J[g] \subseteq K[g],
           Backed(G, U, J)
    PROVE  Backed(G, U, K)
<1> SUFFICES ASSUME NEW g \in Gang, G.uid[g] = U[g], g \in G.released
             PROVE  Cardinality(K[g]) >= Size[g]
  BY DEF Backed
<1>1. Cardinality(J[g]) >= Size[g]
  BY DEF Backed
<1>2. IsFiniteSet(K[g])
  BY FS_Subset, GateAssumption
<1>3. /\ Cardinality(J[g]) <= Cardinality(K[g])
      /\ Cardinality(J[g]) \in Nat /\ Cardinality(K[g]) \in Nat
  BY <1>2, FS_Subset, FS_CardinalityType
<1>4. Size[g] \in Nat
  BY GateAssumption
<1> QED
  BY <1>1, <1>3, <1>4

(* What a verdict does to a gate whose caller may have the slot. *)
Verdict(v, s, U, J) ==
    /\ v.result \in {"Wait", "Allowed", "Deferred"}
    /\ v.gate \in GateType
    /\ Sound(v.gate, NoGang)
    /\ Backed(v.gate, U, JoinedAfter(J, s, v.result))
    /\ v.result = "Allowed" =>
          Cardinality(JoinedAfter(J, s, v.result)[GangOf[s]]) >= Size[GangOf[s]]

LEMMA DecidedSound ==
    ASSUME NEW s \in Slice, NEW G \in GateType,
           NEW U, NEW J \in [Gang -> SUBSET Slice],
           Sound(G, GangOf[s]), Backed(G, U, J),
           GangOf[s] \in G.exists \ G.released,
           G.uid[GangOf[s]] = U[GangOf[s]]
    PROVE  Verdict(Decided(G, s), s, U, J)
<1> DEFINE g == GangOf[s]
           K == [J EXCEPT ![g] = @ \cup {s}]
<1>1. /\ g \in Gang /\ g # NoGang
      /\ G.members \in [Gang -> SUBSET Slice] /\ G.released \in SUBSET Gang
      /\ G.admitting \in Gang \cup {NoGang} /\ G.backoff \in [Gang -> 0..Backoff]
      /\ K \in [Gang -> SUBSET Slice]
  BY GateAssumption DEF GateType
<1>2. Backed(G, U, K)
  <2>1. \A x \in Gang : J[x] \subseteq K[x]
    BY <1>1
  <2> QED
    BY <1>1, <2>1, BackedMonotone
<1>3. /\ G.members[g] \cup {s} \subseteq K[g]
      /\ IsFiniteSet(K[g])
  BY <1>1, FS_Subset, GateAssumption DEF Backed
<1>4. CASE G.admitting # g
  <2> DEFINE F == [G EXCEPT !.members[g] = @ \ {s}]
  <2>1. Decided(G, s) = [result |-> "Wait", gate |-> F]
    BY <1>4 DEF Decided
  <2>2. G.members[g] = {}
    BY <1>1, <1>4 DEF Sound
  <2>3. /\ F \in GateType /\ F.exists = G.exists /\ F.released = G.released
        /\ F.members = [G.members EXCEPT ![g] = @ \ {s}]
        /\ F.uid = G.uid /\ F.admitting = G.admitting
    BY <1>1 DEF GateType
  <2> HIDE DEF F
  <2>4. F.members = G.members
    <3>1. G.members[g] \ {s} = G.members[g]
      BY <2>2
    <3> QED
      BY <1>1, <2>3, <3>1
  <2>5. Sound(F, NoGang)
    BY <1>1, <1>4, <2>3, <2>4 DEF Sound
  <2>6. Backed(F, U, J)
    BY <2>3, <2>4 DEF Backed
  <2> QED
    BY <2>1, <2>3, <2>5, <2>6 DEF Verdict, JoinedAfter
<1>5. CASE G.admitting = g /\ Cardinality(G.members[g] \cup {s}) >= Size[g]
  <2> DEFINE F == [G EXCEPT !.members[g] = @ \cup {s}, !.released = @ \cup {g},
                            !.backoff[g] = 0, !.admitting = NoGang]
  <2>1. Decided(G, s) = [result |-> "Allowed", gate |-> F]
    BY <1>5 DEF Decided
  <2>2. /\ F \in GateType /\ F.exists = G.exists
        /\ F.released = G.released \cup {g}
        /\ F.members = [G.members EXCEPT ![g] = @ \cup {s}]
        /\ F.uid = G.uid /\ F.admitting = NoGang
    <3>1. 0 \in 0..Backoff
      BY Bounds
    <3> QED
      BY <1>1, <3>1 DEF GateType
  <2> HIDE DEF F
  <2>3. Sound(F, NoGang)
    BY <1>1, <1>5, <2>2 DEF Sound
  <2>4. Cardinality(K[g]) >= Size[g]
    <3>1. /\ Cardinality(G.members[g] \cup {s}) <= Cardinality(K[g])
          /\ Cardinality(K[g]) \in Nat
          /\ Cardinality(G.members[g] \cup {s}) \in Nat
      BY <1>3, FS_Subset, FS_CardinalityType
    <3>2. Size[g] \in Nat
      BY <1>1, GateAssumption
    <3> QED
      BY <1>5, <3>1, <3>2
  <2> HIDE DEF K
  <2>5. Backed(F, U, K)
    BY <1>1, <1>2, <1>3, <2>2, <2>4 DEF Backed
  <2>6. JoinedAfter(J, s, "Allowed") = K
    BY DEF JoinedAfter, K
  <2> QED
    BY <2>1, <2>2, <2>3, <2>4, <2>5, <2>6 DEF Verdict
<1>6. CASE G.admitting = g /\ ~(Cardinality(G.members[g] \cup {s}) >= Size[g])
  <2> DEFINE F == [G EXCEPT !.members[g] = @ \cup {s}]
  <2>1. Decided(G, s) = [result |-> "Deferred", gate |-> F]
    BY <1>6 DEF Decided
  <2>2. /\ F \in GateType /\ F.exists = G.exists /\ F.released = G.released
        /\ F.members = [G.members EXCEPT ![g] = @ \cup {s}]
        /\ F.uid = G.uid /\ F.admitting = G.admitting
    BY <1>1 DEF GateType
  <2> HIDE DEF F
  <2>3. Sound(F, NoGang)
    BY <1>1, <1>6, <2>2 DEF Sound
  <2> HIDE DEF K
  <2>4. Backed(F, U, K)
    BY <1>1, <1>2, <1>3, <2>2 DEF Backed
  <2>5. JoinedAfter(J, s, "Deferred") = K
    BY DEF JoinedAfter, K
  <2> QED
    BY <2>1, <2>2, <2>3, <2>4, <2>5 DEF Verdict
<1> QED
  BY <1>4, <1>5, <1>6

(* The verdict of the whole check, for the reservation that was read. *)
LEMMA CheckSound ==
    ASSUME NEW s \in Slice, NEW u \in 0..MaxUID, NEW G \in GateType,
           NEW U \in [Gang -> Nat], NEW J \in [Gang -> SUBSET Slice],
           U[GangOf[s]] = u,
           Sound(G, NoGang), Backed(G, U, J)
    PROVE  Verdict(CheckSliceWithCohort(G, s, u), s, U, J)
<1> DEFINE g == GangOf[s]
           kept == Purged(reapStaleCohorts(G), g, u)
           in == Entered(kept, g, u)
           new == IF g \in kept.exists THEN {} ELSE {g}
           stalled == StallHandled(in, new)
           claimed == SlotClaimed(stalled, g)
<1>1. g \in Gang /\ new \in SUBSET Gang
  BY GateAssumption
<1>2. /\ reapStaleCohorts(G) \in GateType
      /\ Sound(reapStaleCohorts(G), NoGang)
      /\ Backed(reapStaleCohorts(G), U, J)
  BY ReapSound
<1>3. /\ kept \in GateType
      /\ Sound(kept, NoGang)
      /\ Backed(kept, U, J)
      /\ g \in kept.exists => kept.uid[g] = u
  BY <1>1, <1>2, PurgedSound
<1> HIDE DEF kept
<1>4. /\ in \in GateType
      /\ Sound(in, NoGang)
      /\ Backed(in, U, J)
      /\ g \in in.exists
      /\ in.uid[g] = u
  BY <1>1, <1>3, EnteredSound
<1> HIDE DEF in, new
<1>5. CASE g \in in.released
  <2>1. CheckSliceWithCohort(G, s, u) = [result |-> "Allowed", gate |-> in]
    BY <1>5 DEF CheckSliceWithCohort, in, kept
  <2> DEFINE K == [J EXCEPT ![g] = @ \cup {s}]
  <2>2. K \in [Gang -> SUBSET Slice] /\ \A x \in Gang : J[x] \subseteq K[x]
    BY <1>1
  <2>3. JoinedAfter(J, s, "Allowed") = K
    BY DEF JoinedAfter
  <2> HIDE DEF K
  <2>4. Backed(in, U, K)
    BY <1>4, <2>2, BackedMonotone
  <2>5. Cardinality(K[g]) >= Size[g]
    BY <1>1, <1>4, <1>5, <2>4 DEF Backed
  <2> QED
    BY <1>4, <2>1, <2>3, <2>4, <2>5 DEF Verdict
<1>6. CASE g \notin in.released
  <2>1. CheckSliceWithCohort(G, s, u) = Decided(claimed, s)
    BY <1>6 DEF CheckSliceWithCohort, in, kept, new
  <2>2. /\ stalled \in GateType
        /\ Sound(stalled, NoGang)
        /\ Backed(stalled, U, J)
        /\ stalled.exists = in.exists
        /\ stalled.released = in.released
        /\ stalled.uid = in.uid
    BY <1>1, <1>4, StallSound
  <2> HIDE DEF stalled
  <2>3. /\ claimed \in GateType
        /\ Sound(claimed, g)
        /\ Backed(claimed, U, J)
        /\ claimed.exists = stalled.exists
        /\ claimed.released = stalled.released
        /\ claimed.uid = stalled.uid
    BY <1>1, <2>2, ClaimSound
  <2> HIDE DEF claimed
  <2>4. g \in claimed.exists \ claimed.released /\ claimed.uid[g] = U[g]
    BY <1>4, <1>6, <2>2, <2>3
  <2> QED
    BY <2>1, <2>3, <2>4, DecidedSound
<1> QED
  BY <1>5, <1>6

(* The incarnations of the reservations. *)
UIDs == [g \in Gang |-> rsv[g].uid]

(* GateInv is what Sound and Backed say of the current gate. *)
LEMMA GateInvParts ==
    ASSUME TypeOK
    PROVE  GateInv <=> Sound(gate, NoGang) /\ Backed(gate, UIDs, joined)
<1>1. Backed(gate, UIDs, joined) <=> CohortsJoined
  BY DEF Backed, CohortsJoined, UIDs
<1>2. Sound(gate, NoGang) <=> SlotOwned /\ OneAssembly /\ gate.released \subseteq gate.exists
  BY DEF Sound, SlotOwned, OneAssembly, TypeOK
<1> QED
  BY <1>1, <1>2 DEF GateInv

-----------------------------------------------------------------------------
(* The slice that goes on to bind, if a step sends one, has a quorum. *)
QuorumBehind ==
    binding' \notin {binding, NoSlice} =>
        Cardinality(joined'[GangOf[binding']]) >= Size[GangOf[binding']]

(* Everything but the gate, with its type. *)
RestOK ==
    /\ rsv \in [Gang -> [uid : 0..MaxUID, phase : {"none", "live", "terminal"}]]
    /\ slice \in [Slice -> {"absent", "pending", "bound", "failed", "gone"}]
    /\ hold \in [Slice -> 0..HoldTTL + 1]
    /\ wait \in [Slice -> 0..SlowRetry]
    /\ binding \in Slice \cup {NoSlice}
    /\ joined \in [Gang -> SUBSET Slice]

(* A hold that is taken or extended outlasts SliceTTL, one that is given back *)
(* is gone, and neither touches the other holds.                              *)
LEMMA SecureHold ==
    ASSUME RestOK, NEW s \in Slice, Secure(s)
    PROVE  /\ hold' \in [Slice -> 0..HoldTTL + 1] /\ hold'[s] > SliceTTL
           /\ \A t \in Slice \ {s} : hold'[t] = hold[t]
<1>1. /\ 1 + SliceTTL \in 0..HoldTTL + 1 /\ 1 + HoldTTL \in 0..HoldTTL + 1
      /\ 1 + SliceTTL > SliceTTL /\ 1 + HoldTTL > SliceTTL
  BY Bounds
<1>2. CASE s \in held
  BY <1>1, <1>2 DEF Secure, RestOK
<1>3. CASE s \notin held
  BY <1>1, <1>3 DEF Secure, RestOK
<1> QED
  BY <1>2, <1>3

LEMMA ReleaseHold ==
    ASSUME RestOK, NEW s \in Slice, Release(s)
    PROVE  /\ hold' \in [Slice -> 0..HoldTTL + 1]
           /\ \A t \in Slice \ {s} : hold'[t] = hold[t]
<1>1. 0 \in 0..HoldTTL + 1
  BY Bounds
<1> QED
  BY <1>1 DEF Release, RestOK

LEMMA InitInv == Init => GateInv
<1> SUFFICES ASSUME Init PROVE GateInv
  OBVIOUS
<1>1. NewGangBindingGate \in GateType
  BY Bounds DEF NewGangBindingGate, GateType
<1>2. TypeOK
  BY <1>1, Bounds DEF Init, TypeOK
<1>3. SlotOwned /\ OneAssembly /\ gate.released \subseteq gate.exists /\ CohortsJoined
  BY Bounds DEF Init, NewGangBindingGate, SlotOwned, OneAssembly, CohortsJoined
<1> QED
  BY <1>2, <1>3 DEF GateInv

(* What the inductive invariant says in the terms of the lemmas above. *)
LEMMA InvUnfolded ==
    ASSUME GateInv
    PROVE  /\ gate \in GateType /\ RestOK /\ UIDs \in [Gang -> Nat]
           /\ Sound(gate, NoGang) /\ Backed(gate, UIDs, joined)
<1>1. TypeOK
  BY DEF GateInv
<1>2. UIDs \in [Gang -> Nat]
  BY <1>1, Bounds DEF TypeOK, UIDs
<1> QED
  BY <1>1, <1>2, GateInvParts DEF TypeOK, RestOK

LEMMA InvFolded ==
    ASSUME gate' \in GateType, RestOK',
           Sound(gate, NoGang)', Backed(gate, UIDs, joined)'
    PROVE  GateInv'
<1>1. TypeOK'
  BY DEF TypeOK, RestOK
<1> QED
  BY <1>1, GateInvParts, PTL

(* A step that leaves the gate, the reservations and the history alone. *)
LEMMA Aside ==
    ASSUME GateInv, RestOK', UNCHANGED <<gate, rsv, joined>>
    PROVE  GateInv'
<1>1. UIDs' = UIDs
  BY DEF UIDs
<1>2. gate' \in GateType /\ Sound(gate, NoGang)' /\ Backed(gate, UIDs, joined)'
  BY <1>1, InvUnfolded DEF Sound, Backed
<1> QED
  BY <1>2, InvFolded

(* The worker's check of a slice. *)
LEMMA GateCheckStep ==
    ASSUME GateInv, NEW s \in Slice, GateCheck(s)
    PROVE  GateInv' /\ QuorumBehind
<1> DEFINE u == rsv[GangOf[s]].uid
           v == CheckSliceWithCohort(gate, s, u)
<1>1. /\ gate \in GateType /\ RestOK /\ UIDs \in [Gang -> Nat]
      /\ Sound(gate, NoGang) /\ Backed(gate, UIDs, joined)
  BY InvUnfolded
<1>2. GangOf[s] \in Gang
  BY GateAssumption
<1>3. u \in 0..MaxUID /\ UIDs[GangOf[s]] = u
  BY <1>1, <1>2 DEF RestOK, UIDs
<1>4. Verdict(v, s, UIDs, joined)
  BY <1>1, <1>3, CheckSound DEF RestOK
<1> HIDE DEF v
<1>5. /\ gate' = v.gate
      /\ IF v.result = "Wait" THEN Release(s) ELSE Secure(s)
      /\ binding' = IF v.result = "Allowed" THEN s ELSE NoSlice
      /\ wait' = IF v.result = "Allowed" THEN wait ELSE [wait EXCEPT ![s] = 1]
      /\ joined' = JoinedAfter(joined, s, v.result)
      /\ UNCHANGED <<rsv, slice>>
  BY DEF GateCheck, JoinedAfter, v
<1>6. RestOK'
  <2>1. 1 \in 0..SlowRetry
    BY GateAssumption
  <2>2. wait' \in [Slice -> 0..SlowRetry] /\ hold' \in [Slice -> 0..HoldTTL + 1]
    <3>1. wait' \in [Slice -> 0..SlowRetry]
      BY <1>1, <1>5, <2>1 DEF RestOK
    <3> QED
      BY <1>1, <1>5, <3>1, SecureHold, ReleaseHold
  <2>3. joined' \in [Gang -> SUBSET Slice] /\ binding' \in Slice \cup {NoSlice}
    BY <1>1, <1>2, <1>5 DEF RestOK, JoinedAfter
  <2> QED
    BY <1>1, <1>5, <2>2, <2>3 DEF RestOK
<1>7. UIDs' = UIDs
  BY <1>5 DEF UIDs
<1>8. gate' \in GateType /\ Sound(gate, NoGang)' /\ Backed(gate, UIDs, joined)'
  BY <1>4, <1>5, <1>7 DEF Verdict, Sound, Backed
<1>9. QuorumBehind
  BY <1>4, <1>5 DEF Verdict, QuorumBehind
<1> QED
  BY <1>6, <1>8, <1>9, InvFolded

(* The other steps of the worker. *)
LEMMA WorkerStep ==
    ASSUME GateInv, Worker
    PROVE  GateInv' /\ QuorumBehind
<1>1. gate \in GateType /\ RestOK /\ Sound(gate, NoGang) /\ Backed(gate, UIDs, joined)
      /\ UIDs \in [Gang -> Nat]
  BY InvUnfolded
<1>2. \A t \in {1, SlowRetry} : t \in 0..SlowRetry
  BY GateAssumption
<1>3. ASSUME NEW s \in Slice, FailOrphan(s) \/ NoReserve(s) \/ GateRetry(s)
      PROVE  GateInv' /\ QuorumBehind
  <2>1. UNCHANGED <<gate, rsv, joined, binding>>
    BY <1>3 DEF FailOrphan, NoReserve, GateRetry
  <2>2. RestOK'
    <3>1. hold' \in [Slice -> 0..HoldTTL + 1]
      BY <1>1, <1>3, ReleaseHold DEF RestOK, FailOrphan, NoReserve, GateRetry
    <3>2. wait' \in [Slice -> 0..SlowRetry]
      BY <1>1, <1>2, <1>3 DEF RestOK, FailOrphan, NoReserve, GateRetry, Requeue
    <3>3. slice' \in [Slice -> {"absent", "pending", "bound", "failed", "gone"}]
      BY <1>1, <1>3 DEF RestOK, FailOrphan, NoReserve, GateRetry
    <3> QED
      BY <1>1, <2>1, <3>1, <3>2, <3>3 DEF RestOK
  <2> QED
    BY <2>1, <2>2, Aside DEF QuorumBehind
<1>4. ASSUME NEW s \in Slice, GateRejected(s)
      PROVE  GateInv' /\ QuorumBehind
  <2>1. gate' = Forget(gate, {GangOf[s]}) /\ {GangOf[s]} \in SUBSET Gang
    BY <1>4, GateAssumption DEF GateRejected
  <2>2. UNCHANGED <<rsv, slice, binding, joined>>
        /\ hold' \in [Slice -> 0..HoldTTL + 1]
        /\ wait' = [wait EXCEPT ![s] = SlowRetry]
    BY <1>1, <1>4, ReleaseHold DEF GateRejected, Requeue
  <2>3. RestOK'
    BY <1>1, <1>2, <2>2 DEF RestOK
  <2>4. UIDs' = UIDs
    BY <2>2 DEF UIDs
  <2>5. gate' \in GateType
    <3>1. Forgot(Forget(gate, {GangOf[s]}), gate, {GangOf[s]})
      BY <1>1, <2>1, ForgetFields
    <3> QED
      BY <2>1, <3>1 DEF Forgot
  <2>6. Sound(gate, NoGang)'
    <3>1. Sound(Forget(gate, {GangOf[s]}), NoGang)
      BY <1>1, <2>1, ForgetSound
    <3> QED
      BY <2>1, <3>1 DEF Sound
  <2>7. Backed(gate, UIDs, joined)'
    <3>1. Backed(Forget(gate, {GangOf[s]}), UIDs, joined)
      BY <1>1, <2>1, ForgetBacked
    <3> QED
      BY <2>1, <2>2, <2>4, <3>1 DEF Backed
  <2> QED
    BY <2>2, <2>3, <2>5, <2>6, <2>7, InvFolded DEF QuorumBehind
<1>5. CASE Bind
  <2>1. UNCHANGED <<gate, rsv, joined>> /\ binding' = NoSlice /\ binding \in Slice
    BY <1>1, <1>5 DEF Bind, RestOK
  <2>2. RestOK'
    <3>1. hold' \in [Slice -> 0..HoldTTL + 1]
      BY <1>1, <1>5, <2>1, ReleaseHold DEF Bind
    <3>2. wait' \in [Slice -> 0..SlowRetry]
      BY <1>1, <1>2, <1>5 DEF RestOK, Bind, Requeue
    <3>3. slice' \in [Slice -> {"absent", "pending", "bound", "failed", "gone"}]
      BY <1>1, <1>5 DEF RestOK, Bind
    <3> QED
      BY <1>1, <2>1, <3>1, <3>2, <3>3 DEF RestOK
  <2> QED
    BY <2>1, <2>2, Aside DEF QuorumBehind
<1> QED
  BY <1>3, <1>4, <1>5, GateCheckStep DEF Worker

(* Time passes: only ages and delays of the gate change. *)
LEMMA TickStep ==
    ASSUME GateInv, Tick
    PROVE  GateInv' /\ QuorumBehind
<1>1. gate \in GateType /\ RestOK /\ Sound(gate, NoGang) /\ Backed(gate, UIDs, joined)
  BY InvUnfolded
<1> DEFINE a == [g \in Gang |-> IF g \in gate.exists /\ gate.age[g] <= MaxHoldAge
                                 THEN gate.age[g] + 1 ELSE gate.age[g]]
           o == IF gate.admitting # NoGang /\ gate.slotAge <= Timeout
                THEN gate.slotAge + 1 ELSE gate.slotAge
           b == [g \in Gang |-> IF gate.backoff[g] = 0 THEN 0 ELSE gate.backoff[g] - 1]
           w == [s \in Slice |-> IF wait[s] = 0 THEN 0 ELSE wait[s] - 1]
           l == [s \in Slice |-> IF hold[s] > 1 THEN hold[s] - 1 ELSE hold[s]]
<1>2. /\ gate' = [gate EXCEPT !.age = a, !.slotAge = o, !.backoff = b]
      /\ wait' = w /\ hold' = l
      /\ UNCHANGED <<rsv, slice, binding, joined>>
  BY DEF Tick
<1>3. a \in [Gang -> 0..MaxHoldAge + 1] /\ b \in [Gang -> 0..Backoff]
  BY <1>1, Bounds DEF GateType
<1>4. o \in 0..Timeout + 1
  BY <1>1, Bounds DEF GateType
<1>5. w \in [Slice -> 0..SlowRetry]
  <2>1. \A s \in Slice : wait[s] \in 0..SlowRetry
    BY <1>1 DEF RestOK
  <2>2. \A n \in 0..SlowRetry : n # 0 => n - 1 \in 0..SlowRetry
    BY Bounds
  <2> QED
    BY <2>1, <2>2, Bounds
<1>10. l \in [Slice -> 0..HoldTTL + 1]
  <2>1. \A s \in Slice : hold[s] \in 0..HoldTTL + 1
    BY <1>1 DEF RestOK
  <2>2. \A n \in 0..HoldTTL + 1 : n > 1 => n - 1 \in 0..HoldTTL + 1
    BY Bounds
  <2> QED
    BY <2>1, <2>2
<1> HIDE DEF a, o, b, w, l
<1>6. /\ gate' \in GateType
      /\ gate'.exists = gate.exists /\ gate'.released = gate.released
      /\ gate'.members = gate.members /\ gate'.uid = gate.uid
      /\ gate'.admitting = gate.admitting
  BY <1>1, <1>2, <1>3, <1>4 DEF GateType
<1>7. RestOK'
  BY <1>1, <1>2, <1>5, <1>10 DEF RestOK
<1>8. UIDs' = UIDs
  BY <1>2 DEF UIDs
<1>9. Sound(gate, NoGang)' /\ Backed(gate, UIDs, joined)'
  BY <1>1, <1>2, <1>6, <1>8 DEF Sound, Backed
<1> QED
  BY <1>2, <1>6, <1>7, <1>9, InvFolded DEF QuorumBehind

(* The reaper, the controllers, the users, and a take-over. *)
LEMMA EnvironmentStep ==
    ASSUME GateInv, Environment
    PROVE  GateInv' /\ QuorumBehind
<1>1. gate \in GateType /\ RestOK /\ Sound(gate, NoGang) /\ Backed(gate, UIDs, joined)
      /\ UIDs \in [Gang -> Nat]
  BY InvUnfolded
<1>2. ASSUME NEW s \in Slice, reapExpiredAssumption(s) \/ CreateSlice(s) \/ DeleteSlice(s)
      PROVE  GateInv' /\ QuorumBehind
  <2>1. UNCHANGED <<gate, rsv, joined, binding, wait>>
    BY <1>2 DEF reapExpiredAssumption, CreateSlice, DeleteSlice
  <2>2. RestOK'
    <3>1. hold' \in [Slice -> 0..HoldTTL + 1]
      BY <1>1, <1>2, ReleaseHold
        DEF RestOK, reapExpiredAssumption, CreateSlice, DeleteSlice
    <3>2. slice' \in [Slice -> {"absent", "pending", "bound", "failed", "gone"}]
      BY <1>1, <1>2 DEF RestOK, reapExpiredAssumption, CreateSlice, DeleteSlice
    <3> QED
      BY <1>1, <2>1, <3>1, <3>2 DEF RestOK
  <2> QED
    BY <2>1, <2>2, Aside DEF QuorumBehind
<1>3. ASSUME NEW g \in Gang, CreateReservation(g)
      PROVE  GateInv' /\ QuorumBehind
  <2>1. /\ rsv[g].uid < MaxUID
        /\ rsv' = [rsv EXCEPT ![g] = [uid |-> rsv[g].uid + 1, phase |-> "live"]]
        /\ joined' = [joined EXCEPT ![g] = {}]
        /\ UNCHANGED <<gate, slice, hold, wait, binding>>
    BY <1>3 DEF CreateReservation
  <2>2. rsv[g].uid + 1 \in 0..MaxUID
    BY <1>1, <2>1, Bounds DEF RestOK
  <2>3. RestOK'
    BY <1>1, <2>1, <2>2 DEF RestOK
  <2>4. UIDs' = [UIDs EXCEPT ![g] = @ + 1]
    BY <1>1, <2>1 DEF UIDs, RestOK
  <2>5. gate.uid \in [Gang -> 0..MaxUID] /\ joined \in [Gang -> SUBSET Slice]
    BY <1>1 DEF GateType, RestOK
  <2>6. Backed(gate, UIDs', joined')
    <3> SUFFICES ASSUME NEW x \in Gang
                 PROVE  /\ gate.uid[x] <= UIDs'[x]
                        /\ gate.uid[x] = UIDs'[x] =>
                              /\ gate.members[x] \subseteq joined'[x]
                              /\ x \in gate.released => Cardinality(joined'[x]) >= Size[x]
      BY DEF Backed
    <3>1. CASE x = g
      <4>1. gate.uid[g] <= UIDs[g] /\ gate.uid[g] \in 0..MaxUID /\ UIDs[g] \in Nat
        BY <1>1, <2>5 DEF Backed
      <4>2. UIDs'[g] = UIDs[g] + 1
        BY <1>1, <2>4
      <4> QED
        BY <3>1, <4>1, <4>2, Bounds
    <3>2. CASE x # g
      <4>1. UIDs'[x] = UIDs[x] /\ joined'[x] = joined[x]
        BY <1>1, <2>1, <2>4, <2>5, <3>2
      <4> QED
        BY <1>1, <4>1 DEF Backed
    <3> QED
      BY <3>1, <3>2
  <2>7. gate' \in GateType /\ Sound(gate, NoGang)' /\ Backed(gate, UIDs, joined)'
    BY <1>1, <2>1, <2>6 DEF Sound, Backed
  <2> QED
    BY <2>1, <2>3, <2>7, InvFolded DEF QuorumBehind
<1>4. ASSUME NEW g \in Gang, FailReservation(g) \/ DeleteReservation(g)
      PROVE  GateInv' /\ QuorumBehind
  <2>1. UNCHANGED <<gate, slice, hold, wait, binding, joined>>
    BY <1>4 DEF FailReservation, DeleteReservation
  <2>2. \E p \in {"none", "terminal"} : rsv' = [rsv EXCEPT ![g].phase = p]
    BY <1>4 DEF FailReservation, DeleteReservation
  <2>3. RestOK'
    BY <1>1, <2>1, <2>2 DEF RestOK
  <2>4. UIDs' = UIDs
    BY <1>1, <2>2 DEF UIDs, RestOK
  <2>5. gate' \in GateType /\ Sound(gate, NoGang)' /\ Backed(gate, UIDs, joined)'
    BY <1>1, <2>1, <2>4 DEF Sound, Backed
  <2> QED
    BY <2>1, <2>3, <2>5, InvFolded DEF QuorumBehind
<1>5. ASSUME Failover
      PROVE  GateInv' /\ QuorumBehind
  <2>1. /\ gate' = NewGangBindingGate /\ hold' = [s \in Slice |-> 0]
        /\ wait' = [s \in Slice |-> 0]
        /\ binding' = NoSlice /\ UNCHANGED <<rsv, slice, joined>>
    BY <1>5 DEF Failover
  <2>2. RestOK'
    BY <1>1, <2>1, Bounds DEF RestOK
  <2>3. gate' \in GateType
    BY <2>1, Bounds DEF NewGangBindingGate, GateType
  <2>4. UIDs' = UIDs
    BY <2>1 DEF UIDs
  <2>5. Sound(gate, NoGang)' /\ Backed(gate, UIDs, joined)'
    BY <1>1, <2>1, <2>3, <2>4 DEF NewGangBindingGate, Sound, Backed
  <2> QED
    BY <2>1, <2>2, <2>3, <2>5, InvFolded DEF QuorumBehind
<1> QED
  BY <1>2, <1>3, <1>4, <1>5 DEF Environment

LEMMA StepInv ==
    ASSUME GateInv, [Next]_vars
    PROVE  GateInv' /\ QuorumBehind
<1>1. CASE Next
  BY <1>1, WorkerStep, TickStep, EnvironmentStep DEF Next
<1>2. CASE UNCHANGED vars
  <2>1. RestOK' /\ UNCHANGED <<gate, rsv, joined>> /\ UNCHANGED binding
    BY <1>2, InvUnfolded DEF vars, RestOK
  <2> QED
    BY <2>1, Aside DEF QuorumBehind
<1> QED
  BY <1>1, <1>2

(* GateInv is an invariant: the slot, the members and the verdicts of the    *)
(* gate agree with what the slices of each incarnation were allowed.         *)
THEOREM GateInvariant == Spec => []GateInv
  BY InitInv, StepInv, PTL DEF Spec

(* The variables of the gate keep their types. *)
THEOREM GateTypeCorrect == Spec => []TypeOK
<1>1. GateInv => TypeOK
  BY DEF GateInv
<1> QED
  BY <1>1, GateInvariant, PTL

(* The slot is held by a cohort that exists, is short of quorum and has a    *)
(* member: the ghost-holder branch of the gate is never taken.               *)
THEOREM SlotNeverOrphaned == Spec => []SlotOwned
<1>1. GateInv => SlotOwned
  BY DEF GateInv
<1> QED
  BY <1>1, GateInvariant, PTL

(* Serialized admission: only the holder of the slot has members that count. *)
THEOREM OneGangAssembles == Spec => []OneAssembly
<1>1. GateInv => OneAssembly
  BY DEF GateInv
<1> QED
  BY <1>1, GateInvariant, PTL

(* All or nothing: the gate lets a slice bind only when gangSize slices of    *)
(* the gang have been let hold capacity in the current incarnation.          *)
THEOREM NoMemberBindsAlone == Spec => NoSoloBind
<1>1. GateInv /\ [Next]_vars => [QuorumBehind]_vars
  BY StepInv
<1> QED
  BY <1>1, GateInvariant, PTL DEF Spec, NoSoloBind, QuorumBehind

-----------------------------------------------------------------------------
(* At quorum every member's bytes are held.                                *)

(* F takes over from G: a cohort that is short of quorum in F was so in G,   *)
(* in the same incarnation, with no fewer members and a slot as old, or it    *)
(* has none in F.                                                             *)
Shed(F, G) ==
    /\ F.released \subseteq G.released
    /\ \A h \in Gang \ F.released :
          \/ F.members[h] = {}
          \/ /\ h \notin G.released
             /\ F.members[h] \subseteq G.members[h] /\ F.uid[h] = G.uid[h]
             /\ F.slotAge = G.slotAge

LEMMA ShedTwice ==
    ASSUME NEW F, NEW G, NEW E, Shed(F, G), Shed(G, E)
    PROVE  Shed(F, E)
  BY DEF Shed

LEMMA ForgetSheds ==
    ASSUME NEW G \in GateType, NEW S \in SUBSET Gang
    PROVE  Shed(Forget(G, S), G)
<1> DEFINE F == Forget(G, S)
<1>1. Forgot(F, G, S)
  BY ForgetFields
<1> HIDE DEF F
<1>2. \A h \in Gang : /\ F.members[h] = IF h \in S THEN {} ELSE G.members[h]
                      /\ F.uid[h] = IF h \in S THEN 0 ELSE G.uid[h]
  BY <1>1 DEF Forgot
<1>3. F.released = G.released \ S /\ F.slotAge = G.slotAge
  BY <1>1 DEF Forgot
<1>4. Shed(F, G)
  BY <1>2, <1>3 DEF Shed
<1> QED
  BY <1>4 DEF F

(* The stages of a check before the verdict.                               *)
LEMMA PurgeSheds ==
    ASSUME NEW G \in GateType, NEW g \in Gang, NEW u
    PROVE  Shed(Purged(reapStaleCohorts(G), g, u), G)
<1> DEFINE R == reapStaleCohorts(G)
           S == {h \in G.exists \ G.released : G.age[h] > MaxHoldAge}
<1>1. S \in SUBSET Gang
  BY DEF GateType
<1>2. R = Forget(G, S)
  BY DEF reapStaleCohorts
<1> HIDE DEF S, R
<1>3. R \in GateType /\ Shed(R, G)
  BY <1>1, <1>2, ForgetFields, ForgetSheds DEF Forgot
<1>4. Shed(Purged(R, g, u), R)
  <2>1. CASE g \in R.exists /\ R.uid[g] # u
    <3>1. Purged(R, g, u) = Forget(R, {g}) /\ {g} \in SUBSET Gang
      BY <2>1 DEF Purged
    <3> QED
      BY <1>3, <3>1, ForgetSheds
  <2>2. CASE ~ (g \in R.exists /\ R.uid[g] # u)
    BY <2>2 DEF Purged, Shed
  <2> QED
    BY <2>1, <2>2
<1>5. Shed(Purged(R, g, u), G)
  BY <1>3, <1>4, ShedTwice
<1> QED
  BY <1>5 DEF R

LEMMA EnterSheds ==
    ASSUME NEW G \in GateType, NEW g \in Gang, NEW u \in 0..MaxUID, Sound(G, NoGang)
    PROVE  Shed(Entered(G, g, u), G)
<1>1. CASE g \in G.exists
  BY <1>1 DEF Entered, Shed
<1>2. CASE g \notin G.exists
  <2> DEFINE E == Entered(G, g, u)
  <2>1. Joined(E, G, g, u)
    BY <1>2, EnteredFields
  <2>2. G.members[g] = {} /\ G.uid \in [Gang -> 0..MaxUID]
    BY <1>2, GateAssumption DEF Sound, GateType
  <2> HIDE DEF E
  <2>3. \A h \in Gang \ {g} : E.uid[h] = G.uid[h]
    BY <2>1, <2>2 DEF Joined
  <2>4. Shed(E, G)
    BY <2>1, <2>2, <2>3 DEF Joined, Shed
  <2> QED
    BY <2>4 DEF E
<1> QED
  BY <1>1, <1>2

LEMMA StallSheds ==
    ASSUME NEW G \in GateType, NEW new \in SUBSET Gang, Sound(G, NoGang)
    PROVE  Shed(StallHandled(G, new), G)
<1> DEFINE h == G.admitting
<1>1. CASE h = NoGang \/ G.slotAge <= Timeout
  BY <1>1 DEF StallHandled, Shed
<1>2. CASE ~(h = NoGang \/ G.slotAge <= Timeout)
  <2> DEFINE X == Stamp(G, h, new)
             F == [X EXCEPT !.backoff[h] = Backoff, !.members[h] = {}, !.admitting = NoGang]
  <2>1. h \in Gang /\ G.members[h] # {}
    BY <1>2 DEF Sound, GateType
  <2>2. StallHandled(G, new) = F
    BY <1>2, <2>1 DEF StallHandled
  <2>3. /\ X \in GateType /\ X.released = G.released /\ X.members = G.members
        /\ X.uid = G.uid /\ X.slotAge = G.slotAge
    BY <2>1, StampFields
  <2> HIDE DEF X, h
  <2>4. /\ F.released = G.released /\ F.uid = G.uid /\ F.slotAge = G.slotAge
        /\ F.members = [G.members EXCEPT ![h] = {}]
    BY <2>3 DEF GateType
  <2>5. G.members \in [Gang -> SUBSET Slice]
    BY DEF GateType
  <2> HIDE DEF F
  <2>6. Shed(F, G)
    BY <2>1, <2>4, <2>5 DEF Shed
  <2> QED
    BY <2>2, <2>6
<1> QED
  BY <1>1, <1>2

LEMMA ClaimSheds ==
    ASSUME NEW G \in GateType, NEW g \in Gang, Sound(G, NoGang)
    PROVE  Shed(SlotClaimed(G, g), G)
<1>1. CASE SlotClaimed(G, g) = G
  BY <1>1 DEF Shed
<1>2. CASE SlotClaimed(G, g) # G
  <2>1. /\ G.admitting = NoGang
        /\ SlotClaimed(G, g).members = G.members /\ SlotClaimed(G, g).released = G.released
    BY <1>2 DEF SlotClaimed, GateType
  <2>2. \A h \in Gang \ G.released : G.members[h] = {}
    BY <2>1, GateAssumption DEF Sound
  <2> QED
    BY <2>1, <2>2 DEF Shed
<1> QED
  BY <1>1, <1>2

(* After the stall check and the claim nobody has had the slot for too long. *)
LEMMA SlotFresh ==
    ASSUME NEW G \in GateType, NEW g \in Gang, NEW new \in SUBSET Gang, Sound(G, NoGang),
           NEW C, C = SlotClaimed(StallHandled(G, new), g),
           C.admitting # NoGang
    PROVE  C.slotAge <= Timeout
<1> DEFINE F == StallHandled(G, new)
<1>1. F \in GateType /\ (F.admitting = NoGang \/ F.slotAge <= Timeout)
  <2>1. CASE G.admitting = NoGang \/ G.slotAge <= Timeout
    BY <2>1 DEF StallHandled
  <2>2. CASE ~(G.admitting = NoGang \/ G.slotAge <= Timeout)
    <3> DEFINE X == Stamp(G, G.admitting, new)
    <3>1. G.admitting \in Gang /\ G.members[G.admitting] # {}
      BY <2>2 DEF Sound, GateType
    <3>2. X \in GateType
      BY <3>1, StampFields
    <3>3. F = [X EXCEPT !.backoff[G.admitting] = Backoff, !.members[G.admitting] = {},
                        !.admitting = NoGang]
      BY <2>2, <3>1 DEF StallHandled
    <3>4. Backoff \in 0..Backoff
      BY Bounds
    <3> HIDE DEF X, F
    <3> QED
      BY <3>1, <3>2, <3>3, <3>4 DEF GateType
  <2> QED
    BY <2>1, <2>2
<1>2. 0 <= Timeout
  BY Bounds
<1> HIDE DEF F
<1>4. CASE F.admitting # NoGang \/ pickAdmissionHead(F, g) = NoGang
  BY <1>1, <1>4 DEF SlotClaimed, F
<1>5. CASE ~(F.admitting # NoGang \/ pickAdmissionHead(F, g) = NoGang)
  <2>1. C = [F EXCEPT !.admitting = pickAdmissionHead(F, g), !.slotAge = 0]
    BY <1>5 DEF SlotClaimed, F
  <2>2. C.slotAge = 0
    BY <1>1, <2>1 DEF GateType
  <2> QED
    BY <1>2, <2>2
<1> QED
  BY <1>4, <1>5

(* What a check of slice s makes of the members. C is the gate it decides on.*)
Checked(v, C, s) ==
    LET g == GangOf[s] IN
    /\ v.gate.uid = C.uid /\ v.gate.slotAge = C.slotAge
    /\ \/ /\ v.result = "Allowed" /\ v.gate.members = C.members
          /\ v.gate.released = C.released /\ g \in C.released
       \/ /\ v.result = "Wait" /\ v.gate.members = [C.members EXCEPT ![g] = @ \ {s}]
          /\ v.gate.released = C.released
       \/ /\ v.result = "Allowed" /\ v.gate.members = [C.members EXCEPT ![g] = @ \cup {s}]
          /\ g \notin C.released /\ v.gate.released = C.released \cup {g}
          /\ C.slotAge <= Timeout
       \/ /\ v.result = "Deferred" /\ v.gate.members = [C.members EXCEPT ![g] = @ \cup {s}]
          /\ v.gate.released = C.released

LEMMA DecidedChecked ==
    ASSUME NEW C \in GateType, NEW s \in Slice, GangOf[s] \notin C.released,
           C.admitting # NoGang => C.slotAge <= Timeout
    PROVE  Checked(Decided(C, s), C, s)
<1>1. GangOf[s] # NoGang
  BY GateAssumption
<1> QED
  BY <1>1 DEF Decided, Checked, GateType

LEMMA CheckSheds ==
    ASSUME NEW s \in Slice, NEW u \in 0..MaxUID, NEW G \in GateType,
           NEW U \in [Gang -> Nat], NEW J \in [Gang -> SUBSET Slice],
           U[GangOf[s]] = u,
           Sound(G, NoGang), Backed(G, U, J)
    PROVE  \E C \in GateType :
              /\ Shed(C, G) /\ C.uid[GangOf[s]] = u
              /\ Checked(CheckSliceWithCohort(G, s, u), C, s)
<1> DEFINE g == GangOf[s]
           kept == Purged(reapStaleCohorts(G), g, u)
           in == Entered(kept, g, u)
           new == IF g \in kept.exists THEN {} ELSE {g}
           stalled == StallHandled(in, new)
           claimed == SlotClaimed(stalled, g)
<1>1. g \in Gang /\ new \in SUBSET Gang
  BY GateAssumption
<1>2. /\ reapStaleCohorts(G) \in GateType
      /\ Sound(reapStaleCohorts(G), NoGang)
      /\ Backed(reapStaleCohorts(G), U, J)
  BY ReapSound
<1>3. /\ kept \in GateType
      /\ Sound(kept, NoGang)
      /\ Backed(kept, U, J)
      /\ g \in kept.exists => kept.uid[g] = u
      /\ Shed(kept, G)
  BY <1>1, <1>2, PurgedSound, PurgeSheds
<1> HIDE DEF kept
<1>4. /\ in \in GateType
      /\ Sound(in, NoGang)
      /\ Backed(in, U, J)
      /\ in.uid[g] = u
      /\ Shed(in, G)
  BY <1>1, <1>3, EnteredSound, EnterSheds, ShedTwice
<1> HIDE DEF in, new
<1>5. CASE g \in in.released
  <2>1. CheckSliceWithCohort(G, s, u) = [result |-> "Allowed", gate |-> in]
    BY <1>5 DEF CheckSliceWithCohort, in, kept
  <2>2. Checked([result |-> "Allowed", gate |-> in], in, s)
    BY <1>5 DEF Checked
  <2> QED
    BY <1>4, <2>1, <2>2
<1>6. CASE g \notin in.released
  <2>1. CheckSliceWithCohort(G, s, u) = Decided(claimed, s)
    BY <1>6 DEF CheckSliceWithCohort, in, kept, new
  <2>2. /\ stalled \in GateType
        /\ Sound(stalled, NoGang)
        /\ Backed(stalled, U, J)
        /\ stalled.released = in.released
        /\ stalled.uid = in.uid
        /\ Shed(stalled, G)
    BY <1>1, <1>4, StallSound, StallSheds, ShedTwice
  <2> HIDE DEF stalled
  <2>3. /\ claimed \in GateType
        /\ claimed.released = stalled.released
        /\ claimed.uid = stalled.uid
        /\ Shed(claimed, G)
        /\ claimed.admitting # NoGang => claimed.slotAge <= Timeout
    <3>1. claimed.admitting # NoGang => claimed.slotAge <= Timeout
      BY <1>1, <1>4, SlotFresh DEF stalled
    <3> QED
      BY <1>1, <2>2, <3>1, ClaimSound, ClaimSheds, ShedTwice
  <2> HIDE DEF claimed
  <2>4. Checked(Decided(claimed, s), claimed, s)
    BY <1>6, <2>2, <2>3, DecidedChecked
  <2> QED
    BY <1>4, <2>1, <2>2, <2>3, <2>4
<1> QED
  BY <1>5, <1>6

-----------------------------------------------------------------------------


(* A member's hold outlasts the slot of its gang: it expires when the slot is *)
(* too old for a quorum.                                                      *)
Outlasts(age, m) == age <= Timeout => hold[m] + age > SliceTTL

(* The members of a gang that is short of quorum, in the incarnation that    *)
(* lives, still wait for their bind and hold capacity for long enough.       *)
MembersHeld ==
    \A g \in Gang \ gate.released :
        rsv[g].phase = "live" /\ gate.uid[g] = rsv[g].uid =>
            \A m \in gate.members[g] :
                Outlasts(gate.slotAge, m) /\ slice[m] = "pending" /\ GangOf[m] = g

(* What is being bound is of a gang that has reached quorum. *)
BinderReleased == binding # NoSlice => GangOf[binding] \in gate.released

HeldInv == MembersHeld /\ BinderReleased

(* No call outlasts the TTL of a hold or fails, no waiting slice is deleted. *)
HoldsLast == {"reap", "apiError", "delete"} \cap Faults = {}

(* QuorumHeld of a step. *)
QuorumHolds == \A g \in gate'.released \ gate.released : gate'.members[g] \subseteq held'

(* While the slot is young enough for a quorum, such a hold is there. *)
LEMMA OutlastsHeld ==
    ASSUME RestOK, NEW m \in Slice, NEW age \in 0..Timeout + 1, age <= Timeout,
           Outlasts(age, m)
    PROVE  hold[m] > 1 /\ m \in held
<1>1. hold[m] \in Nat /\ hold[m] + age > SliceTTL
  BY Bounds DEF RestOK, Outlasts
<1> QED
  BY <1>1, Bounds DEF held

LEMMA GateCheckHeld ==
    ASSUME GateInv, HeldInv, NEW s \in Slice, GateCheck(s)
    PROVE  HeldInv' /\ QuorumHolds
<1> DEFINE g == GangOf[s]
           u == rsv[g].uid
           v == CheckSliceWithCohort(gate, s, u)
<1>1. /\ gate \in GateType /\ RestOK /\ UIDs \in [Gang -> Nat]
      /\ Sound(gate, NoGang) /\ Backed(gate, UIDs, joined)
      /\ GateInv' /\ RestOK'
  <2>1. GateInv' /\ RestOK'
    <3>1. GateInv'
      BY GateCheckStep
    <3> QED
      BY <3>1 DEF GateInv, TypeOK, RestOK
  <2> QED
    BY <2>1, InvUnfolded
<1>2. g \in Gang
  BY GateAssumption
<1>3. u \in 0..MaxUID /\ UIDs[g] = u /\ joined \in [Gang -> SUBSET Slice]
  BY <1>1, <1>2 DEF RestOK, UIDs
<1>4. PICK C \in GateType : Shed(C, gate) /\ C.uid[g] = u /\ Checked(v, C, s)
  BY <1>1, <1>3, CheckSheds
<1> HIDE DEF v
<1>5. /\ gate' = v.gate
      /\ IF v.result = "Wait" THEN Release(s) ELSE Secure(s)
      /\ binding' = IF v.result = "Allowed" THEN s ELSE NoSlice
      /\ UNCHANGED <<rsv, slice>>
      /\ slice[s] = "pending" /\ rsv[g].phase = "live"
  BY DEF GateCheck, v, CanReserve, Due
<1>6. /\ C.members \in [Gang -> SUBSET Slice] /\ C.slotAge \in 0..Timeout + 1
      /\ v.gate.slotAge = C.slotAge
  BY <1>4 DEF GateType, Checked
<1>7. ASSUME NEW h \in Gang \ C.released, rsv[h].phase = "live", C.uid[h] = rsv[h].uid,
             NEW m \in C.members[h]
      PROVE  m \in Slice /\ Outlasts(C.slotAge, m) /\ slice[m] = "pending" /\ GangOf[m] = h
  BY <1>4, <1>6, <1>7 DEF Shed, HeldInv, MembersHeld
<1>8. \A m \in Slice \ {s} : hold'[m] = hold[m]
  BY <1>1, <1>5, SecureHold, ReleaseHold
<1>9. ASSUME v.result # "Wait" PROVE Outlasts(C.slotAge, s)'
  <2>1. Secure(s)
    BY <1>5, <1>9
  <2> QED
    BY <1>1, <1>6, <2>1, SecureHold, Bounds DEF Outlasts, RestOK
<1>10. MembersHeld'
  <2> SUFFICES ASSUME NEW h \in Gang \ v.gate.released, rsv[h].phase = "live",
                      v.gate.uid[h] = rsv[h].uid, NEW m \in v.gate.members[h]
               PROVE  (C.slotAge <= Timeout => hold'[m] + C.slotAge > SliceTTL)
                      /\ slice[m] = "pending" /\ GangOf[m] = h
    BY <1>5, <1>6 DEF MembersHeld, Outlasts
  <2>1. h \in Gang \ C.released /\ C.uid[h] = rsv[h].uid
    BY <1>4 DEF Checked
  <2>2. (m \in C.members[h] /\ m # s) \/ (h = g /\ m = s /\ v.result # "Wait")
    <3>1. m \in C.members[h] \/ (h = g /\ m = s /\ v.result # "Wait")
      BY <1>2, <1>4, <1>6 DEF Checked
    <3>2. ASSUME m = s, m \in C.members[h]
          PROVE  h = g /\ v.result # "Wait"
      <4>1. h = g
        BY <1>7, <2>1, <3>2
      <4>2. v.result # "Wait"
        BY <1>2, <1>4, <1>6, <3>2, <4>1 DEF Checked
      <4> QED
        BY <4>1, <4>2
    <3> QED
      BY <3>1, <3>2
  <2>3. CASE m \in C.members[h] /\ m # s
    <3>1. m \in Slice /\ Outlasts(C.slotAge, m) /\ slice[m] = "pending" /\ GangOf[m] = h
      BY <1>7, <2>1, <2>3
    <3> QED
      BY <1>8, <2>3, <3>1 DEF Outlasts
  <2>4. CASE h = g /\ m = s /\ v.result # "Wait"
    BY <1>5, <1>9, <2>4, <1>4, <1>6 DEF Outlasts
  <2> QED
    BY <2>2, <2>3, <2>4
<1>11. BinderReleased'
  <2>1. v.result = "Allowed" => g \in v.gate.released
    BY <1>4 DEF Checked
  <2> QED
    BY <1>5, <2>1 DEF BinderReleased
<1>12. QuorumHolds
  <2> SUFFICES ASSUME NEW h \in v.gate.released \ gate.released, NEW m \in v.gate.members[h]
               PROVE  m \in held'
    BY <1>5 DEF QuorumHolds
  <2>1. /\ h = g /\ v.result = "Allowed" /\ g \notin C.released /\ C.slotAge <= Timeout
        /\ v.gate.members = [C.members EXCEPT ![g] = @ \cup {s}]
    BY <1>4 DEF Checked, Shed
  <2>2. (m \in C.members[g] /\ m # s) \/ m = s
    BY <1>2, <1>6, <2>1
  <2>3. m \in Slice
    BY <1>6, <1>2, <2>2
  <2>4. CASE m \in C.members[g] /\ m # s
    <3>1. m \in held
      BY <1>1, <1>2, <1>4, <1>5, <1>6, <1>7, <2>1, <2>4, OutlastsHeld
    <3> QED
      BY <1>8, <2>3, <2>4, <3>1 DEF held
  <2>5. CASE m = s
    <3>1. hold'[s] > SliceTTL
      BY <1>1, <1>5, <2>1, SecureHold
    <3>2. hold'[s] \in Nat
      BY <1>1, Bounds DEF RestOK
    <3> QED
      BY <2>5, <3>1, <3>2, Bounds DEF held
  <2> QED
    BY <2>2, <2>4, <2>5
<1> QED
  BY <1>10, <1>11, <1>12 DEF HeldInv

(* A gate that keeps its cohorts and their slot while nothing is given back. *)
LEMMA HeldFrame ==
    ASSUME HeldInv, binding' \in {binding, NoSlice},
           /\ gate'.released = gate.released /\ gate'.uid = gate.uid
           /\ gate'.members = gate.members,
           \A g \in Gang : rsv'[g].phase = "live" /\ gate.uid[g] = rsv'[g].uid =>
              /\ rsv[g].phase = "live" /\ gate.uid[g] = rsv[g].uid
              /\ g \notin gate.released =>
                    \A m \in gate.members[g] :
                        Outlasts(gate.slotAge, m)' /\ slice'[m] = "pending"
    PROVE  HeldInv' /\ QuorumHolds
  BY DEF HeldInv, MembersHeld, BinderReleased, QuorumHolds

LEMMA WorkerHeld ==
    ASSUME HoldsLast, GateInv, HeldInv, Worker
    PROVE  HeldInv' /\ QuorumHolds
<1>1. gate \in GateType /\ RestOK
  BY InvUnfolded
<1>2. ASSUME NEW g \in Gang \ gate.released, rsv[g].phase = "live", gate.uid[g] = rsv[g].uid,
             NEW m \in gate.members[g]
      PROVE  m \in Slice /\ Outlasts(gate.slotAge, m) /\ slice[m] = "pending" /\ GangOf[m] = g
  BY <1>1, <1>2 DEF HeldInv, MembersHeld, GateType
<1>3. ASSUME NEW s \in Slice, FailOrphan(s)
      PROVE  HeldInv' /\ QuorumHolds
  <2>1. /\ UNCHANGED <<gate, rsv, hold, binding>> /\ rsv[GangOf[s]].phase = "terminal"
        /\ \A t \in Slice \ {s} : slice'[t] = slice[t]
    BY <1>1, <1>3 DEF FailOrphan, RestOK
  <2> QED
    BY <1>2, <2>1, HeldFrame DEF Outlasts
<1>4. ASSUME NEW s \in Slice, NoReserve(s)
      PROVE  HeldInv' /\ QuorumHolds
  <2>1. UNCHANGED <<gate, rsv, hold, binding, slice>>
    BY <1>4 DEF NoReserve
  <2> QED
    BY <1>2, <2>1, HeldFrame DEF Outlasts
<1>5. ASSUME NEW s \in Slice, GateRetry(s)
      PROVE  HeldInv' /\ QuorumHolds
  <2>1. /\ UNCHANGED <<gate, rsv, binding, slice>> /\ rsv[GangOf[s]].phase = "none"
        /\ \A t \in Slice \ {s} : hold'[t] = hold[t]
    BY <1>1, <1>5, ReleaseHold DEF GateRetry, HoldsLast
  <2> QED
    BY <1>2, <2>1, HeldFrame DEF Outlasts
<1>6. ASSUME NEW s \in Slice, GateRejected(s)
      PROVE  HeldInv' /\ QuorumHolds
  <2> DEFINE F == Forget(gate, {GangOf[s]})
  <2>1. /\ UNCHANGED <<rsv, slice>> /\ binding' = NoSlice /\ gate' = F
        /\ \A t \in Slice \ {s} : hold'[t] = hold[t]
        /\ rsv[GangOf[s]].phase = "terminal"
    BY <1>1, <1>6, ReleaseHold DEF GateRejected, CanReserve, Due
  <2>2. Shed(F, gate)
    BY <1>1, GateAssumption, ForgetSheds
  <2> HIDE DEF F
  <2>3. ASSUME NEW h \in Gang \ F.released, rsv[h].phase = "live", F.uid[h] = rsv[h].uid,
               NEW m \in F.members[h]
        PROVE  (F.slotAge <= Timeout => hold'[m] + F.slotAge > SliceTTL)
               /\ slice[m] = "pending" /\ GangOf[m] = h
    <3>1. /\ h \notin gate.released /\ m \in gate.members[h] /\ gate.uid[h] = rsv[h].uid
          /\ F.slotAge = gate.slotAge
      BY <2>2, <2>3 DEF Shed
    <3>2. m \in Slice /\ Outlasts(gate.slotAge, m) /\ slice[m] = "pending" /\ GangOf[m] = h
      BY <1>2, <2>3, <3>1
    <3>3. hold'[m] = hold[m]
      BY <2>1, <2>3, <3>2
    <3> QED
      BY <2>1, <3>1, <3>2, <3>3 DEF Outlasts
  <2>4. MembersHeld'
    BY <2>1, <2>3 DEF MembersHeld, Outlasts
  <2>5. BinderReleased' /\ QuorumHolds
    BY <2>1, <2>2 DEF BinderReleased, QuorumHolds, Shed
  <2> QED
    BY <2>4, <2>5 DEF HeldInv
<1>7. CASE Bind
  <2>1. /\ UNCHANGED <<gate, rsv>> /\ binding' = NoSlice /\ binding \in Slice
        /\ GangOf[binding] \in gate.released
        /\ \A t \in Slice \ {binding} : slice'[t] = slice[t]
    BY <1>1, <1>7 DEF Bind, HeldInv, BinderReleased, RestOK
  <2>2. \A t \in Slice \ {binding} : hold'[t] = hold[t]
    BY <1>1, <1>7, <2>1, ReleaseHold DEF Bind
  <2> QED
    BY <1>2, <2>1, <2>2, HeldFrame DEF Outlasts
<1> QED
  BY <1>3, <1>4, <1>5, <1>6, <1>7, GateCheckHeld DEF Worker

LEMMA OtherHeld ==
    ASSUME HoldsLast, GateInv, HeldInv, Tick \/ Environment \/ UNCHANGED vars
    PROVE  HeldInv' /\ QuorumHolds
<1>1. gate \in GateType /\ RestOK /\ Sound(gate, NoGang)
  BY InvUnfolded
<1>2. ASSUME NEW g \in Gang \ gate.released, rsv[g].phase = "live", gate.uid[g] = rsv[g].uid,
             NEW m \in gate.members[g]
      PROVE  m \in Slice /\ Outlasts(gate.slotAge, m) /\ slice[m] = "pending"
  BY <1>1, <1>2 DEF HeldInv, MembersHeld, GateType
<1>3. CASE Tick
  <2>1. /\ UNCHANGED <<rsv, binding, slice>>
        /\ hold' = [s \in Slice |-> IF hold[s] > 1 THEN hold[s] - 1 ELSE hold[s]]
    BY <1>3 DEF Tick
  <2>2. /\ gate'.released = gate.released /\ gate'.uid = gate.uid
        /\ gate'.members = gate.members
        /\ gate'.slotAge = IF gate.admitting # NoGang /\ gate.slotAge <= Timeout
                            THEN gate.slotAge + 1 ELSE gate.slotAge
    BY <1>1, <1>3 DEF Tick, GateType
  <2>3. ASSUME NEW g \in Gang \ gate.released, NEW m \in gate.members[g], m \in Slice,
               Outlasts(gate.slotAge, m)
        PROVE  Outlasts(gate.slotAge, m)'
    <3>1. gate.admitting # NoGang
      BY <1>1, <2>3, GateAssumption DEF Sound
    <3>2. hold[m] \in Nat /\ gate.slotAge \in Nat /\ Timeout \in Nat /\ SliceTTL \in Nat
      BY <1>1, <2>3, Bounds DEF RestOK, GateType
    <3>3. hold'[m] = IF hold[m] > 1 THEN hold[m] - 1 ELSE hold[m]
      BY <2>1, <2>3
    <3> QED
      BY <2>2, <2>3, <3>1, <3>2, <3>3 DEF Outlasts
  <2> QED
    BY <1>2, <2>1, <2>2, <2>3, HeldFrame
<1>4. ASSUME NEW s \in Slice, reapExpiredAssumption(s) \/ CreateSlice(s) \/ DeleteSlice(s)
      PROVE  HeldInv' /\ QuorumHolds
  <2>1. /\ UNCHANGED <<gate, rsv, binding>>
        /\ \A t \in Slice : slice[t] = "pending" =>
              slice'[t] = "pending" /\ (hold[t] # 1 => hold'[t] = hold[t])
    <3>1. CASE reapExpiredAssumption(s)
      BY <1>1, <3>1, ReleaseHold DEF reapExpiredAssumption, HoldsLast
    <3>2. CASE CreateSlice(s)
      BY <1>1, <3>2 DEF CreateSlice, RestOK
    <3>3. CASE DeleteSlice(s)
      BY <1>1, <3>3, ReleaseHold DEF DeleteSlice, HoldsLast, RestOK
    <3> QED
      BY <1>4, <3>1, <3>2, <3>3
  <2>2. ASSUME NEW m \in Slice, slice[m] = "pending", Outlasts(gate.slotAge, m)
        PROVE  Outlasts(gate.slotAge, m)'
    <3>1. gate.slotAge \in 0..Timeout + 1
      BY <1>1 DEF GateType
    <3>2. gate.slotAge <= Timeout => hold[m] # 1
      BY <1>1, <2>2, <3>1, OutlastsHeld
    <3> QED
      BY <2>1, <2>2, <3>2 DEF Outlasts
  <2> QED
    BY <1>2, <2>1, <2>2, HeldFrame
<1>5. ASSUME NEW g \in Gang,
             CreateReservation(g) \/ FailReservation(g) \/ DeleteReservation(g)
      PROVE  HeldInv' /\ QuorumHolds
  <2>1. UNCHANGED <<gate, hold, binding, slice>>
    BY <1>5 DEF CreateReservation, FailReservation, DeleteReservation
  <2>2. ASSUME NEW h \in Gang, rsv'[h].phase = "live", gate.uid[h] = rsv'[h].uid
        PROVE  rsv[h].phase = "live" /\ gate.uid[h] = rsv[h].uid
    <3>1. CASE CreateReservation(g)
      <4>1. gate.uid[g] <= rsv[g].uid /\ gate.uid[g] \in Nat /\ rsv[g].uid \in Nat
        BY <1>1, Bounds DEF GateInv, CohortsJoined, GateType, RestOK
      <4>2. rsv' = [rsv EXCEPT ![g] = [uid |-> rsv[g].uid + 1, phase |-> "live"]]
        BY <3>1 DEF CreateReservation
      <4>3. h # g
        BY <1>1, <2>2, <4>1, <4>2 DEF RestOK
      <4> QED
        BY <1>1, <2>2, <4>2, <4>3 DEF RestOK
    <3>2. CASE FailReservation(g) \/ DeleteReservation(g)
      <4>1. \E p \in {"none", "terminal"} : rsv' = [rsv EXCEPT ![g].phase = p]
        BY <3>2 DEF FailReservation, DeleteReservation
      <4> QED
        BY <1>1, <2>2, <4>1 DEF RestOK
    <3> QED
      BY <1>5, <3>1, <3>2
  <2> QED
    BY <1>2, <2>1, <2>2, HeldFrame DEF Outlasts
<1>6. CASE Failover
  <2>1. /\ gate'.released = {} /\ \A g \in Gang : gate'.members[g] = {}
        /\ binding' = NoSlice
    BY <1>6 DEF Failover, NewGangBindingGate
  <2> QED
    BY <2>1 DEF HeldInv, MembersHeld, BinderReleased, QuorumHolds
<1>7. CASE UNCHANGED vars
  BY <1>2, <1>7, HeldFrame DEF vars, Outlasts
<1> QED
  BY <1>3, <1>4, <1>5, <1>6, <1>7 DEF Environment

LEMMA HeldInit == Init => HeldInv
  BY DEF Init, NewGangBindingGate, HeldInv, MembersHeld, BinderReleased

(* When a gang reaches quorum, every member the gate has registered holds    *)
(* its bytes, so all of them can bind: stalls, purges and take-overs take    *)
(* registrations, and a verdict that gives a hold back takes its slice's     *)
(* registration along, and a hold expires later than the slot, however late  *)
(* the retries are. With a failed call, a deleted member or a call that      *)
(* outlasts the TTL a registration outlives its hold.                        *)
THEOREM QuorumIsHeld == HoldsLast => (Spec => QuorumHeld)
<1> SUFFICES ASSUME HoldsLast PROVE Spec => QuorumHeld
  OBVIOUS
<1>1. GateInv /\ HeldInv /\ [Next]_vars => HeldInv' /\ QuorumHolds
  BY WorkerHeld, OtherHeld DEF Next
<1>2. GateInv /\ HeldInv /\ [Next]_vars => [QuorumHolds]_vars
  BY <1>1
<1> QED
  BY <1>1, <1>2, HeldInit, GateInvariant, PTL DEF Spec, QuorumHeld, QuorumHolds

=============================================================================
