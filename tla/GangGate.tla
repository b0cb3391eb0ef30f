------------------------------ MODULE GangGate ------------------------------
(***************************************************************************)
(* The gang binding gate (internal/scheduler/gang.go): which slice of which*)
(* gang may keep capacity and which may bind. The scheduling worker brings *)
(* one slice at a time to the gate, holding speculative capacity for it    *)
(* (plugin.go Schedule and gateAndBind); the verdict says whether the hold *)
(* is bound, kept or given back. Reservations and slices are created,      *)
(* failed, deleted and recreated under the same name by the controllers.   *)
(*                                                                         *)
(* Every slice asks for one unit of the cluster's Capacity. Time is a      *)
(* number of ticks: ages and delays of the code, in units that keep the    *)
(* order gangAdmissionBackoff < gangAdmissionTimeout < TTL of a reservation *)
(* < gangHoldTTL < gateMaxHoldAge.                                         *)
(***************************************************************************)
EXTENDS Naturals, FiniteSets

CONSTANTS
    Gang,        \* cohort keys: namespace/reservationName
    Slice,       \* slice UIDs
    NoGang,      \* the empty key
    NoSlice,     \* no slice
    GangOf,      \* GangOf[s]: the reservation slice s is annotated with
    Size,        \* Size[g]: spec.gangSize
    Priority,    \* Priority[g]: the gang priority annotation
    KeyRank,     \* KeyRank[g]: position of the key in lexicographic order
    Capacity,    \* units of VRAM in the cluster
    Timeout,     \* gangAdmissionTimeout
    Backoff,     \* gangAdmissionBackoff
    MaxHoldAge,  \* gateMaxHoldAge
    SliceTTL,    \* TTL of a fresh reservation (30s)
    HoldTTL,     \* gangHoldTTL
    SlowRetry,   \* requeue delay after an error (30s)
    MaxUID,      \* bound: incarnations of a reservation
    Faults       \* what may go wrong, see Fault

(* reap: a call outlasts the TTL of a hold.  apiError: a call fails.        *)
(* delete: a pending slice is deleted.  deadline: a reservation fails before*)
(* all its slices are bound.  recreate: a reservation is deleted and created*)
(* again.  failover: a cold scheduler takes over.  lateRetry: a retry comes *)
(* late.                                                                    *)
Fault == {"reap", "apiError", "delete", "deadline", "recreate", "failover", "lateRetry"}

ASSUME GateAssumption ==
    /\ NoGang \notin Gang /\ NoSlice \notin Slice
    /\ IsFiniteSet(Slice)
    /\ GangOf \in [Slice -> Gang]
    /\ Size \in [Gang -> Nat \ {0}]
    /\ Priority \in [Gang -> Nat]
    /\ KeyRank \in [Gang -> Nat]
    /\ Capacity \in Nat
    /\ {Timeout, Backoff, MaxHoldAge, MaxUID, SliceTTL, HoldTTL} \subseteq Nat
    /\ Timeout < SliceTTL /\ SliceTTL <= HoldTTL
    /\ SlowRetry \in Nat \ {0}
    /\ Faults \subseteq Fault

VARIABLES
    gate,      \* the gate's state, see GateType
    rsv,       \* the reservation objects: uid and whether it is terminal
    slice,     \* the slice objects
    hold,      \* speculative holds in the VRAM cache: 0 is none, else one more
               \* than the ticks until the hold expires
    wait,      \* ticks until the work queue hands the slice out again
    binding,   \* the slice whose bind is under way
    joined     \* history: slices that the gate let keep or bind capacity
               \* since the current incarnation of their reservation exists

vars == <<gate, rsv, slice, hold, wait, binding, joined>>

(* A cohort exists for the gangs in "exists"; "before" orders them by        *)
(* createdAt. A gang with backoff 0 has no (running) backoff entry.          *)
GateType ==
    [exists : SUBSET Gang, members : [Gang -> SUBSET Slice], released : SUBSET Gang,
     uid : [Gang -> 0..MaxUID], age : [Gang -> 0..MaxHoldAge + 1],
     before : SUBSET (Gang \X Gang), admitting : Gang \cup {NoGang},
     slotAge : 0..Timeout + 1, backoff : [Gang -> 0..Backoff]]

(* The type of the gate and of what it decides about. *)
TypeOK ==
    /\ gate \in GateType
    /\ rsv \in [Gang -> [uid : 0..MaxUID, phase : {"none", "live", "terminal"}]]
    /\ slice \in [Slice -> {"absent", "pending", "bound", "failed", "gone"}]
    /\ hold \in [Slice -> 0..HoldTTL + 1]
    /\ wait \in [Slice -> 0..SlowRetry]
    /\ binding \in Slice \cup {NoSlice}
    /\ joined \in [Gang -> SUBSET Slice]

NewGangBindingGate ==
    [exists |-> {}, members |-> [g \in Gang |-> {}], released |-> {},
     uid |-> [g \in Gang |-> 0], age |-> [g \in Gang |-> 0], before |-> {},
     admitting |-> NoGang, slotAge |-> 0, backoff |-> [g \in Gang |-> 0]]

Init ==
    /\ gate = NewGangBindingGate
    /\ rsv = [g \in Gang |-> [uid |-> 0, phase |-> "none"]]
    /\ slice = [s \in Slice |-> "absent"]
    /\ hold = [s \in Slice |-> 0]
    /\ wait = [s \in Slice |-> 0]
    /\ binding = NoSlice
    /\ joined = [g \in Gang |-> {}]

-----------------------------------------------------------------------------
(* The steps of CheckSliceWithCohort under the gate's mutex, each a function*)
(* from a gate state to a gate state.                                      *)

(* The cohorts S are deleted, with their backoff; a holder among them loses *)
(* the slot.                                                                *)
Forget(G, S) ==
    [G EXCEPT !.exists = @ \ S,
              !.released = @ \ S,
              !.members = [g \in Gang |-> IF g \in S THEN {} ELSE @[g]],
              !.uid = [g \in Gang |-> IF g \in S THEN 0 ELSE @[g]],
              !.age = [g \in Gang |-> IF g \in S THEN 0 ELSE @[g]],
              !.backoff = [g \in Gang |-> IF g \in S THEN 0 ELSE @[g]],
              !.before = {p \in @ : p[1] \notin S /\ p[2] \notin S},
              !.admitting = IF @ \in S THEN NoGang ELSE @]

(* createdAt of g becomes now; "same" are the cohorts stamped with the same  *)
(* now.                                                                      *)
Stamp(G, g, same) ==
    [G EXCEPT !.age[g] = 0,
              !.before = {p \in @ : p[1] # g /\ p[2] # g}
                             \cup {<<h, g>> : h \in G.exists \ (same \cup {g})}]

reapStaleCohorts(G) ==
    Forget(G, {g \in G.exists \ G.released : G.age[g] > MaxHoldAge})

(* Mutant: the cohort of an earlier incarnation is taken for the current one. *)
PurgedNever(G, g, u) == G

(* The cohort of another incarnation of the reservation is purged. *)
Purged(G, g, u) == IF g \in G.exists /\ G.uid[g] # u THEN Forget(G, {g}) ELSE G

Entered(G, g, u) ==
    IF g \in G.exists THEN G
    ELSE Stamp([G EXCEPT !.exists = @ \cup {g}, !.uid[g] = u], g, {})

(* Mutant: the backoff comes on top of another timeout. *)
StallBackedOffLonger(G, new) ==
    LET h == G.admitting IN
    IF h = NoGang \/ G.slotAge <= Timeout THEN G
    ELSE [Stamp(G, h, new) EXCEPT !.backoff[h] = Timeout + Backoff,
                                  !.members[h] = {},
                                  !.admitting = NoGang]

(* Mutant: a holder that is backed off keeps its members. *)
StallKeepingMembers(G, new) ==
    LET h == G.admitting IN
    IF h = NoGang \/ G.slotAge <= Timeout THEN G
    ELSE [Stamp(G, h, new) EXCEPT !.backoff[h] = Backoff, !.admitting = NoGang]

(* A holder that has not reached quorum in time loses the slot: it is        *)
(* forgotten if it has no members, else backed off, wiped and re-stamped.    *)
StallHandled(G, new) ==
    LET h == G.admitting IN
    IF h = NoGang \/ G.slotAge <= Timeout THEN G
    ELSE IF G.members[h] = {} THEN Forget(G, {h})
    ELSE [Stamp(G, h, new) EXCEPT !.backoff[h] = Backoff,
                                  !.members[h] = {},
                                  !.admitting = NoGang]

admissionLess(G, a, b) ==
    \/ Priority[a] > Priority[b]
    \/ /\ Priority[a] = Priority[b]
       /\ \/ <<a, b>> \in G.before
          \/ <<b, a>> \notin G.before /\ KeyRank[a] < KeyRank[b]

(* Who may claim the free slot in a check made by a slice of gang g. *)
Contenders(G, g) ==
    {h \in G.exists \ G.released : /\ h = g \/ G.members[h] # {}
                                   /\ G.backoff[h] = 0}

(* The contender that outranks the others, NoGang if there is none. *)
pickAdmissionHead(G, g) ==
    LET best == {h \in Contenders(G, g) :
                    \A k \in Contenders(G, g) \ {h} : admissionLess(G, h, k)}
    IN IF best = {} THEN NoGang ELSE CHOOSE h \in best : TRUE

(* Mutant: admittingSince is not set. *)
SlotClaimedUnstamped(G, g) ==
    IF G.admitting # NoGang THEN G
    ELSE [G EXCEPT !.admitting = pickAdmissionHead(G, g)]

SlotClaimed(G, g) ==
    LET head == pickAdmissionHead(G, g) IN
    IF G.admitting # NoGang \/ head = NoGang THEN G
    ELSE [G EXCEPT !.admitting = head, !.slotAge = 0]

(* Mutant: quorum does not free the slot. *)
DecidedKeepingSlot(G, s) ==
    LET g == GangOf[s] IN
    IF G.admitting # g
      THEN [result |-> "Wait", gate |-> [G EXCEPT !.members[g] = @ \ {s}]]
    ELSE IF Cardinality(G.members[g] \cup {s}) >= Size[g]
      THEN [result |-> "Allowed",
            gate |-> [G EXCEPT !.members[g] = @ \cup {s}, !.released = @ \cup {g},
                               !.backoff[g] = 0]]
    ELSE [result |-> "Deferred", gate |-> [G EXCEPT !.members[g] = @ \cup {s}]]

(* The verdict for slice s, whose gang owns the slot or does not. *)
Decided(G, s) ==
    LET g == GangOf[s] IN
    IF G.admitting # g
      THEN [result |-> "Wait", gate |-> [G EXCEPT !.members[g] = @ \ {s}]]
    ELSE IF Cardinality(G.members[g] \cup {s}) >= Size[g]
      THEN [result |-> "Allowed",
            gate |-> [G EXCEPT !.members[g] = @ \cup {s},
                               !.released = @ \cup {g},
                               !.backoff[g] = 0,
                               !.admitting = NoGang]]
    ELSE [result |-> "Deferred", gate |-> [G EXCEPT !.members[g] = @ \cup {s}]]

CheckSliceWithCohort(G, s, u) ==
    LET g == GangOf[s]
        kept == Purged(reapStaleCohorts(G), g, u)
        in == Entered(kept, g, u)
        new == IF g \in kept.exists THEN {} ELSE {g}
    IN IF g \in in.released
         THEN [result |-> "Allowed", gate |-> in]
         ELSE Decided(SlotClaimed(StallHandled(in, new), g), s)

-----------------------------------------------------------------------------
(* The scheduling worker (Reconcile, Schedule, gateAndBind).               *)

(* The slices with a speculative hold. *)
held == {s \in Slice : hold[s] > 0}

Release(s) == hold' = [hold EXCEPT ![s] = 0]

(* PinAssumption extends the hold that is there, AssumeSlice takes a new one.*)
Secure(s) ==
    hold' = [hold EXCEPT ![s] = 1 + IF s \in held THEN HoldTTL ELSE SliceTTL]

Free == Capacity - Cardinality(held \cup {s \in Slice : slice[s] = "bound"})

Due(s) == binding = NoSlice /\ slice[s] = "pending" /\ wait[s] = 0

Requeue(s, t) == wait' = [wait EXCEPT ![s] = t]

(* The reservation of s is terminal: Reconcile marks the slice Failed and    *)
(* never brings it to the gate; its hold and its cohort stay.                *)
FailOrphan(s) ==
    /\ Due(s)
    /\ rsv[GangOf[s]].phase = "terminal"
    /\ \/ slice' = [slice EXCEPT ![s] = "failed"] /\ UNCHANGED wait
       \/ "apiError" \in Faults /\ Requeue(s, 1) /\ UNCHANGED slice
    /\ UNCHANGED <<gate, rsv, hold, binding, joined>>

(* Schedule ends before the gate: no capacity, or a read failed. A hold from *)
(* an earlier cycle stays.                                                   *)
NoReserve(s) ==
    /\ Due(s)
    /\ (s \notin held /\ Free = 0) \/ "apiError" \in Faults
    /\ Requeue(s, SlowRetry)
    /\ UNCHANGED <<gate, rsv, slice, hold, binding, joined>>

(* A hold is there (fast-forward) or taken (Reserve). *)
CanReserve(s) == Due(s) /\ (s \in held \/ Free > 0)

(* The gate cannot tell: the reservation is not visible, or a read failed.   *)
(* The hold is given back; a registration in the gate stays.                 *)
GateRetry(s) ==
    /\ CanReserve(s)
    /\ \/ rsv[GangOf[s]].phase = "none" /\ Requeue(s, 1)
       \/ "apiError" \in Faults /\ Requeue(s, SlowRetry)
    /\ Release(s)
    /\ UNCHANGED <<gate, rsv, slice, binding, joined>>

(* The reservation became terminal after Reconcile had looked at it. *)
GateRejected(s) ==
    /\ CanReserve(s)
    /\ rsv[GangOf[s]].phase = "terminal"
    /\ gate' = Forget(gate, {GangOf[s]})
    /\ Release(s)
    /\ Requeue(s, SlowRetry)
    /\ UNCHANGED <<rsv, slice, binding, joined>>

(* Mutant: a deferred slice is not marked held, so its hold is rolled back. *)
GateCheckUnmarked(s) ==
    /\ CanReserve(s)
    /\ rsv[GangOf[s]].phase = "live"
    /\ LET v == CheckSliceWithCohort(gate, s, rsv[GangOf[s]].uid) IN
       /\ gate' = v.gate
       /\ IF v.result = "Allowed" THEN Secure(s) ELSE Release(s)
       /\ binding' = IF v.result = "Allowed" THEN s ELSE NoSlice
       /\ wait' = IF v.result = "Allowed" THEN wait ELSE [wait EXCEPT ![s] = 1]
       /\ joined' = IF v.result = "Wait" THEN joined
                    ELSE [joined EXCEPT ![GangOf[s]] = @ \cup {s}]
    /\ UNCHANGED <<rsv, slice>>

(* The verdict: Allowed goes on to bind, Deferred keeps the hold (MarkHeld), *)
(* Wait gives it back; both retry fast.                                      *)
GateCheck(s) ==
    /\ CanReserve(s)
    /\ rsv[GangOf[s]].phase = "live"
    /\ LET v == CheckSliceWithCohort(gate, s, rsv[GangOf[s]].uid) IN
       /\ gate' = v.gate
       /\ IF v.result = "Wait" THEN Release(s) ELSE Secure(s)
       /\ binding' = IF v.result = "Allowed" THEN s ELSE NoSlice
       /\ wait' = IF v.result = "Allowed" THEN wait ELSE [wait EXCEPT ![s] = 1]
       /\ joined' = IF v.result = "Wait" THEN joined
                    ELSE [joined EXCEPT ![GangOf[s]] = @ \cup {s}]
    /\ UNCHANGED <<rsv, slice>>

(* The pin and the bind calls: the hold is confirmed, or given back. *)
Bind ==
    /\ binding # NoSlice
    /\ \/ /\ binding \in held /\ slice[binding] = "pending"
          /\ slice' = [slice EXCEPT ![binding] = "bound"]
          /\ UNCHANGED wait
       \/ /\ binding \notin held \/ slice[binding] # "pending" \/ "apiError" \in Faults
          /\ Requeue(binding, SlowRetry)
          /\ UNCHANGED slice
    /\ Release(binding)
    /\ binding' = NoSlice
    /\ UNCHANGED <<gate, rsv, joined>>

Worker ==
    \/ \E s \in Slice : \/ FailOrphan(s) \/ NoReserve(s) \/ GateRetry(s)
                        \/ GateRejected(s) \/ GateCheck(s)
    \/ Bind

-----------------------------------------------------------------------------
(* Time, the TTL reaper, the controllers and users, and a take-over.       *)

(* Unless retries may be late, no slice that is due is left waiting. *)
Tick ==
    /\ binding = NoSlice
    /\ "lateRetry" \in Faults \/ \A s \in Slice : ~Due(s)
    /\ wait' = [s \in Slice |-> IF wait[s] = 0 THEN 0 ELSE wait[s] - 1]
    /\ gate' = [gate EXCEPT
           !.age = [g \in Gang |-> IF g \in gate.exists /\ @[g] <= MaxHoldAge
                                     THEN @[g] + 1 ELSE @[g]],
           !.slotAge = IF gate.admitting # NoGang /\ @ <= Timeout THEN @ + 1 ELSE @,
           !.backoff = [g \in Gang |-> IF @[g] = 0 THEN 0 ELSE @[g] - 1]]
    /\ hold' = [s \in Slice |-> IF hold[s] > 1 THEN hold[s] - 1 ELSE hold[s]]
    /\ UNCHANGED <<rsv, slice, binding, joined>>

reapExpiredAssumption(s) ==
    /\ s \in held
    /\ hold[s] = 1 \/ "reap" \in Faults
    /\ Release(s)
    /\ UNCHANGED <<gate, rsv, slice, wait, binding, joined>>

CreateSlice(s) ==
    /\ slice[s] = "absent"
    /\ slice' = [slice EXCEPT ![s] = "pending"]
    /\ UNCHANGED <<gate, rsv, hold, wait, binding, joined>>

(* A bound slice ends with its work, a pending one is deleted by a user; the *)
(* scheduler forgets its hold when it sees the deletion.                     *)
DeleteSlice(s) ==
    /\ \/ slice[s] = "bound"
       \/ slice[s] = "pending" /\ "delete" \in Faults
    /\ slice' = [slice EXCEPT ![s] = "gone"]
    /\ IF s = binding THEN UNCHANGED hold ELSE Release(s)
    /\ UNCHANGED <<gate, rsv, wait, binding, joined>>

CreateReservation(g) ==
    /\ rsv[g].phase = "none"
    /\ rsv[g].uid < MaxUID
    /\ rsv' = [rsv EXCEPT ![g] = [uid |-> @.uid + 1, phase |-> "live"]]
    /\ joined' = [joined EXCEPT ![g] = {}]
    /\ UNCHANGED <<gate, slice, hold, wait, binding>>

Unbound(g) == {s \in Slice : GangOf[s] = g /\ slice[s] \in {"absent", "pending"}}

FailReservation(g) ==
    /\ "deadline" \in Faults
    /\ rsv[g].phase = "live"
    /\ Unbound(g) # {}
    /\ rsv' = [rsv EXCEPT ![g].phase = "terminal"]
    /\ UNCHANGED <<gate, slice, hold, wait, binding, joined>>

DeleteReservation(g) ==
    /\ "recreate" \in Faults
    /\ rsv[g].phase # "none"
    /\ rsv' = [rsv EXCEPT ![g].phase = "none"]
    /\ UNCHANGED <<gate, slice, hold, wait, binding, joined>>

Failover ==
    /\ "failover" \in Faults
    /\ gate' = NewGangBindingGate
    /\ hold' = [s \in Slice |-> 0]
    /\ wait' = [s \in Slice |-> 0]
    /\ binding' = NoSlice
    /\ UNCHANGED <<rsv, slice, joined>>

Environment ==
    \/ \E s \in Slice : reapExpiredAssumption(s) \/ CreateSlice(s) \/ DeleteSlice(s)
    \/ \E g \in Gang : CreateReservation(g) \/ FailReservation(g) \/ DeleteReservation(g)
    \/ Failover

Next == Worker \/ Tick \/ Environment

Spec == Init /\ [][Next]_vars

(* Reservations become visible, slices are created, bound work ends, the     *)
(* hold of a slice that is no longer pending expires.                        *)
Arrivals ==
    \/ \E g \in Gang : CreateReservation(g)
    \/ \E s \in Slice : \/ CreateSlice(s)
                        \/ slice[s] # "pending" /\ (DeleteSlice(s) \/ reapExpiredAssumption(s))

(* Weak fairness of the worker: it can step exactly when a bind is under way *)
(* or a slice is due, and every such step changes the state.                 *)
WorkerRuns ==
    \/ []<>(binding = NoSlice /\ \A s \in Slice : ~Due(s))
    \/ []<><<Worker>>_vars

(* The worker takes what is due, time passes, and what must arrive does. A   *)
(* reservation need not fail: no gang may count on the deadline of another.  *)
FairSpec ==
    /\ Spec
    /\ WorkerRuns /\ WF_vars(Tick) /\ WF_vars(Arrivals)

-----------------------------------------------------------------------------
(* Properties.                                                             *)

(* The admission slot is never stuck: its holder is a cohort that exists,    *)
(* has not been released, and registered a member when it was granted the    *)
(* slot. (So the branch for a holder without members is never taken.)        *)
SlotOwned ==
    gate.admitting # NoGang =>
        /\ gate.admitting \in gate.exists \ gate.released
        /\ gate.members[gate.admitting] # {}

(* One gang assembles at a time: only the holder of the slot has registered  *)
(* members short of quorum; whoever lost the slot, by stalling, by being      *)
(* reaped or by a new incarnation, starts from nothing.                       *)
OneAssembly ==
    \A g \in Gang \ gate.released : g # gate.admitting => gate.members[g] = {}

(* No member of a gang binds alone: when the gate allows a slice, at least   *)
(* gangSize slices have been let hold capacity since the reservation it read *)
(* was created; a quorum of an earlier incarnation does not count.           *)
NoSoloBind ==
    [][binding' \notin {binding, NoSlice} =>
          Cardinality(joined'[GangOf[binding']]) >= Size[GangOf[binding']]]_vars

(* What the gate remembers of the current incarnation of a reservation: its  *)
(* members were let hold capacity since that incarnation exists, and if it is *)
(* released, so were gangSize slices.                                         *)
CohortsJoined ==
    \A g \in Gang :
        /\ gate.uid[g] <= rsv[g].uid
        /\ gate.uid[g] = rsv[g].uid =>
              /\ gate.members[g] \subseteq joined[g]
              /\ g \in gate.released => Cardinality(joined[g]) >= Size[g]

(* The inductive invariant behind NoSoloBind, SlotOwned and OneAssembly. *)
GateInv ==
    /\ TypeOK
    /\ SlotOwned
    /\ OneAssembly
    /\ gate.released \subseteq gate.exists
    /\ CohortsJoined

(* "when the gate registers a member, that member's bytes ARE held in the    *)
(* cache": at quorum every registered member of the gang holds capacity. The  *)
(* TTL reaper cannot take the hold of a member first, however late the retries*)
(* are: a hold lasts longer than the slot, and who loses the slot loses its   *)
(* members. A failed read takes a hold and leaves the registration.           *)
QuorumHeld ==
    [][\A g \in gate'.released \ gate.released : gate'.members[g] \subseteq held']_vars

(* "deadlocking with every gang holding a fragment" does not happen: every   *)
(* slice of a gang that fits the cluster is bound in the end (and then ends   *)
(* with its work), unless the reservation of the gang fails or is deleted.    *)
Admitted ==
    \A g \in Gang :
        Size[g] <= Capacity =>
            (rsv[g].phase = "live" ~> \/ rsv[g].phase # "live"
                                     \/ Unbound(g) = {})

=============================================================================
