----------------------- MODULE GangReservationProofs -----------------------
(***************************************************************************)
(* Theorems about GangReservation: types, what the reservation worker has  *)
(* in hand while it works (PassInv), that a released gang is dead for good *)
(* (ReleaseInv), and from these that a committed gang is not torn down for *)
(* what only an informer reports, and that the gang keeps the promise of   *)
(* GangOutcome.                                                            *)
(***************************************************************************)
EXTENDS GangReservation, TLAPS

Assembling == {"Pending", "Reserving", "Reserved"}

(* What the reservation worker may write over the phase p. *)
MayFollow(next, p) ==
    \/ next \in {"Reserving", "Reserved"} /\ p \in Assembling
    \/ next = "Committed" /\ p \in Assembling \cup {"Committed"}
    \/ next = "Failed" /\ p \in Assembling \cup {"Committed", "Failed"}
    \/ next = "Released" /\ p = "Failed"

(* What is true of the reservation for as long as a decision is in hand. *)
PassSound ==
    /\ rw.pc = "confirm" => rw.next = "Failed" /\ rsv = "Committed"
    /\ rw.pc = "teardown" => /\ rw.next = "Failed" /\ MayFollow("Failed", rsv)
                             /\ rsv = "Committed" => ~whole
    /\ rw.pc = "apply" => MayFollow(rw.next, rsv)

PassInv == TypeOK /\ ownView = "current" /\ PassSound

(* A lag lasts no longer than the phase in which it began. *)
LagSound == view # NoView => rsv \in LagPhases

(* Only a slice that waits is about to be bound. *)
AdmittedPending == \A i \in admitted : slice[i] = "Pending"

(* The reservation is released, or will be as soon as that is written. *)
Ending == rsv = "Released" \/ (rw.pc = "apply" /\ rw.next = "Released")

Dead == Ending => held = {} /\ admitted = {}

ReleaseInv == LagSound /\ AdmittedPending /\ Dead

-----------------------------------------------------------------------------
(* Types.                                                                  *)

LEMMA SlotSize == NoView.slot \notin Slot
  BY GangAssumption DEF Slot, NoView

LEMMA SeenTypes ==
    ASSUME TypeOK
    PROVE  /\ \A i \in Slot : SeenJob(i) \in JobState /\ SeenClaim(i) \in ClaimState
                              /\ SeenSlice(i) \in SliceState
           /\ SeenRsv \in RsvPhase \cup {"none"}
<1> DEFINE V == [slot : Slot, job : JobState, claim : ClaimState, slice : SliceState]
<1>1. view = NoView \/ view \in V
  BY DEF TypeOK
<1>2. CASE view = NoView
  <2>1. \A i \in Slot : view.slot # i
    BY <1>2, SlotSize
  <2> QED  BY <2>1 DEF SeenJob, SeenClaim, SeenSlice, SeenRsv, TypeOK
<1>3. CASE view \in V
  <2>1. view.job \in JobState /\ view.claim \in ClaimState /\ view.slice \in SliceState
    BY <1>3
  <2> QED  BY <2>1 DEF SeenJob, SeenClaim, SeenSlice, SeenRsv, TypeOK
<1> QED  BY <1>1, <1>2, <1>3

(* What is decided, for a phase that is not yet the end. *)
LEMMA Deciding ==
    ASSUME NEW cur \in Assembling \cup {"Committed"}, NEW t
    PROVE  /\ decideNextPhase(cur, t) \in RsvPhase
           /\ MayFollow(decideNextPhase(cur, t), cur)
           /\ decideNextPhase(cur, t) # "Released"
  BY DEF decideNextPhase, AllReserved, Otherwise, MayFollow, Assembling, RsvPhase

LEMMA CountLag ==
    ASSUME TypeOK, NEW f, Lags(f)
    PROVE  lags' \in 0..MaxLags
  BY GangAssumption DEF TypeOK, Lags

LEMMA CountFault ==
    ASSUME TypeOK, NEW f, GoesWrong(f)
    PROVE  faults' \in 0..MaxFaults
  BY GangAssumption DEF TypeOK, GoesWrong

LEMMA DeletedTypes ==
    /\ \A s \in SliceState : DeletedSlice(s) \in SliceState
    /\ \A c \in ClaimState : DeletedClaim(c) \in ClaimState
  BY DEF DeletedSlice, DeletedClaim, SliceState, ClaimState

(* The children stay what they are. *)
LEMMA ChildrenStay ==
    ASSUME TypeOK, UNCHANGED children
    PROVE  /\ job' \in [Slot -> JobState] /\ claim' \in [Slot -> ClaimState]
           /\ slice' \in [Slot -> SliceState] /\ admitted' \in SUBSET Slot
  BY DEF TypeOK, children

OwnTypes == /\ rsv \in RsvPhase \cup {"none"}
            /\ clock \in {"off", "running", "over"}
            /\ gang \in GangPhase
            /\ rw \in [pc : {"idle", "confirm", "teardown", "apply"}, next : RsvPhase]
            /\ gw \in {"idle", "children", "mirror"}
            /\ view \in {NoView} \cup [slot : Slot, job : JobState, claim : ClaimState,
                                       slice : SliceState]
            /\ ownView \in RsvPhase \cup {"none", "current"}
            /\ faults \in 0..MaxFaults
            /\ lags \in 0..MaxLags
ChildTypes == /\ job \in [Slot -> JobState] /\ claim \in [Slot -> ClaimState]
              /\ slice \in [Slot -> SliceState] /\ admitted \in SUBSET Slot

LEMMA Types == TypeOK <=> OwnTypes /\ ChildTypes /\ whole \in BOOLEAN
  BY DEF TypeOK, OwnTypes, ChildTypes

LEMMA TypeInit == Init => TypeOK
<1> SUFFICES ASSUME Init PROVE TypeOK
  OBVIOUS
<1>1. 0 \in 0..MaxFaults /\ 0 \in 0..MaxLags
  BY GangAssumption
<1>2. rw \in [pc : {"idle", "confirm", "teardown", "apply"}, next : RsvPhase]
  BY DEF Init, RsvPhase
<1>3. /\ job \in [Slot -> JobState] /\ claim \in [Slot -> ClaimState]
      /\ slice \in [Slot -> SliceState]
  BY DEF Init, JobState, ClaimState, SliceState
<1> QED  BY <1>1, <1>2, <1>3 DEF Init, TypeOK, RsvPhase, GangPhase

LEMMA ReservationWorkerTypes ==
    ASSUME TypeOK, ReservationWorker
    PROVE  OwnTypes' /\ ChildTypes'
<1> USE DEF OwnTypes, ChildTypes
<1>1. CASE Reconcile
  <2>1. SeenRsv \in Assembling \cup {"Committed"}
    BY <1>1, SeenTypes DEF Reconcile, RsvPhase, Assembling
  <2>2. PICK n \in RsvPhase, p \in {"idle", "confirm", "teardown", "apply"} :
           rw' = [pc |-> p, next |-> n]
    BY <1>1, <2>1, Deciding DEF Reconcile, Go, AfterDecision
  <2> QED  BY <1>1, <2>2, ChildrenStay DEF Reconcile, TypeOK
<1>2. CASE childLossConfirmedDirect
  <2>1. rw' \in [pc : {"idle", "teardown"}, next : {"Failed", "Pending"}]
    BY <1>2 DEF childLossConfirmedDirect, Go, Done
  <2>2. faults' \in 0..MaxFaults
    BY <1>2, CountFault DEF childLossConfirmedDirect, TypeOK
  <2> QED  BY <1>2, <2>1, <2>2, ChildrenStay DEF childLossConfirmedDirect, TypeOK, RsvPhase
<1>3. CASE continueTeardown
  <2>1. rw' \in [pc : {"apply", "teardown"}, next : {"Failed", "Released"}]
    BY <1>3 DEF continueTeardown, Go
  <2>2. faults' \in 0..MaxFaults
    BY <1>3, CountFault DEF continueTeardown, TypeOK
  <2> QED  BY <1>3, <2>1, <2>2, ChildrenStay DEF continueTeardown, TypeOK, RsvPhase
<1>4. CASE tearDownChildren
  <2>1. rw' \in [pc : {"apply"}, next : {"Failed"}]
    BY <1>4 DEF tearDownChildren, Go
  <2>2. faults' \in 0..MaxFaults
    BY <1>4, CountFault DEF tearDownChildren, TypeOK
  <2>3. ChildTypes'
    BY <1>4, DeletedTypes DEF tearDownChildren, TypeOK, JobState
  <2> QED  BY <1>4, <2>1, <2>2, <2>3 DEF tearDownChildren, TypeOK, RsvPhase
<1>5. CASE applyPhase
  <2>1. rw' \in [pc : {"idle"}, next : {"Pending"}]
    BY <1>5 DEF applyPhase, Done
  <2>2. faults' \in 0..MaxFaults /\ lags' \in 0..MaxLags
    BY <1>5, CountFault, CountLag DEF applyPhase, TypeOK
  <2>3. rsv' \in RsvPhase \cup {"none"} /\ clock' \in {"off", "running", "over"}
    BY <1>5 DEF applyPhase, TypeOK
  <2>4. ownView' \in RsvPhase \cup {"none", "current"}
    BY <1>5 DEF applyPhase, TypeOK
  <2> QED  BY <1>5, <2>1, <2>2, <2>3, <2>4, ChildrenStay DEF applyPhase, TypeOK, RsvPhase
<1> QED  BY <1>1, <1>2, <1>3, <1>4, <1>5 DEF ReservationWorker

LEMMA GangWorkerTypes ==
    ASSUME TypeOK, GangWorker
    PROVE  OwnTypes' /\ ChildTypes'
<1> USE DEF OwnTypes, ChildTypes
<1>1. CASE GangReconcile
  BY <1>1, ChildrenStay DEF GangReconcile, TypeOK, GangPhase
<1>2. CASE ensureChildren
  <2>1. faults' \in 0..MaxFaults /\ gw' \in {"idle", "mirror"}
    BY <1>2, CountFault DEF ensureChildren, TypeOK
  <2>2. ChildTypes'
    BY <1>2 DEF ensureChildren, TypeOK, JobState
  <2> QED  BY <1>2, <2>1, <2>2 DEF ensureChildren, TypeOK
<1>3. CASE createOrMirror
  <2>1. faults' \in 0..MaxFaults
    BY <1>3, CountFault DEF createOrMirror, TypeOK
  <2>2. \A p \in RsvPhase : derivePhaseFromReservation(p) \in GangPhase
    BY DEF derivePhaseFromReservation, RsvPhase, GangPhase
  <2>3. gang' \in GangPhase
    BY <1>3, <2>2, SeenTypes DEF createOrMirror, TypeOK, GangPhase
  <2>4. rsv' \in RsvPhase \cup {"none"}
    BY <1>3 DEF createOrMirror, TypeOK, RsvPhase
  <2> QED  BY <1>3, <2>1, <2>3, <2>4, ChildrenStay DEF createOrMirror, TypeOK
<1> QED  BY <1>1, <1>2, <1>3 DEF GangWorker

LEMMA ChainTypes ==
    ASSUME TypeOK, NEW i \in Slot, Chain(i)
    PROVE  OwnTypes' /\ ChildTypes'
<1> USE DEF OwnTypes, ChildTypes
<1>1. CASE Allocate(i)
  <2>1. faults' \in 0..MaxFaults
    BY <1>1, CountFault DEF Allocate, TypeOK
  <2>2. ChildTypes'
    BY <1>1 DEF Allocate, TypeOK, SliceState
  <2> QED  BY <1>1, <2>1, <2>2 DEF Allocate, TypeOK
<1>2. CASE ~Allocate(i)
  <2>1. UNCHANGED Workers
    BY <1>2 DEF Chain, ChainUp, ChainDown, CreateClaim, CreateSlice, JobFails,
       releaseTerminalGrant, Admit, Bind, FailOrphan, DeleteClaim, handleClaimDelete,
       SliceGone, JobGone
  <2>2. OwnTypes'
    BY <2>1 DEF Workers, TypeOK
  <2>3. job' \in [Slot -> JobState]
    BY <1>2 DEF Chain, ChainUp, ChainDown, CreateClaim, CreateSlice, JobFails,
       releaseTerminalGrant, Admit, Bind, FailOrphan, DeleteClaim, handleClaimDelete,
       SliceGone, JobGone, TypeOK, JobState
  <2>4. claim' \in [Slot -> ClaimState]
    BY <1>2 DEF Chain, ChainUp, ChainDown, CreateClaim, CreateSlice, JobFails,
       releaseTerminalGrant, Admit, Bind, FailOrphan, DeleteClaim, handleClaimDelete,
       SliceGone, JobGone, TypeOK, ClaimState
  <2>5. slice' \in [Slot -> SliceState]
    BY <1>2, DeletedTypes DEF Chain, ChainUp, ChainDown, CreateClaim, CreateSlice, JobFails,
       releaseTerminalGrant, Admit, Bind, FailOrphan, DeleteClaim, handleClaimDelete,
       SliceGone, JobGone, TypeOK, SliceState
  <2>6. admitted' \in SUBSET Slot
    BY <1>2 DEF Chain, ChainUp, ChainDown, CreateClaim, CreateSlice, JobFails,
       releaseTerminalGrant, Admit, Bind, FailOrphan, DeleteClaim, handleClaimDelete,
       SliceGone, JobGone, TypeOK
  <2> QED  BY <2>2, <2>3, <2>4, <2>5, <2>6
<1> QED  BY <1>1, <1>2

LEMMA EnvironmentTypes ==
    ASSUME TypeOK,
           (\E i \in Slot : UserDeletes(i) \/ FallBehind(i)) \/ CatchUp \/ DeadlinePasses
    PROVE  OwnTypes' /\ ChildTypes'
<1> USE DEF OwnTypes, ChildTypes
<1>1. CASE \E i \in Slot : UserDeletes(i)
  <2>1. PICK i \in Slot : UserDeletes(i)
    BY <1>1
  <2>2. faults' \in 0..MaxFaults
    BY <2>1, CountFault DEF UserDeletes
  <2>3. ChildTypes'
    BY <2>1, DeletedTypes DEF UserDeletes, TypeOK, JobState, ClaimState
  <2> QED  BY <2>1, <2>2, <2>3 DEF UserDeletes, TypeOK
<1>2. CASE \E i \in Slot : FallBehind(i)
  <2>1. PICK i \in Slot : FallBehind(i)
    BY <1>2
  <2>2. lags' \in 0..MaxLags
    BY <2>1, CountLag DEF FallBehind
  <2> QED  BY <2>1, <2>2, ChildrenStay DEF FallBehind, TypeOK
<1>3. CASE CatchUp
  BY <1>3, ChildrenStay DEF CatchUp, TypeOK
<1>4. CASE DeadlinePasses
  BY <1>4, ChildrenStay DEF DeadlinePasses, TypeOK
<1> QED  BY <1>1, <1>2, <1>3, <1>4

LEMMA TypeStep == TypeOK /\ [Next]_vars => TypeOK'
<1> SUFFICES ASSUME TypeOK, [Next]_vars
             PROVE  TypeOK'
  OBVIOUS
<1>1. CASE UNCHANGED vars
  BY <1>1 DEF vars, TypeOK
<1>2. CASE Next
  <2>1. whole' \in BOOLEAN
    BY <1>2 DEF Next, Remember
  <2>2. OwnTypes' /\ ChildTypes'
    BY <1>2, ReservationWorkerTypes, GangWorkerTypes, ChainTypes, EnvironmentTypes
       DEF Next, Step
  <2> QED  BY <2>1, <2>2 DEF TypeOK, OwnTypes, ChildTypes
<1> QED  BY <1>1, <1>2

(* Every state is well typed, whatever goes wrong. *)
THEOREM GangTypeCorrect == Spec => []TypeOK
  BY TypeInit, TypeStep, PTL DEF Spec

-----------------------------------------------------------------------------
(* The reservation worker.                                                 *)

(* What a step does to the reservation: nothing, its creation, or the write  *)
(* that ends a pass.                                                         *)
RsvMoves ==
    \/ UNCHANGED rsv
    \/ rsv = "none" /\ rsv' = "Pending" /\ UNCHANGED <<children, rw, view>>
    \/ /\ rw.pc = "apply" /\ rsv' = rw.next /\ rw'.pc = "idle" /\ view = NoView
       /\ UNCHANGED <<children, view>>

(* What a step does to the pass, if the worker sees the reservation as it is: *)
(* it ends, it goes on as it may, or somebody else takes the step.           *)
PassMoves ==
    \/ UNCHANGED rw
    \/ rw'.pc = "idle" /\ rw'.next = "Pending"
    \/ /\ rw'.pc # "idle" /\ UNCHANGED rsv
       /\ MayFollow(rw'.next, rsv)
       /\ rw'.pc \in {"confirm", "teardown"} => rw'.next = "Failed"
       /\ rw'.pc = "confirm" => rsv = "Committed"
       /\ rw'.pc = "teardown" /\ rsv = "Committed" =>
             \E i \in Slot : ~Holds(i)' \/ SeenSlice(i)' = "Failed"
       /\ rw'.next = "Released" => rw'.pc = "apply" /\ allGone /\ UNCHANGED children

LEMMA TallyFailed ==
    ASSUME TypeOK, NEW i \in Slot, Tally(i) = "failed"
    PROVE  SeenSlice(i) = "Failed"
<1>1. SeenSlice(i) \in SliceState
  BY SeenTypes
<1> QED  BY <1>1 DEF Tally, SliceState

LEMMA Moving ==
    ASSUME PassInv, Next
    PROVE  RsvMoves /\ PassMoves
<1> USE DEF PassInv
<1>1. rw \in [pc : {"idle", "confirm", "teardown", "apply"}, next : RsvPhase]
  BY DEF TypeOK
<1>2. SeenRsv = rsv
  BY DEF SeenRsv
<1>3. CASE Reconcile
  <2> DEFINE t == tallyChildSlices
             next == decideNextPhase(SeenRsv, t)
  <2>1. UNCHANGED rsv /\ rsv \in Assembling \cup {"Committed"}
    BY <1>2, <1>3 DEF Reconcile, TypeOK, RsvPhase, Assembling
  <2>2. next \in RsvPhase /\ MayFollow(next, rsv) /\ next # "Released"
    BY <1>2, <2>1, Deciding
  <2>3. rw' = [pc |-> AfterDecision(rsv, t, next), next |-> next]
    BY <1>2, <1>3 DEF Reconcile, Go
  <2> HIDE DEF next
  <2>4. ASSUME rw'.pc = "teardown", rsv = "Committed"
        PROVE  \E i \in Slot : SeenSlice(i)' = "Failed"
    <3>1. AnyFailed(t)
      BY <2>3, <2>4 DEF AfterDecision
    <3>2. PICK i \in Slot : Tally(i) = "failed"
      BY <3>1 DEF AnyFailed, tallyChildSlices
    <3>3. UNCHANGED <<view, slice>>
      BY <1>3 DEF Reconcile, children
    <3> QED  BY <3>2, <3>3, TallyFailed DEF SeenSlice
  <2>5. rw'.pc = AfterDecision(rsv, t, next) /\ rw'.next = next
    BY <2>3
  <2> HIDE DEF t
  <2> QED  BY <2>1, <2>2, <2>4, <2>5 DEF RsvMoves, PassMoves, AfterDecision
<1>4. CASE childLossConfirmedDirect
  <2>1. UNCHANGED <<rsv, children>>
    BY <1>4 DEF childLossConfirmedDirect
  <2>2. CASE \E i \in Slot : ~Holds(i) /\ Go("teardown", "Failed")
    <3>1. PICK i \in Slot : ~Holds(i) /\ rw' = [pc |-> "teardown", next |-> "Failed"]
      BY <2>2 DEF Go
    <3>2. ~Holds(i)'
      BY <2>1, <3>1 DEF Holds, children
    <3> QED  BY <1>4, <2>1, <3>1, <3>2 DEF RsvMoves, PassMoves, PassSound, MayFollow,
                childLossConfirmedDirect
  <2>3. CASE Done
    BY <2>1, <2>3 DEF Done, RsvMoves, PassMoves
  <2> QED  BY <1>4, <2>2, <2>3 DEF childLossConfirmedDirect
<1>5. CASE continueTeardown
  <2>1. UNCHANGED rsv /\ rsv = "Failed"
    BY <1>2, <1>5 DEF continueTeardown
  <2>2. /\ UNCHANGED children
        /\ \/ allGone /\ rw' = [pc |-> "apply", next |-> "Released"]
           \/ rw' = [pc |-> "teardown", next |-> "Failed"]
    BY <1>5 DEF continueTeardown, Go
  <2> QED  BY <2>1, <2>2 DEF RsvMoves, PassMoves, MayFollow
<1>6. CASE tearDownChildren
  <2>1. UNCHANGED rsv /\ rw' = [pc |-> "apply", next |-> "Failed"] /\ MayFollow("Failed", rsv)
    BY <1>6 DEF tearDownChildren, Go, PassSound
  <2> QED  BY <2>1 DEF RsvMoves, PassMoves
<1>7. CASE applyPhase
  <2>1. rw' = [pc |-> "idle", next |-> "Pending"] /\ view = NoView /\ rw.pc = "apply"
    BY <1>7 DEF applyPhase, Done
  <2>2. rsv' \in {rsv, rw.next} /\ UNCHANGED <<children, view>>
    BY <1>7 DEF applyPhase
  <2> QED  BY <2>1, <2>2 DEF RsvMoves, PassMoves
<1>8. CASE GangWorker
  BY <1>8 DEF GangWorker, GangReconcile, ensureChildren, createOrMirror, RsvMoves, PassMoves
<1>9. CASE \E i \in Slot : Chain(i)
  BY <1>9 DEF Chain, ChainUp, ChainDown, CreateClaim, CreateSlice, JobFails,
     releaseTerminalGrant, Admit, Bind, FailOrphan, Allocate, DeleteClaim,
     handleClaimDelete, SliceGone, JobGone, Workers, RsvMoves, PassMoves
<1>10. CASE (\E i \in Slot : UserDeletes(i) \/ FallBehind(i)) \/ CatchUp \/ DeadlinePasses
  BY <1>10 DEF UserDeletes, FallBehind, CatchUp, DeadlinePasses, RsvMoves, PassMoves
<1> QED  BY <1>3, <1>4, <1>5, <1>6, <1>7, <1>8, <1>9, <1>10
            DEF Next, Step, ReservationWorker

LEMMA OwnWritesSeen ==
    ASSUME TypeOK, ownView = "current", "ownLag" \notin Faults, [Next]_vars
    PROVE  ownView' = "current"
  BY DEF Next, Step, ReservationWorker, Reconcile, childLossConfirmedDirect, continueTeardown,
     tearDownChildren, applyPhase, Lags, GangWorker, GangReconcile, ensureChildren,
     createOrMirror, Chain, ChainUp, ChainDown, CreateClaim, CreateSlice, JobFails,
     releaseTerminalGrant, Admit, Bind, FailOrphan, Allocate, DeleteClaim, handleClaimDelete,
     SliceGone, JobGone, Workers, UserDeletes, FallBehind, CatchUp, DeadlinePasses, vars

LEMMA PassStep ==
    ASSUME PassInv, "ownLag" \notin Faults, [Next]_vars
    PROVE  PassInv'
<1>1. TypeOK' /\ ownView' = "current"
  BY TypeStep, OwnWritesSeen DEF PassInv
<1>2. CASE UNCHANGED vars
  BY <1>1, <1>2 DEF vars, PassInv, PassSound, MayFollow
<1>3. CASE Next
  <2>1. RsvMoves /\ PassMoves
    BY <1>3, Moving
  <2>2. rw'.pc # "idle" /\ (rw.pc # "idle" /\ ~whole) => ~whole'
    BY <1>3 DEF Next, Remember
  <2>3. (\E i \in Slot : ~Holds(i)' \/ SeenSlice(i)' = "Failed") => ~whole'
    BY <1>3 DEF Next, Remember
  <2>4. CASE UNCHANGED rw
    <3>1. UNCHANGED rsv \/ (rsv = "none" /\ rsv' = "Pending") \/ rw.pc = "idle"
      BY <2>1, <2>4 DEF RsvMoves
    <3>2. rsv = "none" => rw.pc \notin {"confirm", "teardown", "apply"}
      BY DEF PassInv, PassSound, MayFollow, Assembling
    <3> QED  BY <1>1, <2>2, <2>4, <3>1, <3>2 DEF PassInv, PassSound, MayFollow
  <2>5. CASE rw'.pc = "idle"
    BY <1>1, <2>5 DEF PassInv, PassSound
  <2>6. CASE rw # rw' /\ rw'.pc # "idle"
    BY <1>1, <2>1, <2>3, <2>6 DEF PassMoves, PassInv, PassSound, MayFollow, Assembling
  <2> QED  BY <2>4, <2>5, <2>6
<1> QED  BY <1>2, <1>3

LEMMA PassInit == Init => PassInv
  BY TypeInit DEF Init, PassInv, PassSound

(* What the reservation worker has decided stays allowed until it is written, *)
(* if it sees its own writes.                                                *)
THEOREM GangPassInvariant ==
    ASSUME "ownLag" \notin Faults
    PROVE  Spec => []PassInv
  BY PassInit, PassStep, PTL DEF Spec

(* A committed gang is not torn down for an absence that only an informer     *)
(* reports, whenever that lags.                                              *)
THEOREM NoGangTornDownFalsely ==
    ASSUME "ownLag" \notin Faults
    PROVE  Spec => NoFalseTeardown
<1>1. PassInv => [rsv = "Committed" /\ rw.pc = "teardown" /\ rw'.pc = "apply" => ~whole]_vars
  BY DEF PassInv, PassSound
<1> QED  BY <1>1, GangPassInvariant, PTL DEF NoFalseTeardown

-----------------------------------------------------------------------------
(* The end of a gang.                                                      *)

LEMMA ViewMoves ==
    ASSUME [Next]_vars
    PROVE  view' \in {view, NoView} \/ (rsv \in LagPhases /\ UNCHANGED rsv)
  BY DEF Next, Step, ReservationWorker, Reconcile, childLossConfirmedDirect, continueTeardown,
     tearDownChildren, applyPhase, GangWorker, GangReconcile, ensureChildren,
     createOrMirror, Chain, ChainUp, ChainDown, CreateClaim, CreateSlice, JobFails,
     releaseTerminalGrant, Admit, Bind, FailOrphan, Allocate, DeleteClaim, handleClaimDelete,
     SliceGone, JobGone, Workers, UserDeletes, FallBehind, CatchUp, DeadlinePasses, vars

(* What a step does to what the slots hold, and to the binds under way: one  *)
(* slot at most comes to hold something, and only by a bind under way.       *)
HeldMoves ==
    \/ UNCHANGED held
    \/ UNCHANGED rsv /\ \E i \in admitted : i \notin held /\ held' = held \cup {i}
    \/ UNCHANGED rsv /\ \E i \in held : held' = held \ {i}

AdmittedMoves ==
    \A i \in admitted' :
       slice'[i] = "Pending" /\ (i \in admitted \/ rsv \notin {"Failed", "Released"})

LEMMA HeldSame ==
    ASSUME \A i \in Slot : slice'[i] \in {"Scheduled", "Ready", "releasing"}
                          <=> slice[i] \in {"Scheduled", "Ready", "releasing"}
    PROVE  UNCHANGED held
  BY DEF held

LEMMA TakesOne ==
    ASSUME TypeOK, NEW i \in Slot, NEW s \in {"Scheduled", "Ready", "releasing"},
           slice' = [slice EXCEPT ![i] = s]
    PROVE  held' = held \cup {i}
  BY DEF held, TypeOK

LEMMA GivesOne ==
    ASSUME TypeOK, NEW i \in Slot, NEW s \in {"none", "Failed"},
           slice' = [slice EXCEPT ![i] = s]
    PROVE  held' = held \ {i}
  BY DEF held, TypeOK

LEMMA DeletedHolds ==
    ASSUME NEW s \in SliceState
    PROVE  /\ DeletedSlice(s) \in {"Scheduled", "Ready", "releasing"}
              <=> s \in {"Scheduled", "Ready", "releasing"}
  BY DEF DeletedSlice, SliceState

LEMMA ChainHolds ==
    ASSUME TypeOK, AdmittedPending, NEW i \in Slot, Chain(i)
    PROVE  HeldMoves /\ AdmittedMoves
<1> USE DEF HeldMoves, AdmittedMoves, AdmittedPending
<1>1. CASE UNCHANGED <<slice, admitted>>
  BY <1>1 DEF held
<1>2. CASE CreateSlice(i)
  <2>1. slice' = [slice EXCEPT ![i] = "Pending"] /\ slice[i] = "none"
    BY <1>2 DEF CreateSlice
  <2>2. UNCHANGED held
    BY <2>1, HeldSame DEF TypeOK
  <2> QED  BY <1>2, <2>1, <2>2 DEF CreateSlice, TypeOK
<1>3. CASE handleClaimDelete(i) /\ UNCHANGED claim
  <2>1. slice' = [slice EXCEPT ![i] = DeletedSlice(slice[i])] \/ UNCHANGED slice
    BY <1>3 DEF handleClaimDelete
  <2>2. UNCHANGED held
    BY <2>1, HeldSame, DeletedHolds DEF TypeOK
  <2>3. \/ admitted' = admitted /\ slice' = slice
        \/ admitted' = admitted \ {i} /\ \A j \in Slot \ {i} : slice'[j] = slice[j]
    BY <1>3 DEF handleClaimDelete, TypeOK
  <2> QED  BY <2>2, <2>3 DEF TypeOK
<1>4. CASE SliceGone(i)
  <2>1. slice' = [slice EXCEPT ![i] = "none"] /\ UNCHANGED <<rsv, admitted>>
        /\ slice[i] # "Pending"
    BY <1>4 DEF SliceGone, Workers
  <2>2. held' = held \ {i}
    BY <2>1, GivesOne
  <2> QED  BY <2>1, <2>2 DEF TypeOK
<1>5. CASE Admit(i)
  <2>1. slice' = slice /\ slice[i] = "Pending" /\ admitted' = admitted \cup {i}
        /\ rsv \notin {"Failed", "Released"}
    BY <1>5 DEF Admit
  <2> QED  BY <2>1 DEF held
<1>6. CASE Bind(i)
  <2>1. slice' = [slice EXCEPT ![i] = "Scheduled"] /\ UNCHANGED rsv
        /\ i \in admitted /\ admitted' = admitted \ {i}
    BY <1>6 DEF Bind, Workers
  <2>2. i \notin held
    BY <2>1 DEF held
  <2>3. held' = held \cup {i}
    BY <2>1, TakesOne
  <2> QED  BY <2>1, <2>2, <2>3 DEF TypeOK
<1>7. CASE FailOrphan(i)
  <2>1. slice' = [slice EXCEPT ![i] = "Failed"] /\ i \notin admitted /\ slice[i] = "Pending"
        /\ UNCHANGED admitted
    BY <1>7 DEF FailOrphan
  <2>2. UNCHANGED held
    BY <2>1, HeldSame DEF TypeOK
  <2> QED  BY <2>1, <2>2 DEF TypeOK
<1>8. CASE Allocate(i)
  <2>1. PICK s \in {"Ready", "Failed"} : slice' = [slice EXCEPT ![i] = s]
    BY <1>8 DEF Allocate
  <2>2. UNCHANGED <<rsv, admitted>> /\ slice[i] = "Scheduled" /\ i \in held
    BY <1>8 DEF Allocate, held
  <2>3. held' = held \ {i} \/ held' = held
    <3>1. s = "Ready" => held' = held \cup {i}
      BY <2>1, TakesOne
    <3>2. s = "Failed" => held' = held \ {i}
      BY <2>1, GivesOne
    <3> QED  BY <2>1, <2>2, <3>1, <3>2
  <2> QED  BY <2>1, <2>2, <2>3 DEF TypeOK
<1> QED  BY <1>1, <1>2, <1>3, <1>4, <1>5, <1>6, <1>7, <1>8
            DEF Chain, ChainUp, ChainDown, CreateClaim, JobFails, releaseTerminalGrant,
                DeleteClaim, handleClaimDelete, JobGone

LEMMA HoldingMoves ==
    ASSUME TypeOK, AdmittedPending, [Next]_vars
    PROVE  HeldMoves /\ AdmittedMoves
<1> USE DEF HeldMoves, AdmittedMoves, AdmittedPending
<1>1. CASE UNCHANGED <<slice, admitted>>
  BY <1>1 DEF held
<1>2. CASE tearDownChildren
  <2>1. PICK S \in SUBSET Slot :
           /\ slice' = [i \in Slot |-> IF i \in S THEN DeletedSlice(slice[i]) ELSE slice[i]]
           /\ admitted' = admitted \ S
    BY <1>2 DEF tearDownChildren
  <2>2. UNCHANGED held
    BY <2>1, HeldSame, DeletedHolds DEF TypeOK
  <2> QED  BY <2>1, <2>2 DEF TypeOK
<1>3. CASE \E i \in Slot : UserDeletes(i)
  <2>1. PICK i \in Slot : UserDeletes(i)
    BY <1>3
  <2>2. CASE UNCHANGED <<slice, admitted>>
    BY <1>1, <2>2
  <2>3. CASE slice' = [slice EXCEPT ![i] = DeletedSlice(slice[i])] /\ admitted' = admitted \ {i}
    <3>1. UNCHANGED held
      BY <2>3, HeldSame, DeletedHolds DEF TypeOK
    <3> QED  BY <2>3, <3>1 DEF TypeOK
  <2> QED  BY <2>1, <2>2, <2>3 DEF UserDeletes
<1>4. CASE \E i \in Slot : Chain(i)
  BY <1>4, ChainHolds
<1> QED  BY <1>1, <1>2, <1>3, <1>4
            DEF Next, Step, ReservationWorker, Reconcile, childLossConfirmedDirect,
                continueTeardown, applyPhase, GangWorker, GangReconcile, ensureChildren,
                createOrMirror, children, FallBehind, CatchUp, DeadlinePasses, vars

LEMMA GoneHolds ==
    ASSUME TypeOK, AdmittedPending, view = NoView, allGone
    PROVE  held = {} /\ admitted = {}
<1>1. \A i \in Slot : slice[i] = "none"
  BY SlotSize DEF allGone, SeenSlice
<1> QED  BY <1>1 DEF held, AdmittedPending, TypeOK

LEMMA ReleaseStep ==
    ASSUME PassInv, ReleaseInv, "Failed" \notin LagPhases, [Next]_vars
    PROVE  ReleaseInv'
<1>1. HeldMoves /\ AdmittedMoves
  BY HoldingMoves DEF PassInv, ReleaseInv
<1>2. RsvMoves /\ PassMoves
  <2>1. CASE UNCHANGED vars
    BY <2>1 DEF vars, RsvMoves, PassMoves
  <2> QED  BY <2>1, Moving
<1>3. LagSound'
  BY <1>2, ViewMoves, GangAssumption DEF ReleaseInv, LagSound, RsvMoves, RsvPhase
<1>4. AdmittedPending'
  BY <1>1 DEF AdmittedMoves, AdmittedPending
<1>5. CASE Ending
  <2>1. rsv \in {"Failed", "Released"}
    BY <1>5 DEF Ending, PassInv, PassSound, MayFollow
  <2>2. admitted = {} /\ held = {}
    BY <1>5 DEF ReleaseInv, Dead
  <2> QED  BY <1>1, <1>3, <1>4, <2>1, <2>2 DEF HeldMoves, AdmittedMoves, ReleaseInv, Dead
<1>6. CASE ~Ending /\ Ending'
  <2>1. rw' # rw /\ rw'.pc = "apply" /\ rw'.next = "Released" /\ rsv = "Failed"
    BY <1>2, <1>6 DEF Ending, RsvMoves, PassMoves, MayFollow
  <2>2. allGone /\ UNCHANGED children
    BY <1>2, <2>1 DEF PassMoves
  <2>3. held = {} /\ admitted = {}
    BY <2>1, <2>2, GoneHolds DEF PassInv, ReleaseInv, LagSound
  <2>4. UNCHANGED <<held, admitted>>
    BY <2>2 DEF held, children
  <2> QED  BY <1>3, <1>4, <2>3, <2>4 DEF ReleaseInv, Dead
<1> QED  BY <1>3, <1>4, <1>5, <1>6 DEF ReleaseInv, Dead

LEMMA ReleaseInit == Init => ReleaseInv
  BY DEF Init, ReleaseInv, LagSound, AdmittedPending, Dead, Ending

(* A gang that is about to be released, or is, holds nothing and binds        *)
(* nothing, if no lag begins while it is being torn down.                    *)
THEOREM GangReleaseInvariant ==
    ASSUME "ownLag" \notin Faults, "Failed" \notin LagPhases
    PROVE  Spec => [](PassInv /\ ReleaseInv)
<1>1. Init => PassInv /\ ReleaseInv
  BY PassInit, ReleaseInit
<1>2. PassInv /\ ReleaseInv /\ [Next]_vars => (PassInv /\ ReleaseInv)'
  BY PassStep, ReleaseStep
<1> QED  BY <1>1, <1>2, PTL DEF Spec

(* What the write of a phase makes of the outcome.                           *)
LEMMA OutcomeMoves ==
    ASSUME PassInv, ReleaseInv, RsvMoves
    PROVE  \/ UNCHANGED outcome
           \/ UNCHANGED held /\ (Outcome!Commit \/ Outcome!Fail \/ Outcome!Release)
<1>1. CASE UNCHANGED rsv
  BY <1>1 DEF outcome
<1>2. CASE rsv = "none" /\ rsv' = "Pending"
  BY <1>2 DEF outcome
<1>3. CASE rw.pc = "apply" /\ rsv' = rw.next /\ UNCHANGED children
  <2>1. MayFollow(rsv', rsv) /\ UNCHANGED held
    BY <1>3 DEF PassInv, PassSound, children, held
  <2>2. rsv' = "Released" => held = {}
    BY <1>3 DEF ReleaseInv, Dead, Ending
  <2> QED  BY <2>1, <2>2 DEF MayFollow, Assembling, outcome, Outcome!Commit, Outcome!Fail,
              Outcome!Release
<1> QED  BY <1>1, <1>2, <1>3 DEF RsvMoves

(* The gang keeps its promise: it is not demoted, it does not live again     *)
(* after a failure, and once released it holds nothing for good.             *)
THEOREM GangKeepsOutcome ==
    ASSUME "ownLag" \notin Faults, "Failed" \notin LagPhases
    PROVE  Spec => KeepsOutcome
<1>1. Init => Outcome!Init
  BY DEF Init, Outcome!Init, outcome, held
<1>2. PassInv /\ ReleaseInv /\ [Next]_vars => [Outcome!Next]_<<outcome, held>>
  <2> SUFFICES ASSUME PassInv, ReleaseInv, [Next]_vars
               PROVE  [Outcome!Next]_<<outcome, held>>
    OBVIOUS
  <2>1. HeldMoves
    BY HoldingMoves DEF PassInv, ReleaseInv
  <2>2. RsvMoves
    <3>1. CASE UNCHANGED vars
      BY <3>1 DEF vars, RsvMoves
    <3> QED  BY <3>1, Moving
  <2>3. CASE UNCHANGED held
    BY <2>2, <2>3, OutcomeMoves DEF Outcome!Next
  <2>4. CASE UNCHANGED rsv /\ \E i \in admitted : i \notin held /\ held' = held \cup {i}
    <3>1. PICK i \in admitted : i \notin held /\ held' = held \cup {i}
      BY <2>4
    <3>2. outcome # "released"
      BY <3>1 DEF ReleaseInv, Dead, Ending, outcome, PassInv, TypeOK, RsvPhase
    <3>3. UNCHANGED outcome /\ i \in Slot
      BY <2>4, <3>1 DEF outcome, PassInv, TypeOK
    <3> QED  BY <3>1, <3>2, <3>3 DEF Outcome!Next, Outcome!Take
  <2>5. CASE UNCHANGED rsv /\ \E i \in held : held' = held \ {i}
    <3>1. PICK i \in held : held' = held \ {i}
      BY <2>5
    <3>2. UNCHANGED outcome /\ i \in Slot
      BY <2>5, <3>1 DEF outcome, held
    <3> QED  BY <3>1, <3>2 DEF Outcome!Next, Outcome!GiveBack
  <2> QED  BY <2>1, <2>3, <2>4, <2>5 DEF HeldMoves
<1> QED  BY <1>1, <1>2, GangReleaseInvariant, PTL DEF Spec, KeepsOutcome, Outcome!Spec

=============================================================================
