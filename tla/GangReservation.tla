-------------------------- MODULE GangReservation --------------------------
(***************************************************************************)
(* The life of one gang in the controller process: the gang job controller *)
(* (internal/controller/vgpugangjob_reconciler.go) creates the child jobs  *)
(* and the reservation and mirrors its phase; the gang reservation         *)
(* controller (vgpugangreservation_reconciler.go) tallies the children and *)
(* drives the reservation to Committed, or to Failed, teardown and Released.*)
(* Each controller has one worker for an object. What it reads comes from  *)
(* the informers, which may lag; what it writes goes to the API server.    *)
(*                                                                         *)
(* A child is a chain job -> claim -> slice, one per slot of the gang. The *)
(* job, claim and slice controllers, the scheduler, the node agent and the *)
(* garbage collector are here only for what they do to such a chain: their *)
(* own modules model them. A child job has no podTemplate, so it never ends*)
(* by itself.                                                              *)
(***************************************************************************)
EXTENDS Naturals

CONSTANTS
    GangSize,    \* spec.gangSize; the slots are 0..GangSize-1
    Faults,      \* what may go wrong, see Fault
    MaxFaults,   \* bound: how often something else than a lag goes wrong
    MaxLags,     \* bound: how often an informer lags
    LagPhases    \* bound: the reservation's phases in which a lag may begin

(* apiError: a call of a controller fails.  lag: an informer's view of a    *)
(* child stays behind, at most until the end of the reservation worker's     *)
(* pass (passes are seconds apart).  ownLag: a write of the reservation is   *)
(* not seen yet when the next pass begins.                                   *)
(* delete: a user deletes a job, a claim or a slice.  allocFail: the agent   *)
(* cannot allocate.                                                          *)
Fault == {"apiError", "lag", "ownLag", "delete", "allocFail"}

RsvPhase == {"Pending", "Reserving", "Reserved", "Committed", "Failed", "Released"}

ASSUME GangAssumption ==
    /\ GangSize \in Nat \ {0}
    /\ Faults \subseteq Fault
    /\ {MaxFaults, MaxLags} \subseteq Nat
    /\ LagPhases \subseteq RsvPhase

Slot == 0..GangSize - 1

VARIABLES
    job,       \* the child jobs
    claim,     \* the child claims; "orphan": the job that owned it is gone
    slice,     \* the child slices, see SliceState
    admitted,  \* slices whose bind the scheduler has begun
    rsv,       \* the reservation's phase, "none" if there is no reservation
    clock,     \* firstReservingTime and the deadline: "off", "running", "over"
    gang,      \* the gang's phase
    rw,        \* the worker of the reservation controller
    gw,        \* the worker of the gang job controller
    view,      \* the lagging view of one child, or NoView
    ownView,   \* the lagging view of the reservation, or "current"
    faults,    \* how often something went wrong
    lags,      \* how often an informer lagged
    whole      \* history: every slot has held its allocation, and none was
               \* shown as failed, since the reservation worker's pass began

children == <<job, claim, slice, admitted>>
vars == <<job, claim, slice, admitted, rsv, clock, gang, rw, gw, view, ownView,
          faults, lags, whole>>

JobState == {"none", "live", "failed", "deleting"}
ClaimState == {"none", "live", "orphan", "deleting"}

(* A slice that is deleted while it holds an allocation is "releasing". *)
SliceState == {"none", "Pending", "Scheduled", "Ready", "Failed", "deleting", "releasing"}

GangPhase == {"Pending", "Reserving", "Running", "Failed", "Completed"}

NoView == [slot |-> GangSize]

(* The type of the objects, the workers and the views. *)
TypeOK ==
    /\ job \in [Slot -> JobState]
    /\ claim \in [Slot -> ClaimState]
    /\ slice \in [Slot -> SliceState]
    /\ admitted \in SUBSET Slot
    /\ rsv \in RsvPhase \cup {"none"}
    /\ clock \in {"off", "running", "over"}
    /\ gang \in GangPhase
    /\ rw \in [pc : {"idle", "confirm", "teardown", "apply"}, next : RsvPhase]
    /\ gw \in {"idle", "children", "mirror"}
    /\ view \in {NoView} \cup [slot : Slot, job : JobState, claim : ClaimState,
                               slice : SliceState]
    /\ ownView \in RsvPhase \cup {"none", "current"}
    /\ faults \in 0..MaxFaults
    /\ lags \in 0..MaxLags
    /\ whole \in BOOLEAN

Init ==
    /\ job = [i \in Slot |-> "none"]
    /\ claim = [i \in Slot |-> "none"]
    /\ slice = [i \in Slot |-> "none"]
    /\ admitted = {}
    /\ rsv = "none"
    /\ clock = "off"
    /\ gang = "Pending"
    /\ rw = [pc |-> "idle", next |-> "Pending"]
    /\ gw = "idle"
    /\ view = NoView
    /\ ownView = "current"
    /\ faults = 0
    /\ lags = 0
    /\ whole = FALSE

-----------------------------------------------------------------------------
(* What the controllers see and decide.                                    *)

(* What the informers show of a child and of the reservation. *)
SeenJob(i) == IF view.slot = i THEN view.job ELSE job[i]
SeenClaim(i) == IF view.slot = i THEN view.claim ELSE claim[i]
SeenSlice(i) == IF view.slot = i THEN view.slice ELSE slice[i]
SeenRsv == IF ownView = "current" THEN rsv ELSE ownView

(* Something goes wrong, within the budget. *)
GoesWrong(f) == f \in Faults /\ faults < MaxFaults /\ faults' = faults + 1
Lags(f) == f \in Faults /\ lags < MaxLags /\ lags' = lags + 1

(* How a slot counts in the tally: its claim is looked at before its slice. *)
Tally(i) ==
    CASE SeenClaim(i) = "none"                         -> "missing"
      [] SeenClaim(i) = "deleting"                     -> "tearingDown"
      [] OTHER ->
           CASE SeenSlice(i) \in {"none", "Pending"}          -> "pending"
             [] SeenSlice(i) \in {"deleting", "releasing"}    -> "tearingDown"
             [] SeenSlice(i) = "Scheduled"                    -> "reserved"
             [] SeenSlice(i) = "Ready"                        -> "committed"
             [] SeenSlice(i) = "Failed"                       -> "failed"

tallyChildSlices == [i \in Slot |-> Tally(i)]

Lost(t) == \E i \in Slot : t[i] \in {"missing", "pending", "tearingDown"}
AnyFailed(t) == \E i \in Slot : t[i] = "failed"
AllIn(t, S) == \A i \in Slot : t[i] \in S

(* Mutant: a committed gang falls back to Reserved. *)
AllReservedDemoting(cur, t) == AllIn(t, {"reserved", "committed"})

(* Every slot is reserved; a committed gang is not demoted for that. *)
AllReserved(cur, t) == AllIn(t, {"reserved", "committed"}) /\ cur # "Committed"

(* Mutant: the deadline is not looked at. *)
OtherwiseForever(cur, t) ==
    CASE cur \in {"Pending", "Reserving"} -> "Reserving"
      [] cur = "Reserved"                 -> "Failed"
      [] cur = "Committed"                -> IF Lost(t) THEN "Failed" ELSE cur

(* Some slot is not reserved: the deadline ends Reserving, Reserved has      *)
(* regressed, a committed gang has lost a child or holds degraded.           *)
Otherwise(cur, t) ==
    CASE cur = "Pending"                  -> "Reserving"
      [] cur = "Reserving"                -> IF clock = "over" THEN "Failed" ELSE cur
      [] cur = "Reserved"                 -> "Failed"
      [] cur = "Committed"                -> IF Lost(t) THEN "Failed" ELSE cur

decideNextPhase(cur, t) ==
    IF AnyFailed(t) THEN "Failed"
    ELSE IF AllIn(t, {"committed"}) THEN "Committed"
    ELSE IF AllReserved(cur, t) THEN "Reserved"
    ELSE Otherwise(cur, t)

(* What the API server itself says of a slot. *)
Holds(i) == claim[i] \in {"live", "orphan"} /\ slice[i] \in {"Scheduled", "Ready"}

(* Mutant: the gang shows the phase of its reservation. *)
derivePassingThrough(p) == p

(* The phase the gang shows for a phase of its reservation. *)
derivePhaseFromReservation(p) ==
    CASE p \in {"Pending", "Reserving", "Reserved"} -> "Reserving"
      [] p = "Committed"                            -> "Running"
      [] p = "Failed"                               -> "Failed"
      [] p = "Released"                             -> "Completed"

-----------------------------------------------------------------------------
(* The worker of the reservation controller.                               *)

Go(pc, next) == rw' = [pc |-> pc, next |-> next]

(* A pass ends when the informers have caught up. *)
Done == view = NoView /\ rw' = [pc |-> "idle", next |-> "Pending"]

(* Mutant: the loss of a child is not confirmed. *)
AfterDecisionUnconfirmed(cur, t, next) ==
    IF next = "Failed" THEN "teardown" ELSE "apply"

(* What comes after the decision: a loss that only the informers report is   *)
(* confirmed first, a failure tears down before it is written.               *)
AfterDecision(cur, t, next) ==
    IF next # "Failed" THEN "apply"
    ELSE IF cur = "Committed" /\ ~AnyFailed(t) THEN "confirm"
    ELSE "teardown"

(* Reconcile of a reservation that has not failed: tally and decide. *)
Reconcile ==
    /\ rw.pc = "idle"
    /\ SeenRsv \notin {"none", "Failed", "Released"}
    /\ LET t == tallyChildSlices
           next == decideNextPhase(SeenRsv, t)
       IN Go(AfterDecision(SeenRsv, t, next), next)
    /\ UNCHANGED <<children, rsv, clock, gang, gw, view, ownView, faults, lags>>

(* childLossConfirmedDirect: the API server is asked, without the informers; *)
(* a failed read or a child that holds keeps the gang committed.             *)
childLossConfirmedDirect ==
    /\ rw.pc = "confirm"
    /\ \/ (\E i \in Slot : ~Holds(i)) /\ Go("teardown", "Failed") /\ UNCHANGED faults
       \/ (\A i \in Slot : Holds(i)) /\ Done /\ UNCHANGED faults
       \/ GoesWrong("apiError") /\ Done
    /\ UNCHANGED <<children, rsv, clock, gang, gw, view, ownView, lags>>

allGone == \A i \in Slot : SeenClaim(i) = "none" /\ SeenSlice(i) = "none"

(* Mutant: a failed reservation is taken for terminal. *)
continueTeardownNever == FALSE /\ UNCHANGED vars

(* Reconcile of a failed reservation: Released once all children are gone, a *)
(* teardown otherwise; a read that fails is not an absence.                  *)
continueTeardown ==
    /\ rw.pc = "idle"
    /\ SeenRsv = "Failed"
    /\ \/ allGone /\ Go("apply", "Released") /\ UNCHANGED faults
       \/ ~allGone /\ Go("teardown", "Failed") /\ UNCHANGED faults
       \/ GoesWrong("apiError") /\ Go("teardown", "Failed")
    /\ UNCHANGED <<children, rsv, clock, gang, gw, view, ownView, lags>>

(* What deleting a slice or a claim makes of it. *)
DeletedSlice(s) ==
    CASE s \in {"Pending", "Failed"}  -> "deleting"
      [] s \in {"Scheduled", "Ready"} -> "releasing"
      [] OTHER                        -> s
DeletedClaim(c) == IF c = "none" THEN c ELSE "deleting"

(* tearDownChildren: each child job is deleted, in the foreground; where the *)
(* job is not seen, cleanupOrphans deletes the claim and the slice. The      *)
(* calls for some children may fail.                                         *)
tearDownChildren ==
    /\ rw.pc = "teardown"
    /\ \E failing \in SUBSET Slot :
          /\ IF failing = {} THEN UNCHANGED faults ELSE GoesWrong("apiError")
          /\ LET cleanupOrphans == {i \in Slot \ failing : SeenJob(i) = "none"}
                 Claims == {i \in cleanupOrphans : SeenClaim(i) \in {"live", "orphan"}}
                 Slices == {i \in cleanupOrphans : SeenSlice(i) \notin
                                                    {"none", "deleting", "releasing"}}
             IN /\ job' = [i \in Slot |->
                              IF /\ i \notin failing
                                 /\ SeenJob(i) \in {"live", "failed"} /\ job[i] # "none"
                                THEN "deleting" ELSE job[i]]
                /\ claim' = [i \in Slot |-> IF i \in Claims THEN DeletedClaim(claim[i])
                                            ELSE claim[i]]
                /\ slice' = [i \in Slot |-> IF i \in Slices THEN DeletedSlice(slice[i])
                                            ELSE slice[i]]
                /\ admitted' = admitted \ Slices
    /\ Go("apply", "Failed")
    /\ UNCHANGED <<rsv, clock, gang, gw, view, ownView, lags>>

(* applyPhase: a write made on a lagging copy conflicts, and the phase goes  *)
(* onto whatever copy is current when the retry finds it; the retries may    *)
(* also run out, or the call fail. The write may take time to be seen.       *)
applyPhase ==
    /\ rw.pc = "apply"
    /\ Done
    /\ \/ /\ ownView = "current"
          /\ rsv' = rw.next
          /\ clock' = IF rw.next = "Reserving" /\ clock = "off" THEN "running" ELSE clock
          /\ \/ UNCHANGED <<ownView, lags>>
             \/ rsv # rw.next /\ ownView' = rsv /\ Lags("ownLag")
          /\ UNCHANGED faults
       \/ ownView # "current" /\ UNCHANGED <<rsv, clock, ownView, faults, lags>>
       \/ GoesWrong("apiError") /\ UNCHANGED <<rsv, clock, ownView, lags>>
    /\ UNCHANGED <<children, gang, gw, view>>

ReservationWorker ==
    \/ Reconcile \/ childLossConfirmedDirect \/ continueTeardown
    \/ tearDownChildren \/ applyPhase

-----------------------------------------------------------------------------
(* The worker of the gang job controller.                                  *)

(* Reconcile: a gang whose reservation has failed or is released is Failed   *)
(* and gets no more children.                                                *)
GangReconcile ==
    /\ gw = "idle"
    /\ \/ SeenRsv \in {"Failed", "Released"} /\ gang' = "Failed" /\ gw' = "idle"
       \/ SeenRsv \notin {"Failed", "Released"} /\ gw' = "children"
                                                 /\ UNCHANGED gang
    /\ UNCHANGED <<children, rsv, clock, rw, view, ownView, faults, lags>>

(* ensureChildren: the job of every slot is created that is not seen; a call *)
(* that fails ends the pass at its slot.                                     *)
ensureChildren ==
    /\ gw = "children"
    /\ \E end \in 0..GangSize :
          /\ job' = [i \in Slot |-> IF i < end /\ SeenJob(i) = "none" /\ job[i] = "none"
                                     THEN "live" ELSE job[i]]
          /\ \/ end = GangSize /\ gw' = "mirror" /\ UNCHANGED faults
             \/ end < GangSize /\ gw' = "idle" /\ GoesWrong("apiError")
    /\ UNCHANGED <<claim, slice, admitted, rsv, clock, gang, rw, view, ownView, lags>>

(* createReservation, or the phase of the one that is seen is mirrored. (The *)
(* phase Materializing is never written: ensureChildren counts every slot or *)
(* fails.)                                                                   *)
createOrMirror ==
    /\ gw = "mirror"
    /\ gw' = "idle"
    /\ \/ /\ SeenRsv = "none"
          /\ rsv' = IF rsv = "none" THEN "Pending" ELSE rsv
          /\ gang' = IF rsv = "none" THEN "Reserving" ELSE gang
          /\ UNCHANGED faults
       \/ /\ SeenRsv # "none"
          /\ gang' = derivePhaseFromReservation(SeenRsv)
          /\ UNCHANGED <<rsv, faults>>
       \/ GoesWrong("apiError") /\ UNCHANGED <<rsv, gang>>
    /\ UNCHANGED <<children, clock, rw, view, ownView, lags>>

GangWorker == GangReconcile \/ ensureChildren \/ createOrMirror

-----------------------------------------------------------------------------
(* The chain of one child: the job, claim and slice controllers, the garbage*)
(* collector, the scheduler and the node agent.                            *)

Workers == <<rsv, clock, gang, rw, gw, view, ownView, faults, lags>>

CreateClaim(i) ==
    /\ job[i] = "live" /\ claim[i] = "none"
    /\ claim' = [claim EXCEPT ![i] = "live"]
    /\ UNCHANGED <<job, slice, admitted, Workers>>

CreateSlice(i) ==
    /\ claim[i] \in {"live", "orphan"} /\ slice[i] = "none" /\ job[i] # "failed"
    /\ slice' = [slice EXCEPT ![i] = "Pending"]
    /\ UNCHANGED <<job, claim, admitted, Workers>>

(* A failed slice fails its claim and that its job, which then gives its     *)
(* grant back (releaseTerminalGrant).                                        *)
JobFails(i) ==
    /\ job[i] = "live" /\ claim[i] = "live" /\ slice[i] = "Failed"
    /\ job' = [job EXCEPT ![i] = "failed"]
    /\ UNCHANGED <<claim, slice, admitted, Workers>>

releaseTerminalGrant(i) ==
    /\ job[i] = "failed" /\ claim[i] = "live"
    /\ claim' = [claim EXCEPT ![i] = "deleting"]
    /\ UNCHANGED <<job, slice, admitted, Workers>>

(* Deletion runs down the chain, and the finalizers hold it up from below.   *)
DeleteClaim(i) ==
    /\ claim[i] = "orphan" \/ (claim[i] = "live" /\ job[i] = "deleting")
    /\ claim' = [claim EXCEPT ![i] = "deleting"]
    /\ UNCHANGED <<job, slice, admitted, Workers>>

handleClaimDelete(i) ==
    /\ claim[i] = "deleting"
    /\ \/ /\ slice[i] = "none"
          /\ claim' = [claim EXCEPT ![i] = "none"]
          /\ UNCHANGED <<slice, admitted>>
       \/ /\ slice[i] \notin {"none", "deleting", "releasing"}
          /\ slice' = [slice EXCEPT ![i] = DeletedSlice(@)]
          /\ admitted' = admitted \ {i}
          /\ UNCHANGED claim
    /\ UNCHANGED <<job, Workers>>

SliceGone(i) ==
    /\ slice[i] \in {"deleting", "releasing"}
    /\ slice' = [slice EXCEPT ![i] = "none"]
    /\ UNCHANGED <<job, claim, admitted, Workers>>

JobGone(i) ==
    /\ job[i] = "deleting" /\ claim[i] \in {"none", "orphan"}
    /\ job' = [job EXCEPT ![i] = "none"]
    /\ UNCHANGED <<claim, slice, admitted, Workers>>

(* The scheduler looks at the reservation first and binds some time later;   *)
(* the slice of a dead gang is marked Failed. (Which slices of which gang may *)
(* bind is the matter of GangGate.)                                          *)
Admit(i) ==
    /\ slice[i] = "Pending" /\ i \notin admitted
    /\ rsv \notin {"Failed", "Released"}
    /\ admitted' = admitted \cup {i}
    /\ UNCHANGED <<job, claim, slice, Workers>>

Bind(i) ==
    /\ i \in admitted
    /\ slice' = [slice EXCEPT ![i] = "Scheduled"]
    /\ admitted' = admitted \ {i}
    /\ UNCHANGED <<job, claim, Workers>>

FailOrphan(i) ==
    /\ slice[i] = "Pending" /\ i \notin admitted
    /\ rsv \in {"Failed", "Released"}
    /\ slice' = [slice EXCEPT ![i] = "Failed"]
    /\ UNCHANGED <<job, claim, admitted, Workers>>

Allocate(i) ==
    /\ slice[i] = "Scheduled"
    /\ \/ slice' = [slice EXCEPT ![i] = "Ready"] /\ UNCHANGED faults
       \/ slice' = [slice EXCEPT ![i] = "Failed"] /\ GoesWrong("allocFail")
    /\ UNCHANGED <<job, claim, admitted, rsv, clock, gang, rw, gw, view, ownView, lags>>

ChainUp(i) == \/ CreateClaim(i) \/ CreateSlice(i) \/ JobFails(i) \/ releaseTerminalGrant(i)
              \/ Admit(i) \/ Bind(i) \/ FailOrphan(i) \/ Allocate(i)
ChainDown(i) == DeleteClaim(i) \/ handleClaimDelete(i) \/ SliceGone(i) \/ JobGone(i)
Chain(i) == ChainUp(i) \/ ChainDown(i)

-----------------------------------------------------------------------------
(* Users, informers and time.                                              *)

(* A user deletes a child's job (in the background), claim or slice. *)
UserDeletes(i) ==
    /\ GoesWrong("delete")
    /\ \/ /\ job[i] \in {"live", "failed"}
          /\ job' = [job EXCEPT ![i] = "none"]
          /\ claim' = [claim EXCEPT ![i] = IF @ = "live" THEN "orphan" ELSE @]
          /\ UNCHANGED <<slice, admitted>>
       \/ /\ claim[i] \in {"live", "orphan"}
          /\ claim' = [claim EXCEPT ![i] = "deleting"]
          /\ UNCHANGED <<job, slice, admitted>>
       \/ /\ slice[i] \notin {"none", "deleting", "releasing"}
          /\ slice' = [slice EXCEPT ![i] = DeletedSlice(@)]
          /\ admitted' = admitted \ {i}
          /\ UNCHANGED <<job, claim>>
    /\ UNCHANGED <<rsv, clock, gang, rw, gw, view, ownView, lags>>

(* The informers stop following one child, and catch up. *)
FallBehind(i) ==
    /\ view = NoView
    /\ rsv \in LagPhases
    /\ Lags("lag")
    /\ view' = [slot |-> i, job |-> job[i], claim |-> claim[i], slice |-> slice[i]]
    /\ UNCHANGED <<children, rsv, clock, gang, rw, gw, ownView, faults>>

CatchUp ==
    /\ \/ view # NoView /\ view' = NoView /\ UNCHANGED ownView
       \/ ownView # "current" /\ ownView' = "current" /\ UNCHANGED view
    /\ UNCHANGED <<children, rsv, clock, gang, rw, gw, faults, lags>>

DeadlinePasses ==
    /\ clock = "running"
    /\ clock' = "over"
    /\ UNCHANGED <<children, rsv, gang, rw, gw, view, ownView, faults, lags>>

(* The history is kept by every step. *)
Remember == whole' = (/\ \A i \in Slot : Holds(i)' /\ SeenSlice(i)' # "Failed"
                      /\ rw.pc = "idle" \/ whole)

Step ==
    \/ ReservationWorker \/ GangWorker
    \/ \E i \in Slot : Chain(i) \/ UserDeletes(i) \/ FallBehind(i)
    \/ CatchUp \/ DeadlinePasses

Next == Step /\ Remember

Spec == Init /\ [][Next]_vars

(* The controllers' workers, the machinery below them and time go on: a      *)
(* chain, a lag or the deadline takes finitely many steps between faults, so *)
(* one condition for all of a kind is enough.                                *)
FairSpec ==
    /\ Spec
    /\ WF_vars(ReservationWorker /\ Remember)
    /\ WF_vars(GangWorker /\ Remember)
    /\ WF_vars((\E i \in Slot : Chain(i)) /\ Remember)
    /\ WF_vars((CatchUp \/ DeadlinePasses) /\ Remember)

-----------------------------------------------------------------------------
(* Properties.                                                             *)

(* The gang keeps the promise of GangOutcome: no demotion, no second life    *)
(* after a failure, and a released gang holds nothing and never will again,  *)
(* even when a slow gang reconcile recreates a child behind the teardown.    *)
outcome == CASE rsv \in {"none", "Pending", "Reserving", "Reserved"} -> "assembling"
             [] rsv = "Committed" -> "committed"
             [] rsv = "Failed"    -> "failed"
             [] rsv = "Released"  -> "released"
held == {i \in Slot : slice[i] \in {"Scheduled", "Ready", "releasing"}}
Outcome == INSTANCE GangOutcome
KeepsOutcome == Outcome!Spec

(* "an absence it alone reports must never trigger teardown": a committed    *)
(* gang is not torn down in a pass during which every child held its         *)
(* allocation and none was shown to have failed ("a positive observation"),  *)
(* whatever else the informers show.                                         *)
NoFalseTeardown ==
    [][rsv = "Committed" /\ rw.pc = "teardown" /\ rw'.pc = "apply" => ~whole]_vars

(* A gang does not assemble for ever: the deadline, a regression or success  *)
(* ends it ("otherwise they sit forever").                                   *)
Decides ==
    rsv \in {"Pending", "Reserving", "Reserved"} ~> rsv \in {"Committed", "Failed", "Released"}

(* Bug 2: the teardown of a failed gang is retried until it is complete; the *)
(* gang then shows Failed, and in the end no child holds anything, not even   *)
(* one that was recreated meanwhile.                                         *)
FailureCompletes ==
    rsv = "Failed" ~> [](/\ rsv = "Released" /\ gang = "Failed"
                         /\ \A i \in Slot : claim[i] = "none" /\ slice[i] = "none")

=============================================================================
