---------------------------- MODULE JobLifecycle ----------------------------
(***************************************************************************)
(* One job in the controller process: the job controller                   *)
(* (internal/controller/vgpujob_reconciler.go) creates its claim and, once *)
(* the slice is allocated, its pod; the claim controller                   *)
(* (vgpuclaim_reconciler.go) creates the slice and shows its phase; the    *)
(* slice controller (vgpuslice_reconciler.go) evicts the pod of a preempted*)
(* slice. Each is one worker for an object, and each step of a worker is one*)
(* call: what was read is kept in a copy, and may be old when it is used.  *)
(*                                                                         *)
(* The scheduler, the node agent (with its evictor), the kubelet, the      *)
(* garbage collector and users are here for what they do to the four       *)
(* objects.                                                                *)
(***************************************************************************)
EXTENDS Naturals

CONSTANTS
    Faults,      \* what may go wrong, see Fault
    MaxFaults    \* bound: how often

(* apiError: a call of a controller fails.  stale: the job controller does not*)
(* see yet what it wrote to the job last (it reads through a cache).          *)
(* delete: a user deletes the job, the claim, the slice or the pod.           *)
(* preempt: the scheduler takes the slice.  rollBack: it takes that back,     *)
(* because it could not take another one.  manual: the slice is put into      *)
(* Preempting without the condition.  evict: the node agent evicts the pod.   *)
(* allocFail: the agent cannot allocate.                                      *)
Fault == {"apiError", "stale", "delete", "preempt", "rollBack", "manual", "evict", "allocFail"}

ASSUME JobAssumption == Faults \subseteq Fault /\ MaxFaults \in Nat

VARIABLES
    owning,    \* the job has a podTemplate: it owns a pod
    job,       \* the job: its phase and conditions
    claim,     \* the claim; "fin" is its finalizer
    slice,     \* the slice; "alloc" is its allocation, "anchor" the condition
               \* Preempting, whose age is the grace period
    pod,       \* the workload pod
    jw,        \* the worker of the job controller, with what it keeps of its
               \* copies: the job's phase, whether the job's conditions end it,
               \* whether a slice is bound, and the phase to be written
    cw,        \* the worker of the claim controller, with the slice's phase
    sw,        \* the worker of the slice controller, and whether its copy of
               \* the slice is still what the slice is
    evictor,   \* the node agent's evictor: what it still has to do to the job
    faults,    \* how often something went wrong
    earned     \* history: the ends the workload has truly come to

objects == <<job, claim, slice, pod>>
vars == <<owning, job, claim, slice, pod, jw, cw, sw, evictor, faults, earned>>

JobPhase == {"Pending", "ClaimCreated", "Scheduled", "PodCreating", "Running",
             "Succeeded", "Failed"}
Terminal(p) == p \in {"Succeeded", "Failed"}
Job == [phase : JobPhase, preempted : BOOLEAN, evicted : BOOLEAN, alive : BOOLEAN]

(* The phase of a claim is "New" until a slice is bound to it. *)
ClaimPhase == {"New", "Pending", "Scheduled", "Bound", "Failed", "Deleting"}
NoClaim == [st |-> "none", fin |-> FALSE, phase |-> "New"]

SlicePhase == {"none", "Pending", "Scheduled", "Ready", "Failed", "Preempting",
               "Releasing", "Released"}
NoSlice == [phase |-> "none", alloc |-> FALSE, anchor |-> FALSE, deleting |-> FALSE]
Slice == [phase : SlicePhase, alloc : BOOLEAN, anchor : BOOLEAN, deleting : BOOLEAN]

(* A pod that is deleted is "terminating"; its containers' end may show as    *)
(* "failing" before it is gone.                                              *)
Live == {"pending", "running"}
Ended == {"succeeded", "failed"}
Dying == {"terminating", "failing"}

(* The type of the objects and of the workers. *)
TypeOK ==
    /\ owning \in BOOLEAN
    /\ job \in Job
    /\ claim \in [st : {"none", "live", "deleting"}, fin : BOOLEAN, phase : ClaimPhase]
    /\ slice \in Slice
    /\ pod \in {"none"} \cup Live \cup Ended \cup Dying
    /\ jw \in [pc : {"idle", "claim", "pod", "create", "write", "release"},
               phase : JobPhase, over : BOOLEAN, bound : BOOLEAN, want : JobPhase]
    /\ cw \in [pc : {"idle", "delete", "finalize", "sync", "owner", "create"},
               phase : SlicePhase]
    /\ sw \in [pc : {"idle", "stamp", "evict", "release", "patch"}, fresh : BOOLEAN]
    /\ evictor \in {"idle", "stamp", "withdraw"}
    /\ faults \in 0..MaxFaults
    /\ earned \subseteq {"Succeeded", "Failed"}

NewJob == [phase |-> "Pending", preempted |-> FALSE, evicted |-> FALSE, alive |-> TRUE]
NoJob == [NewJob EXCEPT !.alive = FALSE]
JobIdle == [pc |-> "idle", phase |-> "Pending", over |-> FALSE, bound |-> FALSE,
            want |-> "Pending"]
ClaimIdle == [pc |-> "idle", phase |-> "none"]
SliceIdle == [pc |-> "idle", fresh |-> TRUE]

Init ==
    /\ owning \in BOOLEAN
    /\ job = NewJob
    /\ claim = NoClaim
    /\ slice = NoSlice
    /\ pod = "none"
    /\ jw = JobIdle
    /\ cw = ClaimIdle
    /\ sw = SliceIdle
    /\ evictor = "idle"
    /\ faults = 0
    /\ earned = {}

GoesWrong(f) == f \in Faults /\ faults < MaxFaults /\ faults' = faults + 1

(* The workload comes to an end of that kind. *)
Earns(E) == earned' = IF job.alive THEN earned \cup E ELSE earned

(* Another one changes the slice: the slice controller's copy is outdated. *)
Outdates ==
    sw' = IF slice' = slice \/ sw.pc = "idle" THEN sw ELSE [sw EXCEPT !.fresh = FALSE]

(* What a deletion makes of an object. *)
DeletedClaim(c) == IF c.fin THEN [c EXCEPT !.st = "deleting"] ELSE NoClaim
DeletedSlice(s) == IF s.phase = "none" THEN s ELSE [s EXCEPT !.deleting = TRUE]
DeletedPod(p) ==
    CASE p \in Live  -> "terminating"
      [] p \in Ended -> "none"
      [] OTHER       -> p

-----------------------------------------------------------------------------
(* The job controller.                                                     *)

JobFrame == UNCHANGED <<owning, slice, cw, sw, evictor, earned>>

(* A call fails: the pass ends with an error and is retried. *)
JobErr == GoesWrong("apiError") /\ jw' = JobIdle

(* The status will be written with phase p. *)
WillWrite(p) == jw' = [JobIdle EXCEPT !.pc = "write", !.want = p]

jobPhaseRank(p) ==
    CASE p = "Pending"      -> 0
      [] p = "ClaimCreated" -> 1
      [] p = "Scheduled"    -> 2
      [] p = "PodCreating"  -> 3
      [] p = "Running"      -> 4
      [] Terminal(p)        -> 5

(* Something on the job ends it. *)
Over == job.preempted \/ (owning /\ job.evicted)

(* Mutant: a terminal job is reconciled like any other. *)
ReconcileUnguarded ==
    /\ jw.pc = "idle" /\ job.alive
    /\ jw' = [JobIdle EXCEPT !.pc = "claim", !.phase = job.phase, !.over = Over]
    /\ UNCHANGED <<objects, faults>> /\ JobFrame

(* A pass goes on with that phase; a terminal job only gives its grant back. *)
GoesOn(phase, over) ==
    jw' = IF Terminal(phase) THEN [JobIdle EXCEPT !.pc = "release"]
          ELSE [JobIdle EXCEPT !.pc = "claim", !.phase = phase, !.over = over]

(* Reconcile reads the job, as it is or as it was before its last write. *)
Reconcile ==
    /\ jw.pc = "idle" /\ job.alive
    /\ \/ GoesOn(job.phase, Over) /\ UNCHANGED faults
       \/ /\ GoesWrong("stale")
          /\ \E phase \in JobPhase, over \in {FALSE, Over} :
                /\ jobPhaseRank(phase) < jobPhaseRank(job.phase)
                /\ GoesOn(phase, over)
    /\ UNCHANGED objects /\ JobFrame

(* Mutant: a terminal job keeps its grant. *)
releaseTerminalGrantNever ==
    /\ jw.pc = "release"
    /\ jw' = JobIdle
    /\ UNCHANGED <<objects, faults>> /\ JobFrame

releaseTerminalGrant ==
    /\ jw.pc = "release"
    /\ \/ /\ claim' = IF claim.st = "live" THEN DeletedClaim(claim) ELSE claim
          /\ jw' = JobIdle
          /\ UNCHANGED faults
       \/ JobErr /\ UNCHANGED claim
    /\ UNCHANGED <<job, slice, pod>> /\ JobFrame

(* Mutant: the claim's phase is taken over as it is. *)
derivePhasePassingThrough(c, current) ==
    IF c \in {"New", "Pending"} THEN "ClaimCreated" ELSE c

(* The phase a claim in phase c stands for, never behind the current one. *)
derivePhaseFromClaim(c, current) ==
    LET desired == CASE c \in {"Bound", "Scheduled"} -> "Scheduled"
                     [] c \in {"New", "Pending"}     -> "ClaimCreated"
                     [] c = "Failed"                 -> "Failed"
                     [] c = "Deleting"               -> current
    IN IF jobPhaseRank(desired) < jobPhaseRank(current) THEN current ELSE desired

(* The claim is created if it is not there; otherwise its phase is taken over,*)
(* and a job that owns a pod looks at the pod.                               *)
ensureClaim ==
    /\ jw.pc = "claim"
    /\ \/ /\ claim.st = "none"
          /\ claim' = [NoClaim EXCEPT !.st = "live"]
          /\ WillWrite("ClaimCreated")
          /\ UNCHANGED faults
       \/ /\ claim.st # "none"
          /\ LET desired == derivePhaseFromClaim(claim.phase, jw.phase)
             IN IF owning
                THEN jw' = [jw EXCEPT !.pc = "pod", !.want = desired,
                                      !.bound = claim.phase # "New"]
                ELSE WillWrite(IF jw.over THEN "Failed" ELSE desired)
          /\ UNCHANGED <<claim, faults>>
       \/ JobErr /\ UNCHANGED claim
    /\ UNCHANGED <<job, slice, pod>> /\ JobFrame

(* Mutant: the phase of a pod that is being deleted is taken over. *)
derivePhaseFromPodDying(p) ==
    CASE p \in {"running", "terminating"} -> "Running"
      [] p = "succeeded"                  -> "Succeeded"
      [] p \in {"failed", "failing"}      -> "Failed"
      [] OTHER                            -> "PodCreating"

(* What the pod says of the job; nothing while it is being deleted. *)
derivePhaseFromPod(p) ==
    CASE p = "running"   -> "Running"
      [] p = "succeeded" -> "Succeeded"
      [] p = "failed"    -> "Failed"
      [] p \in Dying     -> "none"
      [] OTHER           -> "PodCreating"

(* The slice of the claim has its allocation. *)
resolveAllocatedSlice == jw.bound /\ slice.alloc

(* The pod will be created if the slice has its allocation. *)
WillCreateOr(p) ==
    IF resolveAllocatedSlice THEN jw' = [JobIdle EXCEPT !.pc = "create"] ELSE WillWrite(p)

(* Mutant: the conditions are honoured before the pod is looked at. *)
reconcileWorkloadPodCondsFirst ==
    /\ jw.pc = "pod"
    /\ IF jw.over THEN WillWrite("Failed")
       ELSE IF pod \in Dying THEN jw' = JobIdle
       ELSE IF pod # "none" THEN WillWrite(derivePhaseFromPod(pod))
       ELSE WillCreateOr(jw.want)
    /\ UNCHANGED <<objects, faults>> /\ JobFrame

(* Mutant: a job whose pod was evicted or preempted is left as it is. *)
reconcileWorkloadPodLeavingIt ==
    /\ jw.pc = "pod"
    /\ IF pod \in Dying \/ (pod = "none" /\ jw.over) THEN jw' = JobIdle
       ELSE IF pod # "none" THEN WillWrite(derivePhaseFromPod(pod))
       ELSE WillCreateOr(jw.want)
    /\ UNCHANGED <<objects, faults>> /\ JobFrame

(* The pod is looked at, and the slice. A pod that is there is mirrored; a job*)
(* whose pod was evicted or preempted has failed; otherwise the pod is       *)
(* created when the slice has its allocation.                                *)
reconcileWorkloadPod ==
    /\ jw.pc = "pod"
    /\ \/ /\ pod # "none"
          /\ IF derivePhaseFromPod(pod) = "none"
             THEN jw' = JobIdle ELSE WillWrite(derivePhaseFromPod(pod))
          /\ UNCHANGED faults
       \/ /\ pod = "none"
          /\ IF jw.over THEN WillWrite("Failed") ELSE WillCreateOr(jw.want)
          /\ UNCHANGED faults
       \/ JobErr
    /\ UNCHANGED objects /\ JobFrame

(* The webhook (webhook/mutating_pod.go) admits the pod of a slice that has   *)
(* an allocation.                                                            *)
MutatePod == slice.alloc

(* The pod is created, if it is admitted; no other pod has its name. *)
createPod ==
    /\ jw.pc = "create"
    /\ \/ MutatePod /\ pod' = "pending" /\ WillWrite("PodCreating") /\ UNCHANGED faults
       \/ ~MutatePod /\ jw' = JobIdle /\ UNCHANGED <<pod, faults>>
       \/ JobErr /\ UNCHANGED pod
    /\ UNCHANGED <<job, claim, slice>> /\ JobFrame

(* updatePhase and jobStatusUpdate put the phase onto the current job. *)
updatePhase ==
    /\ jw.pc = "write"
    /\ \/ /\ job' = IF job.alive THEN [job EXCEPT !.phase = jw.want] ELSE job
          /\ jw' = JobIdle
          /\ UNCHANGED faults
       \/ JobErr /\ UNCHANGED job
    /\ UNCHANGED <<claim, slice, pod>> /\ JobFrame

JobWorker == \/ Reconcile \/ releaseTerminalGrant \/ ensureClaim
             \/ reconcileWorkloadPod \/ createPod \/ updatePhase

-----------------------------------------------------------------------------
(* The claim controller.                                                   *)

ClaimFrame == UNCHANGED <<owning, job, pod, jw, evictor, earned>> /\ Outdates
ClaimErr == GoesWrong("apiError") /\ cw' = ClaimIdle

(* reconcileClaim reads the claim and then the slice. *)
reconcileClaim ==
    /\ cw.pc = "idle"
    /\ claim.st # "none"
    /\ cw' = [pc |-> CASE claim.st = "deleting"   -> "delete"
                       [] ~claim.fin              -> "finalize"
                       [] slice.phase # "none"    -> "sync"
                       [] OTHER                   -> "owner",
              phase |-> IF claim.st = "live" /\ claim.fin THEN slice.phase ELSE "none"]
    /\ UNCHANGED <<claim, slice, faults>> /\ ClaimFrame

(* The finalizer goes on before there is a slice. *)
ensureClaimFinalizer ==
    /\ cw.pc = "finalize"
    /\ \/ /\ claim' = IF claim.st = "live" THEN [claim EXCEPT !.fin = TRUE] ELSE claim
          /\ cw' = ClaimIdle
          /\ UNCHANGED faults
       \/ ClaimErr /\ UNCHANGED claim
    /\ UNCHANGED slice /\ ClaimFrame

(* ensureSliceExists creates no slice for a job that is over. (Succeeded is   *)
(* not among the phases it knows.)                                           *)
OwnerTerminal == job.phase = "Failed" \/ job.preempted

checkOwner ==
    /\ cw.pc = "owner"
    /\ \/ /\ cw' = IF OwnerTerminal THEN ClaimIdle ELSE [cw EXCEPT !.pc = "create"]
          /\ UNCHANGED faults
       \/ ClaimErr
    /\ UNCHANGED <<claim, slice>> /\ ClaimFrame

ensureSliceExists ==
    /\ cw.pc = "create"
    /\ \/ /\ slice' = [NoSlice EXCEPT !.phase = "Pending"]
          /\ cw' = ClaimIdle
          /\ UNCHANGED faults
       \/ ClaimErr /\ UNCHANGED slice
    /\ UNCHANGED claim /\ ClaimFrame

(* The claim shows what the slice was when it was read. *)
ClaimPhaseOf(p) ==
    CASE p = "Ready"                    -> "Bound"
      [] p = "Failed"                   -> "Failed"
      [] p \in {"Releasing", "Released"} -> "Deleting"
      [] p = "Scheduled"                -> "Scheduled"
      [] OTHER                          -> "Pending"

syncClaimStatusFromSlice ==
    /\ cw.pc = "sync"
    /\ \/ /\ claim' = IF claim.st = "none" THEN claim
                      ELSE [claim EXCEPT !.phase = ClaimPhaseOf(cw.phase)]
          /\ cw' = ClaimIdle
          /\ UNCHANGED faults
       \/ ClaimErr /\ UNCHANGED claim
    /\ UNCHANGED slice /\ ClaimFrame

(* A claim that is being deleted deletes its slice, and goes after it. *)
handleClaimDelete ==
    /\ cw.pc = "delete"
    /\ \/ /\ IF slice.phase = "none"
             THEN claim' = NoClaim /\ UNCHANGED slice
             ELSE slice' = DeletedSlice(slice) /\ UNCHANGED claim
          /\ cw' = ClaimIdle
          /\ UNCHANGED faults
       \/ ClaimErr /\ UNCHANGED <<claim, slice>>
    /\ ClaimFrame

ClaimWorker == \/ reconcileClaim \/ ensureClaimFinalizer \/ checkOwner
               \/ ensureSliceExists \/ syncClaimStatusFromSlice \/ handleClaimDelete

-----------------------------------------------------------------------------
(* The slice controller: preemption, and what is left of a deletion.       *)

SliceFrame == UNCHANGED <<owning, claim, jw, cw, evictor>>
SliceErr == GoesWrong("apiError") /\ sw' = SliceIdle

(* The worker has read the slice, and goes on with what it read. *)
Takes(pc) == sw' = [pc |-> pc, fresh |-> TRUE]

(* Mutant: a lookup that fails is taken for a slice without a job. *)
resolveOwnerJobLoosely ==
    /\ sw.pc = "idle" /\ slice.phase = "Preempting" /\ slice.anchor
    /\ \/ Takes(IF claim.st # "none" /\ job.alive THEN "stamp" ELSE "release")
          /\ UNCHANGED faults
       \/ GoesWrong("apiError") /\ Takes("release")
    /\ UNCHANGED <<objects, earned>> /\ SliceFrame

(* The grace period of a preempted slice is over, and the job it belongs to   *)
(* is looked up. (A pass before that only sleeps.)                           *)
resolveOwnerJob ==
    /\ sw.pc = "idle" /\ slice.phase = "Preempting" /\ slice.anchor
    /\ \/ Takes(IF claim.st # "none" /\ job.alive THEN "stamp" ELSE "release")
          /\ UNCHANGED faults
       \/ SliceErr
    /\ UNCHANGED <<objects, earned>> /\ SliceFrame

(* A preempted slice without the condition gets it; the update is refused if  *)
(* the slice has changed.                                                    *)
anchorGrace ==
    /\ sw.pc = "idle" /\ slice.phase = "Preempting" /\ ~slice.anchor
    /\ \/ slice' = [slice EXCEPT !.anchor = TRUE] /\ UNCHANGED <<sw, faults>>
       \/ SliceErr /\ UNCHANGED slice
    /\ UNCHANGED <<job, pod, earned>> /\ SliceFrame

(* evictPreemptedWorkload: first the condition on the job ... *)
stampPreempted ==
    /\ sw.pc = "stamp"
    /\ \/ /\ job' = [job EXCEPT !.preempted = @ \/ job.alive]
          /\ Earns({"Failed"})
          /\ sw' = [sw EXCEPT !.pc = "evict"]
          /\ UNCHANGED faults
       \/ SliceErr /\ UNCHANGED <<job, earned>>
    /\ UNCHANGED <<slice, pod>> /\ SliceFrame

(* ... then its pod is deleted. *)
evictPreemptedWorkload ==
    /\ sw.pc = "evict"
    /\ \/ pod' = DeletedPod(pod) /\ sw' = [sw EXCEPT !.pc = "release"] /\ UNCHANGED faults
       \/ SliceErr /\ UNCHANGED pod
    /\ UNCHANGED <<job, slice, earned>> /\ SliceFrame

(* The slice is handed to the node agent; if it has changed the update is     *)
(* refused.                                                                  *)
releasePreempted ==
    /\ sw.pc = "release"
    /\ \/ /\ slice' = IF sw.fresh THEN [slice EXCEPT !.phase = "Releasing"] ELSE slice
          /\ sw' = SliceIdle
          /\ UNCHANGED faults
       \/ SliceErr /\ UNCHANGED slice
    /\ UNCHANGED <<job, pod, earned>> /\ SliceFrame

(* handleDelete: a slice that was never allocated goes, and so does one that  *)
(* is released; another one is to be released. (Nobody but this worker changes*)
(* the first two kinds. More of the steps is the matter of SliceLifecycle.)   *)
handleDelete ==
    /\ sw.pc = "idle" /\ slice.deleting /\ slice.phase # "Preempting"
    /\ \/ /\ \/ ~slice.alloc /\ slice.phase \in {"Pending", "Scheduled", "Releasing"}
             \/ slice.phase = "Released"
          /\ slice' = NoSlice
          /\ UNCHANGED sw
       \/ /\ slice.phase \in {"Ready", "Failed"}
          /\ Takes("patch")
          /\ UNCHANGED slice
    /\ UNCHANGED <<job, pod, faults, earned>> /\ SliceFrame

(* PatchSliceStatus writes the phase over what the slice has become: the patch*)
(* names no version.                                                         *)
PatchSliceStatus ==
    /\ sw.pc = "patch"
    /\ \/ slice' = [slice EXCEPT !.phase = "Releasing"] /\ sw' = SliceIdle /\ UNCHANGED faults
       \/ SliceErr /\ UNCHANGED slice
    /\ UNCHANGED <<job, pod, earned>> /\ SliceFrame

SliceWorker == \/ resolveOwnerJob \/ anchorGrace \/ stampPreempted
               \/ evictPreemptedWorkload \/ releasePreempted \/ handleDelete
               \/ PatchSliceStatus

-----------------------------------------------------------------------------
(* The scheduler, the node agent, the kubelet, the garbage collector, users.*)

Workers == UNCHANGED <<owning, jw, cw>> /\ Outdates

Schedule ==
    /\ slice.phase = "Pending" /\ ~slice.deleting
    /\ slice' = [slice EXCEPT !.phase = "Scheduled"]
    /\ UNCHANGED <<job, claim, pod, evictor, faults, earned>> /\ Workers

Allocate ==
    /\ slice.phase = "Scheduled" /\ ~slice.deleting
    /\ \/ slice' = [slice EXCEPT !.phase = "Ready", !.alloc = TRUE]
          /\ UNCHANGED <<faults, earned>>
       \/ slice' = [slice EXCEPT !.phase = "Failed"] /\ GoesWrong("allocFail")
          /\ Earns({"Failed"})
    /\ UNCHANGED <<job, claim, pod, evictor>> /\ Workers

Release ==
    /\ slice.phase = "Releasing" /\ slice.alloc
    /\ slice' = [slice EXCEPT !.phase = "Released", !.alloc = FALSE]
    /\ UNCHANGED <<job, claim, pod, evictor, faults, earned>> /\ Workers

Preempt ==
    /\ slice.phase = "Ready"
    /\ \/ GoesWrong("preempt") /\ slice' = [slice EXCEPT !.phase = "Preempting", !.anchor = TRUE]
       \/ GoesWrong("manual") /\ slice' = [slice EXCEPT !.phase = "Preempting", !.anchor = FALSE]
    /\ UNCHANGED <<job, claim, pod, evictor, earned>> /\ Workers

(* rollbackPreemptingMarks: the slice is as it was before, and so is its      *)
(* condition.                                                                *)
RollBackPreemption ==
    /\ slice.phase = "Preempting"
    /\ GoesWrong("rollBack")
    /\ slice' = [slice EXCEPT !.phase = "Ready", !.anchor = FALSE]
    /\ UNCHANGED <<job, claim, pod, evictor, earned>> /\ Workers

SliceSteps == Schedule \/ Allocate \/ Release

(* The evictor deletes the pod first and tells the job afterwards; if that    *)
(* fails it is not tried again. When the over-use is over, the condition is   *)
(* withdrawn (clearEnforcement).                                             *)
Evict ==
    /\ evictor = "idle" /\ pod = "running"
    /\ GoesWrong("evict")
    /\ pod' = "terminating"
    /\ evictor' = "stamp"
    /\ UNCHANGED <<job, claim, slice, earned>> /\ Workers

mirrorEvictionToJob ==
    /\ evictor = "stamp"
    /\ \/ /\ job' = [job EXCEPT !.evicted = @ \/ job.alive]
          /\ Earns({"Failed"})
          /\ evictor' = "withdraw"
          /\ UNCHANGED faults
       \/ GoesWrong("apiError") /\ evictor' = "withdraw" /\ UNCHANGED <<job, earned>>
    /\ UNCHANGED <<claim, slice, pod>> /\ Workers

clearEnforcement ==
    /\ evictor = "withdraw"
    /\ job' = [job EXCEPT !.evicted = FALSE]
    /\ evictor' = "idle"
    /\ UNCHANGED <<claim, slice, pod, faults, earned>> /\ Workers

(* The kubelet starts a pod and lets go of one that is being deleted; when a  *)
(* workload ends is up to the workload.                                      *)
Kubelet ==
    /\ \/ pod = "pending" /\ pod' = "running"
       \/ pod \in Dying /\ pod' = "none"
    /\ UNCHANGED <<job, claim, slice, evictor, faults, earned>> /\ Workers

Workload ==
    /\ \/ pod \in Live /\ pod' = "succeeded" /\ Earns({"Succeeded"})
       \/ pod \in Live /\ pod' = "failed" /\ Earns({"Failed"})
       \/ pod = "terminating" /\ pod' = "failing" /\ UNCHANGED earned
    /\ UNCHANGED <<job, claim, slice, evictor, faults>> /\ Workers

(* What a job leaves behind is collected. *)
GarbageCollector ==
    /\ ~job.alive
    /\ \/ claim.st = "live" /\ claim' = DeletedClaim(claim) /\ UNCHANGED pod
       \/ pod \in Live \cup Ended /\ pod' = DeletedPod(pod) /\ UNCHANGED claim
    /\ UNCHANGED <<job, slice, evictor, faults, earned>> /\ Workers

UserDeletes ==
    /\ GoesWrong("delete")
    /\ \/ /\ job.alive
          /\ job' = NoJob /\ earned' = {}
          /\ UNCHANGED <<claim, slice, pod>>
       \/ /\ claim.st = "live"
          /\ claim' = DeletedClaim(claim)
          /\ UNCHANGED <<job, slice, pod, earned>>
       \/ /\ slice.phase # "none" /\ ~slice.deleting
          /\ slice' = DeletedSlice(slice)
          /\ UNCHANGED <<job, claim, pod, earned>>
       \/ /\ pod \in Live \cup Ended
          /\ pod' = DeletedPod(pod)
          /\ UNCHANGED <<job, claim, slice, earned>>
    /\ UNCHANGED <<evictor>> /\ Workers

Next == \/ JobWorker \/ ClaimWorker \/ SliceWorker
        \/ SliceSteps \/ Preempt \/ RollBackPreemption
        \/ Evict \/ mirrorEvictionToJob \/ clearEnforcement
        \/ Kubelet \/ Workload \/ GarbageCollector \/ UserDeletes

Spec == Init /\ [][Next]_vars

(* Every worker goes on (failed passes are requeued, and each object's events *)
(* wake its worker), and so do the scheduler, the agent, the kubelet and the  *)
(* garbage collector. Nothing says that a workload ends.                      *)
FairSpec ==
    /\ Spec
    /\ WF_vars(JobWorker) /\ WF_vars(ClaimWorker) /\ WF_vars(SliceWorker)
    /\ WF_vars(SliceSteps)
    /\ WF_vars(mirrorEvictionToJob \/ clearEnforcement)
    /\ WF_vars(Kubelet) /\ WF_vars(GarbageCollector)

-----------------------------------------------------------------------------
(* Properties.                                                             *)

(* The grant of a terminal job is given back, so its pod must have ended: a   *)
(* job that is Succeeded or Failed has no pod that waits or runs.            *)
TerminalIdle == Terminal(job.phase) => pod \notin Live

(* "A terminal Job stays terminal": its phase stays, and neither its claim    *)
(* nor its pod is created again, whatever users delete. (If the job controller*)
(* does not see its own last write, they are.)                               *)
NoResurrection ==
    [][Terminal(job.phase) /\ job'.alive =>
          /\ job'.phase = job.phase
          /\ claim.st = "none" => claim'.st = "none"
          /\ pod = "none" => pod' = "none"]_vars

(* A job ends as it deserves: Succeeded only if its workload exited well,     *)
(* Failed only if it exited badly, was preempted or evicted, or its slice     *)
(* failed; never because its pod was deleted under it.                       *)
OutcomeEarned ==
    [][job'.phase # job.phase /\ Terminal(job'.phase) => job'.phase \in earned]_vars

(* "releasing VRAM grant": a job that is over or deleted holds nothing in the *)
(* end, and no pod of it runs.                                               *)
Reclaimed ==
    ~job.alive \/ Terminal(job.phase) ~>
        [](claim.st = "none" /\ slice.phase = "none" /\ pod \notin Live)

(* A job that owns a pod and has lost it gets another one or ends. *)
SelfHeals ==
    owning /\ pod = "none" ~> pod # "none" \/ Terminal(job.phase) \/ ~job.alive

(* A preempted slice does not stay so, even if it lacks the condition; and    *)
(* unless the preemption is taken back or the slice is being deleted, its job *)
(* is told, even if looking it up fails at first.                            *)
PreemptionCompletes ==
    /\ slice.phase = "Preempting" ~> slice.phase # "Preempting"
    /\ slice.phase = "Preempting" ~>
           slice.phase = "Ready" \/ slice.deleting \/ job.preempted \/ ~job.alive

=============================================================================
