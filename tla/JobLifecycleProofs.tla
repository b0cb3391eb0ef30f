------------------------- MODULE JobLifecycleProofs -------------------------
(***************************************************************************)
(* Theorems about JobLifecycle: types, and that the end of a job is final  *)
(* and true, for any faults, however often they happen. The parts of the   *)
(* invariant say what the job worker may rely on between the read that     *)
(* decides and the write that follows.                                     *)
(***************************************************************************)
EXTENDS JobLifecycle, TLAPS

(* The worker sees what it wrote last. *)
Current == "stale" \notin Faults

(* A pass that may write began with a job that was not terminal, and only    *)
(* this worker makes it so; only a job that owns a pod gets to the pod.      *)
PassSound ==
    /\ Current /\ jw.pc \in {"claim", "pod", "create", "write"} => ~Terminal(job.phase)
    /\ jw.pc = "claim" => ~Terminal(jw.phase)
    /\ jw.pc \in {"pod", "create"} => owning
    /\ ~owning => pod = "none"

(* When an end is about to be written, no pod waits or runs any more. *)
EndsIdle == jw.pc = "write" /\ Terminal(jw.want) => pod \notin Live

(* At the end, too: unless a pass does not know that it is one. *)
IdleAtEnd == Current => TerminalIdle

(* Something shows that the workload failed, or will be taken for it. *)
FailureShown ==
    \/ pod = "failed" \/ slice.phase = "Failed" \/ cw.phase = "Failed"
    \/ claim.phase = "Failed" \/ job.preempted \/ job.evicted

(* Whatever stands for an end was earned, on each object and in each copy    *)
(* that the end passes on its way from the workload to the job.              *)
EndsEarned ==
    job.alive =>
        /\ pod = "succeeded" => "Succeeded" \in earned
        /\ FailureShown => "Failed" \in earned
        /\ jw.pc \in {"claim", "pod"} /\ jw.over => "Failed" \in earned
        /\ jw.pc = "pod" /\ Terminal(jw.want) => jw.want = "Failed" /\ "Failed" \in earned
        /\ jw.pc = "write" /\ Terminal(jw.want) => jw.want \in earned

JobInv == TypeOK /\ PassSound /\ EndsIdle /\ IdleAtEnd /\ EndsEarned

-----------------------------------------------------------------------------
(* What the operators return.                                              *)

(* derivePhaseFromClaim: a phase of a job, and an end only for a claim that  *)
(* has failed, if the job is not at its end.                                 *)
LEMMA DerivedFromClaim ==
    ASSUME NEW c \in ClaimPhase, NEW current \in JobPhase
    PROVE  /\ derivePhaseFromClaim(c, current) \in JobPhase
           /\ ~Terminal(current) /\ Terminal(derivePhaseFromClaim(c, current))
              => c = "Failed" /\ derivePhaseFromClaim(c, current) = "Failed"
<1> DEFINE desired == CASE c \in {"Bound", "Scheduled"} -> "Scheduled"
                        [] c \in {"New", "Pending"}     -> "ClaimCreated"
                        [] c = "Failed"                 -> "Failed"
                        [] c = "Deleting"               -> current
<1>1. /\ desired \in JobPhase
      /\ ~Terminal(current) /\ Terminal(desired) => c = "Failed" /\ desired = "Failed"
  BY DEF ClaimPhase, JobPhase, Terminal
<1>2. derivePhaseFromClaim(c, current) \in {desired, current}
  BY DEF derivePhaseFromClaim
<1> HIDE DEF desired
<1> QED  BY <1>1, <1>2

(* derivePhaseFromPod: an end only for a pod that came to it. *)
LEMMA DerivedFromPod ==
    ASSUME NEW p \in {"none"} \cup Live \cup Ended \cup Dying,
           derivePhaseFromPod(p) # "none"
    PROVE  /\ derivePhaseFromPod(p) \in JobPhase
           /\ derivePhaseFromPod(p) = "Succeeded" => p = "succeeded"
           /\ derivePhaseFromPod(p) = "Failed" => p = "failed"
  BY DEF derivePhaseFromPod, JobPhase, Live, Ended, Dying

(* A deletion leaves an object of the same kind, and starts no pod. *)
LEMMA DeletedObjects ==
    /\ \A c \in [st : {"none", "live", "deleting"}, fin : BOOLEAN, phase : ClaimPhase] :
          /\ DeletedClaim(c) \in [st : {"none", "live", "deleting"}, fin : BOOLEAN,
                                  phase : ClaimPhase]
          /\ DeletedClaim(c).phase \in {c.phase, "New"}
    /\ \A s \in Slice : DeletedSlice(s) \in Slice /\ DeletedSlice(s).phase = s.phase
    /\ \A p \in {"none"} \cup Live \cup Ended \cup Dying :
          /\ DeletedPod(p) \in {"none"} \cup Dying
          /\ p = "none" => DeletedPod(p) = "none"
<1>1. ASSUME NEW c \in [st : {"none", "live", "deleting"}, fin : BOOLEAN, phase : ClaimPhase]
      PROVE  /\ DeletedClaim(c) \in [st : {"none", "live", "deleting"}, fin : BOOLEAN,
                                     phase : ClaimPhase]
             /\ DeletedClaim(c).phase \in {c.phase, "New"}
  BY DEF DeletedClaim, NoClaim, ClaimPhase
<1>2. ASSUME NEW s \in Slice
      PROVE  DeletedSlice(s) \in Slice /\ DeletedSlice(s).phase = s.phase
  BY DEF DeletedSlice, Slice
<1>3. ASSUME NEW p \in {"none"} \cup Live \cup Ended \cup Dying
      PROVE  /\ DeletedPod(p) \in {"none"} \cup Dying
             /\ p = "none" => DeletedPod(p) = "none"
  BY DEF DeletedPod, Live, Ended, Dying
<1> QED  BY <1>1, <1>2, <1>3

(* ClaimPhaseOf: the claim shows a failure only of a slice that failed. *)
LEMMA ShownByClaim ==
    ASSUME NEW p \in SlicePhase
    PROVE  /\ ClaimPhaseOf(p) \in ClaimPhase
           /\ ClaimPhaseOf(p) = "Failed" => p = "Failed"
  BY DEF ClaimPhaseOf, ClaimPhase, SlicePhase

(* A counted fault stays within the bound. *)
LEMMA FaultCounted ==
    ASSUME NEW f, GoesWrong(f), faults \in 0..MaxFaults
    PROVE  faults' \in 0..MaxFaults
  BY JobAssumption DEF GoesWrong

(* What the workload came to is only added to. *)
LEMMA EarnedGrows ==
    ASSUME NEW E \in SUBSET {"Succeeded", "Failed"}, Earns(E),
           earned \subseteq {"Succeeded", "Failed"}
    PROVE  /\ earned' \subseteq {"Succeeded", "Failed"}
           /\ earned \subseteq earned'
           /\ job.alive => E \subseteq earned'
  BY DEF Earns

-----------------------------------------------------------------------------
(* Types.                                                                  *)

ClaimType == [st : {"none", "live", "deleting"}, fin : BOOLEAN, phase : ClaimPhase]
PodType == {"none"} \cup Live \cup Ended \cup Dying
JobWorkerType == [pc : {"idle", "claim", "pod", "create", "write", "release"},
                  phase : JobPhase, over : BOOLEAN, bound : BOOLEAN, want : JobPhase]
ClaimWorkerType == [pc : {"idle", "delete", "finalize", "sync", "owner", "create"},
                    phase : SlicePhase]
SliceWorkerType == [pc : {"idle", "stamp", "evict", "release", "patch"}, fresh : BOOLEAN]

LEMMA PhaseNames ==
    /\ {"none", "Pending", "Scheduled", "Ready", "Failed", "Preempting", "Releasing",
        "Released"} \subseteq SlicePhase
    /\ {"ClaimCreated", "PodCreating", "Failed"} \subseteq JobPhase
    /\ "pending" \in PodType /\ "succeeded" \in PodType /\ "failed" \in PodType
    /\ "none" \in PodType /\ "running" \in PodType /\ "terminating" \in PodType
    /\ "failing" \in PodType
  BY DEF SlicePhase, JobPhase, PodType, Live, Ended, Dying

(* The objects and workers that steps start from. *)
LEMMA TypedStarts ==
    /\ JobIdle \in JobWorkerType /\ ClaimIdle \in ClaimWorkerType
    /\ SliceIdle \in SliceWorkerType
    /\ NewJob \in Job /\ NoJob \in Job /\ NoSlice \in Slice /\ NoClaim \in ClaimType
  BY DEF JobIdle, ClaimIdle, SliceIdle, JobWorkerType, ClaimWorkerType, SliceWorkerType,
     NewJob, NoJob, NoSlice, NoClaim, Job, Slice, ClaimType, JobPhase, SlicePhase, ClaimPhase

LEMMA TypeInit ==
    ASSUME Init
    PROVE  TypeOK
<1>1. faults \in 0..MaxFaults
  BY JobAssumption DEF Init
<1>2. pod \in PodType
  BY PhaseNames DEF Init
<1> QED  BY <1>1, <1>2, TypedStarts DEF Init, TypeOK, JobWorkerType, ClaimWorkerType,
     SliceWorkerType, ClaimType, PodType

(* What the slice worker takes up. *)
LEMMA TypeTakes ==
    ASSUME NEW pc \in {"idle", "stamp", "evict", "release", "patch"}, Takes(pc)
    PROVE  sw' \in SliceWorkerType
  BY DEF Takes, SliceWorkerType

(* A copy that is outdated is still a copy. *)
LEMMA TypeOutdates ==
    ASSUME sw \in SliceWorkerType, Outdates
    PROVE  sw' \in SliceWorkerType
  BY DEF Outdates, SliceWorkerType

LEMMA TypeJobWorker ==
    ASSUME TypeOK, JobWorker
    PROVE  TypeOK'
<1>1. ASSUME NEW p \in JobPhase, WillWrite(p)
      PROVE  jw' \in JobWorkerType
  BY <1>1, TypedStarts DEF WillWrite, JobWorkerType
<1>2. CASE Reconcile
  <2>1. faults' \in 0..MaxFaults
    BY <1>2, FaultCounted DEF TypeOK, Reconcile
  <2>2. job.phase \in JobPhase /\ Over \in BOOLEAN
    BY DEF TypeOK, Job, Over
  <2>3. PICK phase \in JobPhase, over \in BOOLEAN : GoesOn(phase, over)
    BY <1>2, <2>2 DEF Reconcile
  <2>4. jw' \in JobWorkerType
    BY <2>3, TypedStarts DEF GoesOn, JobWorkerType
  <2> QED  BY <1>2, <2>1, <2>4 DEF TypeOK, Reconcile, JobFrame, JobWorkerType, objects
<1>3. CASE releaseTerminalGrant
  <2>1. faults' \in 0..MaxFaults
    BY <1>3, FaultCounted DEF TypeOK, releaseTerminalGrant, JobErr
  <2>2. claim' \in ClaimType
    BY <1>3, DeletedObjects DEF TypeOK, releaseTerminalGrant, ClaimType
  <2>3. jw' \in JobWorkerType
    BY <1>3, TypedStarts DEF releaseTerminalGrant, JobErr
  <2> QED  BY <1>3, <2>1, <2>2, <2>3 DEF TypeOK, releaseTerminalGrant, JobFrame, JobWorkerType,
           ClaimType
<1>4. CASE ensureClaim
  <2>1. faults' \in 0..MaxFaults
    BY <1>4, FaultCounted DEF TypeOK, ensureClaim, JobErr
  <2>2. claim' \in ClaimType
    <3>1. [NoClaim EXCEPT !.st = "live"] \in ClaimType
      BY TypedStarts DEF ClaimType
    <3> QED  BY <1>4, <3>1 DEF TypeOK, ensureClaim, ClaimType
  <2>3. jw' \in JobWorkerType
    <3> DEFINE desired == derivePhaseFromClaim(claim.phase, jw.phase)
    <3>1. desired \in JobPhase
      BY DerivedFromClaim DEF TypeOK
    <3>2. \/ \E p \in {"ClaimCreated", "Failed", desired} : WillWrite(p)
          \/ JobErr
          \/ jw' = [jw EXCEPT !.pc = "pod", !.want = desired, !.bound = claim.phase # "New"]
      BY <1>4 DEF ensureClaim
    <3>3. CASE \E p \in {"ClaimCreated", "Failed", desired} : WillWrite(p)
      BY <1>1, <3>1, <3>3, PhaseNames
    <3>4. CASE JobErr
      BY <3>4, TypedStarts DEF JobErr
    <3>5. CASE jw' = [jw EXCEPT !.pc = "pod", !.want = desired,
                                !.bound = claim.phase # "New"]
      BY <3>1, <3>5 DEF TypeOK, JobWorkerType
    <3> QED  BY <3>2, <3>3, <3>4, <3>5
  <2> QED  BY <1>4, <2>1, <2>2, <2>3 DEF TypeOK, ensureClaim, JobFrame, JobWorkerType, ClaimType
<1>5. CASE reconcileWorkloadPod
  <2>1. faults' \in 0..MaxFaults
    BY <1>5, FaultCounted DEF TypeOK, reconcileWorkloadPod, JobErr
  <2>2. jw' \in JobWorkerType
    <3>1. \/ jw' = JobIdle
          \/ jw' = [JobIdle EXCEPT !.pc = "create"]
          \/ derivePhaseFromPod(pod) # "none" /\ WillWrite(derivePhaseFromPod(pod))
          \/ WillWrite("Failed")
          \/ WillWrite(jw.want)
      BY <1>5 DEF reconcileWorkloadPod, WillCreateOr, JobErr
    <3>2. jw.want \in JobPhase
      BY DEF TypeOK
    <3>3. CASE jw' = [JobIdle EXCEPT !.pc = "create"]
      BY <3>3, TypedStarts DEF JobWorkerType
    <3>4. CASE derivePhaseFromPod(pod) # "none" /\ WillWrite(derivePhaseFromPod(pod))
      BY <1>1, <3>4, DerivedFromPod DEF TypeOK
    <3> QED  BY <1>1, <3>1, <3>2, <3>3, <3>4, TypedStarts, PhaseNames
  <2> QED  BY <1>5, <2>1, <2>2 DEF TypeOK, reconcileWorkloadPod, JobFrame, JobWorkerType, objects
<1>6. CASE createPod
  <2>1. faults' \in 0..MaxFaults
    BY <1>6, FaultCounted DEF TypeOK, createPod, JobErr
  <2>2. pod' \in PodType
    BY <1>6, PhaseNames DEF TypeOK, createPod, PodType
  <2>3. jw' \in JobWorkerType
    BY <1>1, <1>6, TypedStarts, PhaseNames DEF createPod, JobErr
  <2> QED  BY <1>6, <2>1, <2>2, <2>3 DEF TypeOK, createPod, JobFrame, JobWorkerType, PodType
<1>7. CASE updatePhase
  <2>1. faults' \in 0..MaxFaults
    BY <1>7, FaultCounted DEF TypeOK, updatePhase, JobErr
  <2>2. job' \in Job
    BY <1>7 DEF TypeOK, updatePhase, Job
  <2>3. jw' \in JobWorkerType
    BY <1>7, TypedStarts DEF updatePhase, JobErr
  <2> QED  BY <1>7, <2>1, <2>2, <2>3 DEF TypeOK, updatePhase, JobFrame, JobWorkerType
<1> QED  BY <1>2, <1>3, <1>4, <1>5, <1>6, <1>7 DEF JobWorker

LEMMA TypeClaimWorker ==
    ASSUME TypeOK, ClaimWorker
    PROVE  TypeOK'
<1>0. sw' \in SliceWorkerType
  <2>1. Outdates
    BY DEF ClaimWorker, reconcileClaim, ensureClaimFinalizer, checkOwner, ensureSliceExists,
       syncClaimStatusFromSlice, handleClaimDelete, ClaimFrame
  <2> QED  BY <2>1, TypeOutdates DEF TypeOK, SliceWorkerType
<1>1. CASE reconcileClaim
  <2>1. slice.phase \in SlicePhase
    BY DEF TypeOK, Slice
  <2>2. cw' \in ClaimWorkerType
    BY <1>1, <2>1, PhaseNames DEF reconcileClaim, ClaimWorkerType
  <2> QED  BY <1>0, <1>1, <2>2 DEF TypeOK, reconcileClaim, ClaimFrame, ClaimWorkerType,
           SliceWorkerType
<1>2. CASE ensureClaimFinalizer
  <2>1. faults' \in 0..MaxFaults
    BY <1>2, FaultCounted DEF TypeOK, ensureClaimFinalizer, ClaimErr
  <2>2. claim' \in ClaimType
    BY <1>2 DEF TypeOK, ensureClaimFinalizer, ClaimType
  <2>3. cw' \in ClaimWorkerType
    BY <1>2, TypedStarts DEF ensureClaimFinalizer, ClaimErr
  <2> QED  BY <1>0, <1>2, <2>1, <2>2, <2>3 DEF TypeOK, ensureClaimFinalizer, ClaimFrame, ClaimType,
           ClaimWorkerType, SliceWorkerType
<1>3. CASE checkOwner
  <2>1. faults' \in 0..MaxFaults
    BY <1>3, FaultCounted DEF TypeOK, checkOwner, ClaimErr
  <2>2. cw' \in ClaimWorkerType
    BY <1>3, TypedStarts DEF TypeOK, checkOwner, ClaimErr, ClaimWorkerType
  <2> QED  BY <1>0, <1>3, <2>1, <2>2 DEF TypeOK, checkOwner, ClaimFrame, ClaimWorkerType,
           SliceWorkerType
<1>4. CASE ensureSliceExists
  <2>1. faults' \in 0..MaxFaults
    BY <1>4, FaultCounted DEF TypeOK, ensureSliceExists, ClaimErr
  <2>2. [NoSlice EXCEPT !.phase = "Pending"] \in Slice
    BY TypedStarts, PhaseNames DEF Slice
  <2>3. slice' \in Slice
    BY <1>4, <2>2 DEF TypeOK, ensureSliceExists
  <2>4. cw' \in ClaimWorkerType
    BY <1>4, TypedStarts DEF ensureSliceExists, ClaimErr
  <2> QED  BY <1>0, <1>4, <2>1, <2>3, <2>4 DEF TypeOK, ensureSliceExists, ClaimFrame,
           ClaimWorkerType, SliceWorkerType
<1>5. CASE syncClaimStatusFromSlice
  <2>1. faults' \in 0..MaxFaults
    BY <1>5, FaultCounted DEF TypeOK, syncClaimStatusFromSlice, ClaimErr
  <2>2. ClaimPhaseOf(cw.phase) \in ClaimPhase
    BY ShownByClaim DEF TypeOK
  <2>3. claim' \in ClaimType
    BY <1>5, <2>2 DEF TypeOK, syncClaimStatusFromSlice, ClaimType
  <2>4. cw' \in ClaimWorkerType
    BY <1>5, TypedStarts DEF syncClaimStatusFromSlice, ClaimErr
  <2> QED  BY <1>0, <1>5, <2>1, <2>3, <2>4 DEF TypeOK, syncClaimStatusFromSlice, ClaimFrame,
           ClaimType,
           ClaimWorkerType, SliceWorkerType
<1>6. CASE handleClaimDelete
  <2>1. faults' \in 0..MaxFaults
    BY <1>6, FaultCounted DEF TypeOK, handleClaimDelete, ClaimErr
  <2>2. claim' \in ClaimType /\ slice' \in Slice
    BY <1>6, TypedStarts, DeletedObjects DEF TypeOK, handleClaimDelete, ClaimType
  <2>3. cw' \in ClaimWorkerType
    BY <1>6, TypedStarts DEF handleClaimDelete, ClaimErr
  <2> QED  BY <1>0, <1>6, <2>1, <2>2, <2>3 DEF TypeOK, handleClaimDelete, ClaimFrame, ClaimType,
           ClaimWorkerType, SliceWorkerType
<1> QED  BY <1>1, <1>2, <1>3, <1>4, <1>5, <1>6 DEF ClaimWorker

LEMMA TypeSliceWorker ==
    ASSUME TypeOK, SliceWorker
    PROVE  TypeOK'
<1>1. CASE resolveOwnerJob
  <2>1. faults' \in 0..MaxFaults
    BY <1>1, FaultCounted DEF TypeOK, resolveOwnerJob, SliceErr
  <2>2. sw' \in SliceWorkerType
    <3>1. Takes("stamp") \/ Takes("release") \/ sw' = SliceIdle
      BY <1>1 DEF resolveOwnerJob, SliceErr
    <3> QED  BY <3>1, TypedStarts, TypeTakes
  <2> QED  BY <1>1, <2>1, <2>2 DEF TypeOK, resolveOwnerJob, SliceFrame, SliceWorkerType, objects
<1>2. CASE anchorGrace
  <2>1. faults' \in 0..MaxFaults
    BY <1>2, FaultCounted DEF TypeOK, anchorGrace, SliceErr
  <2>2. slice' \in Slice
    BY <1>2 DEF TypeOK, anchorGrace, Slice
  <2>3. sw' \in SliceWorkerType
    BY <1>2, TypedStarts DEF TypeOK, anchorGrace, SliceErr, SliceWorkerType
  <2> QED  BY <1>2, <2>1, <2>2, <2>3 DEF TypeOK, anchorGrace, SliceFrame, SliceWorkerType
<1>3. CASE stampPreempted
  <2>1. faults' \in 0..MaxFaults
    BY <1>3, FaultCounted DEF TypeOK, stampPreempted, SliceErr
  <2>2. job' \in Job
    BY <1>3 DEF TypeOK, stampPreempted, Job
  <2>3. earned' \subseteq {"Succeeded", "Failed"}
    BY <1>3, EarnedGrows DEF TypeOK, stampPreempted
  <2>4. sw' \in SliceWorkerType
    BY <1>3, TypedStarts DEF TypeOK, stampPreempted, SliceErr, SliceWorkerType
  <2> QED  BY <1>3, <2>1, <2>2, <2>3, <2>4 DEF TypeOK, stampPreempted, SliceFrame,
           SliceWorkerType
<1>4. CASE evictPreemptedWorkload
  <2>1. faults' \in 0..MaxFaults
    BY <1>4, FaultCounted DEF TypeOK, evictPreemptedWorkload, SliceErr
  <2>2. pod' \in PodType
    BY <1>4, DeletedObjects DEF TypeOK, evictPreemptedWorkload, PodType
  <2>3. sw' \in SliceWorkerType
    BY <1>4, TypedStarts DEF TypeOK, evictPreemptedWorkload, SliceErr, SliceWorkerType
  <2> QED  BY <1>4, <2>1, <2>2, <2>3 DEF TypeOK, evictPreemptedWorkload, SliceFrame, PodType,
           SliceWorkerType
<1>5. CASE releasePreempted
  <2>1. faults' \in 0..MaxFaults
    BY <1>5, FaultCounted DEF TypeOK, releasePreempted, SliceErr
  <2>2. slice' \in Slice
    BY <1>5, PhaseNames DEF TypeOK, releasePreempted, Slice
  <2>3. sw' \in SliceWorkerType
    BY <1>5, TypedStarts DEF releasePreempted, SliceErr
  <2> QED  BY <1>5, <2>1, <2>2, <2>3 DEF TypeOK, releasePreempted, SliceFrame, SliceWorkerType
<1>6. CASE handleDelete
  <2>1. slice' \in Slice
    BY <1>6, TypedStarts DEF TypeOK, handleDelete
  <2>2. sw' \in SliceWorkerType
    <3>1. Takes("patch") \/ sw' = sw
      BY <1>6 DEF handleDelete
    <3>2. sw \in SliceWorkerType
      BY DEF TypeOK, SliceWorkerType
    <3> QED  BY <3>1, <3>2, TypeTakes
  <2> QED  BY <1>6, <2>1, <2>2 DEF TypeOK, handleDelete, SliceFrame, SliceWorkerType
<1>7. CASE PatchSliceStatus
  <2>1. faults' \in 0..MaxFaults
    BY <1>7, FaultCounted DEF TypeOK, PatchSliceStatus, SliceErr
  <2>2. slice' \in Slice
    BY <1>7, PhaseNames DEF TypeOK, PatchSliceStatus, Slice
  <2>3. sw' \in SliceWorkerType
    BY <1>7, TypedStarts DEF PatchSliceStatus, SliceErr
  <2> QED  BY <1>7, <2>1, <2>2, <2>3 DEF TypeOK, PatchSliceStatus, SliceFrame, SliceWorkerType
<1> QED  BY <1>1, <1>2, <1>3, <1>4, <1>5, <1>6, <1>7 DEF SliceWorker

(* The steps of everybody else. *)
Outside == \/ SliceSteps \/ Preempt \/ RollBackPreemption
           \/ Evict \/ mirrorEvictionToJob \/ clearEnforcement
           \/ Kubelet \/ Workload \/ GarbageCollector \/ UserDeletes

LEMMA TypeOutside ==
    ASSUME TypeOK, Outside
    PROVE  TypeOK'
<1>0. sw' \in SliceWorkerType
  <2>1. Outdates
    BY DEF Outside, SliceSteps, Schedule, Allocate, Release, Preempt, RollBackPreemption, Evict,
       mirrorEvictionToJob, clearEnforcement, Kubelet, Workload, GarbageCollector, UserDeletes,
       Workers
  <2> QED  BY <2>1, TypeOutdates DEF TypeOK, SliceWorkerType
<1>1. CASE Schedule
  <2>1. slice' \in Slice
    BY <1>1, PhaseNames DEF TypeOK, Schedule, Slice
  <2> QED  BY <1>0, <1>1, <2>1 DEF TypeOK, Schedule, Workers, SliceWorkerType
<1>2. CASE Allocate
  <2>1. faults' \in 0..MaxFaults
    BY <1>2, FaultCounted DEF TypeOK, Allocate
  <2>2. [slice EXCEPT !.phase = "Ready", !.alloc = TRUE] \in Slice
    BY PhaseNames DEF TypeOK, Slice
  <2>3. [slice EXCEPT !.phase = "Failed"] \in Slice
    BY PhaseNames DEF TypeOK, Slice
  <2>4. earned' \subseteq {"Succeeded", "Failed"}
    BY <1>2, EarnedGrows DEF TypeOK, Allocate
  <2> QED  BY <1>0, <1>2, <2>1, <2>2, <2>3, <2>4 DEF TypeOK, Allocate, Workers, SliceWorkerType
<1>3. CASE Release
  <2>1. [slice EXCEPT !.phase = "Released", !.alloc = FALSE] \in Slice
    BY PhaseNames DEF TypeOK, Slice
  <2> QED  BY <1>0, <1>3, <2>1 DEF TypeOK, Release, Workers, SliceWorkerType
<1>4. CASE Preempt
  <2>1. faults' \in 0..MaxFaults
    BY <1>4, FaultCounted DEF TypeOK, Preempt
  <2>2. [slice EXCEPT !.phase = "Preempting", !.anchor = TRUE] \in Slice
    BY PhaseNames DEF TypeOK, Slice
  <2>3. [slice EXCEPT !.phase = "Preempting", !.anchor = FALSE] \in Slice
    BY PhaseNames DEF TypeOK, Slice
  <2> QED  BY <1>0, <1>4, <2>1, <2>2, <2>3 DEF TypeOK, Preempt, Workers, SliceWorkerType
<1>5. CASE Evict
  <2>1. faults' \in 0..MaxFaults
    BY <1>5, FaultCounted DEF TypeOK, Evict
  <2>2. pod' \in PodType
    BY <1>5, PhaseNames DEF Evict
  <2> QED  BY <1>0, <1>5, <2>1, <2>2 DEF TypeOK, Evict, Workers, PodType, SliceWorkerType
<1>6. CASE mirrorEvictionToJob
  <2>1. faults' \in 0..MaxFaults
    BY <1>6, FaultCounted DEF TypeOK, mirrorEvictionToJob
  <2>2. job' \in Job
    BY <1>6 DEF TypeOK, mirrorEvictionToJob, Job
  <2>3. earned' \subseteq {"Succeeded", "Failed"}
    BY <1>6, EarnedGrows DEF TypeOK, mirrorEvictionToJob
  <2> QED  BY <1>0, <1>6, <2>1, <2>2, <2>3 DEF TypeOK, mirrorEvictionToJob, Workers, SliceWorkerType
<1>7. CASE clearEnforcement
  <2>1. job' \in Job
    BY <1>7 DEF TypeOK, clearEnforcement, Job
  <2> QED  BY <1>0, <1>7, <2>1 DEF TypeOK, clearEnforcement, Workers, SliceWorkerType
<1>8. CASE Kubelet
  <2>1. pod' \in PodType
    BY <1>8, PhaseNames DEF Kubelet
  <2> QED  BY <1>0, <1>8, <2>1 DEF TypeOK, Kubelet, Workers, PodType, SliceWorkerType
<1>9. CASE Workload
  <2>1. pod' \in PodType
    BY <1>9, PhaseNames DEF Workload
  <2>2. earned' \subseteq {"Succeeded", "Failed"}
    BY <1>9, EarnedGrows DEF TypeOK, Workload
  <2> QED  BY <1>0, <1>9, <2>1, <2>2 DEF TypeOK, Workload, Workers, PodType, SliceWorkerType
<1>10. CASE GarbageCollector
  <2>1. claim' \in ClaimType /\ pod' \in PodType
    BY <1>10, DeletedObjects DEF TypeOK, GarbageCollector, ClaimType, PodType
  <2> QED  BY <1>0, <1>10, <2>1 DEF TypeOK, GarbageCollector, Workers, ClaimType, PodType,
           SliceWorkerType
<1>11. CASE UserDeletes
  <2>1. faults' \in 0..MaxFaults
    BY <1>11, FaultCounted DEF TypeOK, UserDeletes
  <2>2. job' \in Job /\ earned' \subseteq {"Succeeded", "Failed"}
    BY <1>11, TypedStarts DEF TypeOK, UserDeletes
  <2>3. claim' \in ClaimType /\ slice' \in Slice /\ pod' \in PodType
    BY <1>11, DeletedObjects DEF TypeOK, UserDeletes, ClaimType, PodType
  <2> QED  BY <1>0, <1>11, <2>1, <2>2, <2>3 DEF TypeOK, UserDeletes, Workers, ClaimType, PodType,
           SliceWorkerType
<1>12. CASE RollBackPreemption
  <2>1. faults' \in 0..MaxFaults
    BY <1>12, FaultCounted DEF TypeOK, RollBackPreemption
  <2>2. [slice EXCEPT !.phase = "Ready", !.anchor = FALSE] \in Slice
    BY PhaseNames DEF TypeOK, Slice
  <2> QED  BY <1>0, <1>12, <2>1, <2>2 DEF TypeOK, RollBackPreemption, Workers, SliceWorkerType
<1> QED  BY <1>1, <1>2, <1>3, <1>4, <1>5, <1>6, <1>7, <1>8, <1>9, <1>10, <1>11, <1>12
     DEF Outside, SliceSteps

LEMMA NextSplits ==
    ASSUME [Next]_vars
    PROVE  JobWorker \/ ClaimWorker \/ SliceWorker \/ Outside \/ UNCHANGED vars
  BY DEF Next, Outside

LEMMA TypeStep ==
    ASSUME TypeOK, [Next]_vars
    PROVE  TypeOK'
<1>1. CASE UNCHANGED vars
  BY <1>1 DEF vars, TypeOK
<1> QED  BY <1>1, NextSplits, TypeJobWorker, TypeClaimWorker, TypeSliceWorker, TypeOutside

-----------------------------------------------------------------------------
(* The pass of the job worker, and the ends.                               *)

(* Steps that leave the job worker alone, start no pod and end no job leave  *)
(* what its pass relies on.                                                  *)
LEMMA PassUndisturbed ==
    ASSUME PassSound, EndsIdle, IdleAtEnd,
           jw' = jw, owning' = owning,
           job'.phase = job.phase \/ job'.phase = "Pending",
           pod' \in Live => pod \in Live,
           pod = "none" => pod' = "none"
    PROVE  PassSound' /\ EndsIdle' /\ IdleAtEnd'
<1>1. Terminal(job'.phase) => job'.phase = job.phase
  BY DEF Terminal
<1>2. PassSound'
  BY <1>1 DEF PassSound
<1>3. EndsIdle'
  BY DEF EndsIdle
<1>4. IdleAtEnd'
  BY <1>1 DEF IdleAtEnd, TerminalIdle
<1> QED  BY <1>2, <1>3, <1>4

(* Steps that leave the job worker alone and show no new end, or one that is *)
(* counted as earned, leave the ends earned.                                 *)
LEMMA EndsUndisturbed ==
    ASSUME EndsEarned, jw' = jw,
           job'.alive => job.alive /\ earned \subseteq earned',
           job'.alive /\ pod' = "succeeded" => pod = "succeeded" \/ "Succeeded" \in earned',
           job'.alive /\ FailureShown' => FailureShown \/ "Failed" \in earned'
    PROVE  EndsEarned'
<1> SUFFICES ASSUME job'.alive
             PROVE  EndsEarned'
  BY DEF EndsEarned
<1>1. job.alive /\ \A e \in earned : e \in earned'
  OBVIOUS
<1> QED  BY <1>1 DEF EndsEarned

(* The end of a pass, and its failure. *)
LEMMA PassOver ==
    ASSUME JobInv, jw' = JobIdle, UNCHANGED <<owning, job, slice, pod, cw, earned>>,
           claim'.phase = "Failed" => claim.phase = "Failed"
    PROVE  PassSound' /\ EndsIdle' /\ IdleAtEnd' /\ EndsEarned'
<1>1. jw'.pc = "idle"
  BY DEF JobIdle
<1>2. PassSound' /\ EndsIdle' /\ IdleAtEnd'
  BY <1>1 DEF JobInv, PassSound, EndsIdle, IdleAtEnd, TerminalIdle
<1>3. FailureShown' => FailureShown
  BY DEF FailureShown
<1>4. EndsEarned'
  BY <1>1, <1>3 DEF JobInv, EndsEarned
<1> QED  BY <1>2, <1>4

(* The decision to write a phase: an end only if it was earned, and when no  *)
(* pod waits or runs.                                                        *)
LEMMA PassDecides ==
    ASSUME JobInv, jw.pc \in {"claim", "pod", "create"},
           NEW p, WillWrite(p),
           Terminal(p) => pod' \notin Live /\ (job.alive => p \in earned),
           UNCHANGED <<owning, job, slice, cw, earned>>,
           pod' = pod \/ (jw.pc = "create" /\ pod' = "pending"),
           claim'.phase = "Failed" => claim.phase = "Failed"
    PROVE  PassSound' /\ EndsIdle' /\ IdleAtEnd' /\ EndsEarned'
<1>1. jw'.pc = "write" /\ jw'.want = p
  BY DEF WillWrite, JobIdle
<1>2. (Current => ~Terminal(job.phase)) /\ (jw.pc = "create" => owning)
  BY DEF JobInv, PassSound
<1>3. PassSound'
  BY <1>1, <1>2 DEF JobInv, PassSound
<1>4. EndsIdle'
  BY <1>1 DEF EndsIdle
<1>5. IdleAtEnd'
  BY <1>2 DEF IdleAtEnd, TerminalIdle
<1>6. FailureShown' => FailureShown
  BY DEF FailureShown
<1>7. EndsEarned'
  BY <1>1, <1>6 DEF JobInv, EndsEarned
<1> QED  BY <1>3, <1>4, <1>5, <1>7

LEMMA SoundJobWorker ==
    ASSUME JobInv, JobWorker
    PROVE  PassSound' /\ EndsIdle' /\ IdleAtEnd' /\ EndsEarned'
<1>1. CASE Reconcile
  <2>1. UNCHANGED <<owning, job, claim, slice, pod, cw, earned>>
    BY <1>1 DEF Reconcile, JobFrame, objects
  <2>2. FailureShown' => FailureShown
    BY <2>1 DEF FailureShown
  <2>3. PICK phase \in JobPhase, over \in {FALSE, Over} :
           GoesOn(phase, over) /\ (Current => phase = job.phase)
    <3>1. CASE GoesOn(job.phase, Over)
      BY <3>1 DEF JobInv, TypeOK, Job
    <3>2. CASE /\ ~Current
               /\ \E p \in JobPhase, o \in {FALSE, Over} : GoesOn(p, o)
      BY <3>2
    <3> QED  BY <1>1, <3>1, <3>2 DEF Reconcile, GoesWrong, Current
  <2>4. CASE Terminal(phase)
    <3>1. jw'.pc = "release"
      BY <2>3, <2>4 DEF GoesOn, JobIdle
    <3>2. PassSound' /\ EndsIdle' /\ IdleAtEnd'
      BY <2>1, <3>1 DEF JobInv, PassSound, EndsIdle, IdleAtEnd, TerminalIdle
    <3>3. EndsEarned'
      BY <2>1, <2>2, <3>1 DEF JobInv, EndsEarned
    <3> QED  BY <3>2, <3>3
  <2>5. CASE ~Terminal(phase)
    <3>1. jw'.pc = "claim" /\ jw'.phase = phase /\ jw'.over = over
      BY <2>3, <2>5 DEF GoesOn, JobIdle
    <3>2. jw'.over => FailureShown
      BY <2>3, <3>1 DEF Over, FailureShown
    <3>3. PassSound' /\ EndsIdle' /\ IdleAtEnd'
      BY <2>1, <2>3, <2>5, <3>1 DEF JobInv, PassSound, EndsIdle, IdleAtEnd, TerminalIdle
    <3>4. EndsEarned'
      BY <2>1, <2>2, <3>1, <3>2 DEF JobInv, EndsEarned
    <3> QED  BY <3>3, <3>4
  <2> QED  BY <2>4, <2>5
<1>2. CASE releaseTerminalGrant
  <2>1. jw' = JobIdle /\ UNCHANGED <<owning, job, slice, pod, cw, earned>>
    BY <1>2 DEF releaseTerminalGrant, JobErr, JobFrame
  <2>2. claim'.phase = "Failed" => claim.phase = "Failed"
    BY <1>2, DeletedObjects DEF releaseTerminalGrant, JobInv, TypeOK
  <2> QED  BY <2>1, <2>2, PassOver
<1>3. CASE ensureClaim
  <2>1. jw.pc = "claim" /\ UNCHANGED <<owning, job, slice, pod, cw, earned>>
    BY <1>3 DEF ensureClaim, JobFrame
  <2>2. claim'.phase = "Failed" => claim.phase = "Failed"
    BY <1>3 DEF ensureClaim, NoClaim
  <2> DEFINE desired == derivePhaseFromClaim(claim.phase, jw.phase)
  <2>3. /\ desired \in JobPhase
        /\ Terminal(desired) => claim.phase = "Failed" /\ desired = "Failed"
    BY <2>1, DerivedFromClaim DEF JobInv, TypeOK, PassSound
  <2>4. job.alive /\ claim.phase = "Failed" => "Failed" \in earned
    BY DEF JobInv, EndsEarned, FailureShown
  <2> HIDE DEF desired
  <2>5. CASE claim.st = "none" /\ WillWrite("ClaimCreated")
    <3>1. ~Terminal("ClaimCreated")
      BY DEF Terminal
    <3> QED  BY <2>1, <2>2, <2>5, <3>1, PassDecides
  <2>6. CASE /\ owning
             /\ jw' = [jw EXCEPT !.pc = "pod", !.want = desired, !.bound = claim.phase # "New"]
    <3>1. jw'.pc = "pod" /\ jw'.want = desired /\ jw'.over = jw.over
      BY <2>6 DEF JobInv, TypeOK
    <3>2. PassSound' /\ EndsIdle' /\ IdleAtEnd'
      BY <2>1, <2>6, <3>1 DEF JobInv, PassSound, EndsIdle, IdleAtEnd, TerminalIdle
    <3>3. FailureShown' => FailureShown
      BY <2>1, <2>2 DEF FailureShown
    <3>4. EndsEarned'
      BY <2>1, <2>3, <2>4, <3>1, <3>3 DEF JobInv, EndsEarned
    <3> QED  BY <3>2, <3>4
  <2>7. CASE ~owning /\ WillWrite(IF jw.over THEN "Failed" ELSE desired)
    <3>1. pod' \notin Live
      BY <2>1, <2>7 DEF JobInv, PassSound, Live
    <3>2. job.alive /\ jw.over => "Failed" \in earned
      BY <2>1 DEF JobInv, EndsEarned
    <3>3. CASE jw.over
      BY <2>1, <2>2, <2>7, <3>1, <3>2, <3>3, PassDecides
    <3>4. CASE ~jw.over
      BY <2>1, <2>2, <2>3, <2>4, <2>7, <3>1, <3>4, PassDecides
    <3> QED  BY <3>3, <3>4
  <2>8. CASE JobErr
    BY <2>1, <2>2, <2>8, PassOver DEF JobErr
  <2> QED  BY <1>3, <2>5, <2>6, <2>7, <2>8 DEF ensureClaim, desired
<1>4. CASE reconcileWorkloadPod
  <2>1. jw.pc = "pod" /\ UNCHANGED <<owning, job, claim, slice, pod, cw, earned>>
    BY <1>4 DEF reconcileWorkloadPod, JobFrame, objects
  <2>2. claim'.phase = "Failed" => claim.phase = "Failed"
    BY <2>1
  <2>3. CASE jw' = JobIdle
    BY <2>1, <2>2, <2>3, PassOver
  <2>4. CASE /\ pod # "none"
             /\ derivePhaseFromPod(pod) # "none"
             /\ WillWrite(derivePhaseFromPod(pod))
    <3> DEFINE p == derivePhaseFromPod(pod)
    <3>1. /\ p = "Succeeded" => pod = "succeeded"
          /\ p = "Failed" => pod = "failed"
      BY <2>4, DerivedFromPod DEF JobInv, TypeOK
    <3>2. Terminal(p) => pod \notin Live
      BY <3>1 DEF Terminal, Live
    <3>3. Terminal(p) /\ job.alive => p \in earned
      BY <3>1 DEF Terminal, JobInv, EndsEarned, FailureShown
    <3> HIDE DEF p
    <3> QED  BY <2>1, <2>2, <2>4, <3>2, <3>3, PassDecides DEF p
  <2>5. CASE pod = "none" /\ jw.over /\ WillWrite("Failed")
    <3>1. job.alive => "Failed" \in earned
      BY <2>1, <2>5 DEF JobInv, EndsEarned
    <3> QED  BY <2>1, <2>2, <2>5, <3>1, PassDecides DEF Live
  <2>6. CASE pod = "none" /\ WillWrite(jw.want)
    <3>1. Terminal(jw.want) /\ job.alive => jw.want \in earned
      BY <2>1 DEF JobInv, EndsEarned
    <3> QED  BY <2>1, <2>2, <2>6, <3>1, PassDecides DEF Live
  <2>7. CASE jw' = [JobIdle EXCEPT !.pc = "create"]
    <3>1. jw'.pc = "create"
      BY <2>7 DEF JobIdle
    <3>2. PassSound' /\ EndsIdle' /\ IdleAtEnd'
      BY <2>1, <3>1 DEF JobInv, PassSound, EndsIdle, IdleAtEnd, TerminalIdle
    <3>3. FailureShown' => FailureShown
      BY <2>1 DEF FailureShown
    <3>4. EndsEarned'
      BY <2>1, <3>1, <3>3 DEF JobInv, EndsEarned
    <3> QED  BY <3>2, <3>4
  <2> QED  BY <1>4, <2>3, <2>4, <2>5, <2>6, <2>7
           DEF reconcileWorkloadPod, WillCreateOr, JobErr
<1>5. CASE createPod
  <2>1. /\ jw.pc = "create"
        /\ UNCHANGED <<owning, job, claim, slice, cw, earned>>
    BY <1>5 DEF createPod, JobFrame
  <2>2. claim'.phase = "Failed" => claim.phase = "Failed"
    BY <2>1
  <2>3. CASE pod' = "pending" /\ WillWrite("PodCreating")
    <3>1. ~Terminal("PodCreating")
      BY DEF Terminal
    <3> QED  BY <2>1, <2>2, <2>3, <3>1, PassDecides
  <2>4. CASE jw' = JobIdle /\ UNCHANGED pod
    BY <2>1, <2>2, <2>4, PassOver
  <2> QED  BY <1>5, <2>3, <2>4 DEF createPod, JobErr
<1>6. CASE updatePhase
  <2>1. jw.pc = "write" /\ jw' = JobIdle
        /\ UNCHANGED <<owning, claim, slice, pod, cw, earned>>
    BY <1>6 DEF updatePhase, JobErr, JobFrame
  <2>2. CASE UNCHANGED job
    BY <2>1, <2>2, PassOver
  <2>3. CASE job' = [job EXCEPT !.phase = jw.want]
    <3>1. /\ job'.phase = jw.want /\ job'.alive = job.alive
          /\ job'.preempted = job.preempted /\ job'.evicted = job.evicted
      BY <2>3 DEF JobInv, TypeOK, Job
    <3>2. jw'.pc = "idle"
      BY <2>1 DEF JobIdle
    <3>3. PassSound' /\ EndsIdle'
      BY <2>1, <3>2 DEF JobInv, PassSound, EndsIdle
    <3>4. IdleAtEnd'
      BY <2>1, <3>1 DEF JobInv, EndsIdle, IdleAtEnd, TerminalIdle
    <3>5. FailureShown' => FailureShown
      BY <2>1, <3>1 DEF FailureShown
    <3>6. EndsEarned'
      BY <2>1, <3>1, <3>2, <3>5 DEF JobInv, EndsEarned
    <3> QED  BY <3>3, <3>4, <3>6
  <2> QED  BY <1>6, <2>2, <2>3 DEF updatePhase
<1> QED  BY <1>1, <1>2, <1>3, <1>4, <1>5, <1>6 DEF JobWorker

LEMMA SoundClaimWorker ==
    ASSUME JobInv, ClaimWorker
    PROVE  PassSound' /\ EndsIdle' /\ IdleAtEnd' /\ EndsEarned'
<1>1. UNCHANGED <<owning, job, pod, jw, earned>>
  BY DEF ClaimWorker, reconcileClaim, ensureClaimFinalizer, checkOwner, ensureSliceExists,
     syncClaimStatusFromSlice, handleClaimDelete, ClaimFrame
<1>2. slice'.phase = "Failed" => slice.phase = "Failed"
  BY DeletedObjects DEF ClaimWorker, reconcileClaim, ensureClaimFinalizer, checkOwner,
     ensureSliceExists, syncClaimStatusFromSlice, handleClaimDelete, NoSlice, JobInv, TypeOK
<1>3. claim'.phase = "Failed" => claim.phase = "Failed" \/ cw.phase = "Failed"
  <2>1. CASE syncClaimStatusFromSlice
    BY <2>1, ShownByClaim DEF syncClaimStatusFromSlice, JobInv, TypeOK
  <2>2. CASE ensureClaimFinalizer
    BY <2>2 DEF ensureClaimFinalizer, JobInv, TypeOK
  <2> QED  BY <2>1, <2>2 DEF ClaimWorker, reconcileClaim, checkOwner, ensureSliceExists,
           handleClaimDelete, NoClaim
<1>4. cw'.phase = "Failed" => cw.phase = "Failed" \/ slice.phase = "Failed"
  <2>1. CASE reconcileClaim
    BY <2>1 DEF reconcileClaim
  <2>2. CASE checkOwner
    BY <2>2 DEF checkOwner, ClaimErr, ClaimIdle, JobInv, TypeOK
  <2> QED  BY <2>1, <2>2 DEF ClaimWorker, ensureClaimFinalizer, ensureSliceExists,
           syncClaimStatusFromSlice, handleClaimDelete, ClaimErr, ClaimIdle
<1>5. FailureShown' => FailureShown
  BY <1>1, <1>2, <1>3, <1>4 DEF FailureShown
<1>6. PassSound' /\ EndsIdle' /\ IdleAtEnd'
  BY <1>1, PassUndisturbed DEF JobInv
<1>7. EndsEarned'
  BY <1>1, <1>5, EndsUndisturbed DEF JobInv
<1> QED  BY <1>6, <1>7

LEMMA SoundSliceWorker ==
    ASSUME JobInv, SliceWorker
    PROVE  PassSound' /\ EndsIdle' /\ IdleAtEnd' /\ EndsEarned'
<1>1. UNCHANGED <<owning, claim, jw, cw>>
  BY DEF SliceWorker, resolveOwnerJob, anchorGrace, stampPreempted, evictPreemptedWorkload,
     releasePreempted, handleDelete, PatchSliceStatus, SliceFrame
<1>2. /\ job'.phase = job.phase /\ job'.alive = job.alive /\ job'.evicted = job.evicted
      /\ earned \subseteq earned'
      /\ job'.preempted /\ job.alive => job.preempted \/ "Failed" \in earned'
  <2>1. CASE stampPreempted
    <3>1. earned \subseteq earned' /\ (job.alive => job' = job \/ "Failed" \in earned')
      BY <2>1, EarnedGrows DEF stampPreempted, JobInv, TypeOK
    <3> QED  BY <2>1, <3>1 DEF stampPreempted, JobInv, TypeOK, Job
  <2>2. CASE UNCHANGED <<job, earned>>
    BY <2>2
  <2> QED  BY <2>1, <2>2 DEF SliceWorker, resolveOwnerJob, anchorGrace, evictPreemptedWorkload,
           releasePreempted, handleDelete, PatchSliceStatus, objects
<1>3. pod' = pod \/ pod' = DeletedPod(pod)
  BY DEF SliceWorker, resolveOwnerJob, anchorGrace, stampPreempted, evictPreemptedWorkload,
     releasePreempted, handleDelete, PatchSliceStatus, objects
<1>4. /\ pod' \in Live \cup Ended => pod' = pod
      /\ pod = "none" => pod' = "none"
  BY <1>3, DeletedObjects DEF JobInv, TypeOK, Live, Ended, Dying
<1>5. slice'.phase = "Failed" => slice.phase = "Failed"
  <2>1. CASE anchorGrace
    BY <2>1 DEF anchorGrace, JobInv, TypeOK, Slice
  <2>2. CASE releasePreempted
    BY <2>2 DEF releasePreempted, JobInv, TypeOK, Slice
  <2>3. CASE handleDelete
    BY <2>3 DEF handleDelete, NoSlice, JobInv, TypeOK, Slice
  <2>4. CASE PatchSliceStatus
    BY <2>4 DEF PatchSliceStatus, JobInv, TypeOK, Slice
  <2> QED  BY <2>1, <2>2, <2>3, <2>4 DEF SliceWorker, resolveOwnerJob, stampPreempted,
           evictPreemptedWorkload, objects
<1>6. job'.alive /\ FailureShown' => FailureShown \/ "Failed" \in earned'
  BY <1>1, <1>2, <1>4, <1>5 DEF FailureShown, Ended
<1>7. PassSound' /\ EndsIdle' /\ IdleAtEnd'
  BY <1>1, <1>2, <1>4, PassUndisturbed DEF JobInv
<1>8. EndsEarned'
  BY <1>1, <1>2, <1>4, <1>6, EndsUndisturbed DEF JobInv, Ended
<1> QED  BY <1>7, <1>8

LEMMA SoundOutside ==
    ASSUME JobInv, Outside
    PROVE  PassSound' /\ EndsIdle' /\ IdleAtEnd' /\ EndsEarned'
<1>1. UNCHANGED <<owning, jw, cw>>
  BY DEF Outside, SliceSteps, Schedule, Allocate, Release, Preempt, RollBackPreemption, Evict,
     mirrorEvictionToJob,
     clearEnforcement, Kubelet, Workload, GarbageCollector, UserDeletes, Workers
<1>2. ASSUME job'.phase = job.phase \/ job'.phase = "Pending",
             pod' \in Live => pod \in Live,
             pod = "none" => pod' = "none",
             job'.alive => job.alive /\ earned \subseteq earned',
             job'.alive /\ pod' = "succeeded" => pod = "succeeded" \/ "Succeeded" \in earned',
             job'.alive /\ FailureShown' => FailureShown \/ "Failed" \in earned'
      PROVE  PassSound' /\ EndsIdle' /\ IdleAtEnd' /\ EndsEarned'
  BY <1>1, <1>2, PassUndisturbed, EndsUndisturbed DEF JobInv
<1>3. CASE SliceSteps \/ Preempt \/ RollBackPreemption
  <2>1. UNCHANGED <<job, claim, pod>>
    BY <1>3 DEF SliceSteps, Schedule, Allocate, Release, Preempt, RollBackPreemption
  <2>2. /\ job.alive => earned \subseteq earned'
        /\ job.alive /\ slice'.phase = "Failed" => slice.phase = "Failed" \/ "Failed" \in earned'
    <3>1. CASE Allocate
      BY <3>1, EarnedGrows DEF Allocate, JobInv, TypeOK, Slice
    <3>2. CASE Schedule \/ Release \/ Preempt \/ RollBackPreemption
      BY <3>2 DEF Schedule, Release, Preempt, RollBackPreemption, JobInv, TypeOK, Slice
    <3> QED  BY <1>3, <3>1, <3>2 DEF SliceSteps
  <2> QED  BY <1>1, <1>2, <2>1, <2>2 DEF FailureShown
<1>4. CASE Evict
  <2>1. pod' = "terminating" /\ pod # "none" /\ UNCHANGED <<job, claim, slice, earned>>
    BY <1>4 DEF Evict
  <2> QED  BY <1>1, <1>2, <2>1 DEF FailureShown, Live
<1>5. CASE mirrorEvictionToJob \/ clearEnforcement
  <2>1. UNCHANGED <<claim, slice, pod>>
    BY <1>5 DEF mirrorEvictionToJob, clearEnforcement
  <2>2. /\ job'.phase = job.phase /\ job'.alive = job.alive /\ job'.preempted = job.preempted
        /\ earned \subseteq earned'
        /\ job'.evicted /\ job.alive => job.evicted \/ "Failed" \in earned'
    <3>1. CASE mirrorEvictionToJob
      <4>1. earned \subseteq earned' /\ (job.alive => job' = job \/ "Failed" \in earned')
        BY <1>5, <3>1, EarnedGrows DEF mirrorEvictionToJob, JobInv, TypeOK
      <4> QED  BY <3>1, <4>1 DEF mirrorEvictionToJob, JobInv, TypeOK, Job
    <3>2. CASE clearEnforcement
      BY <3>2 DEF clearEnforcement, JobInv, TypeOK, Job
    <3> QED  BY <1>5, <3>1, <3>2
  <2> QED  BY <1>1, <1>2, <2>1, <2>2 DEF FailureShown
<1>6. CASE Kubelet
  <2>1. /\ UNCHANGED <<job, claim, slice, earned>>
        /\ pod' \in {"running", "none"} /\ (pod' = "running" => pod = "pending")
    BY <1>6 DEF Kubelet
  <2> QED  BY <1>1, <1>2, <2>1 DEF FailureShown, Live
<1>7. CASE Workload
  <2>1. /\ UNCHANGED <<job, claim, slice>>
        /\ pod # "none" /\ pod' \in {"succeeded", "failed", "failing"}
    BY <1>7 DEF Workload, Live
  <2>2. /\ earned \subseteq earned'
        /\ job.alive /\ pod' = "succeeded" => "Succeeded" \in earned'
        /\ job.alive /\ pod' = "failed" => "Failed" \in earned'
    BY <1>7, EarnedGrows DEF Workload, JobInv, TypeOK
  <2> QED  BY <1>1, <1>2, <2>1, <2>2 DEF FailureShown, Live
<1>8. CASE GarbageCollector
  <2>1. UNCHANGED <<job, slice, earned>> /\ ~job.alive
    BY <1>8 DEF GarbageCollector
  <2>2. pod' = pod \/ pod' = DeletedPod(pod)
    BY <1>8 DEF GarbageCollector
  <2>3. (pod' \in Live => pod \in Live) /\ (pod = "none" => pod' = "none")
    BY <2>2, DeletedObjects DEF JobInv, TypeOK, Live, Dying
  <2> QED  BY <1>2, <2>1, <2>3
<1>9. CASE UserDeletes
  <2>1. /\ job' = NoJob \/ UNCHANGED <<job, earned>>
        /\ pod' = pod \/ pod' = DeletedPod(pod)
        /\ slice' = slice \/ slice' = DeletedSlice(slice)
        /\ claim' = claim \/ claim' = DeletedClaim(claim)
    BY <1>9 DEF UserDeletes
  <2>2. /\ pod' \in Live \cup Ended => pod' = pod
        /\ pod = "none" => pod' = "none"
    BY <2>1, DeletedObjects DEF JobInv, TypeOK, Live, Ended, Dying
  <2>3. slice'.phase = slice.phase /\ (claim'.phase = "Failed" => claim.phase = "Failed")
    BY <2>1, DeletedObjects DEF JobInv, TypeOK
  <2>4. job' = NoJob => job'.phase = "Pending" /\ ~job'.alive
    BY DEF NoJob, NewJob
  <2> QED  BY <1>1, <1>2, <2>1, <2>2, <2>3, <2>4 DEF FailureShown, Ended
<1> QED  BY <1>3, <1>4, <1>5, <1>6, <1>7, <1>8, <1>9 DEF Outside

LEMMA JobInvInit ==
    ASSUME Init
    PROVE  JobInv
<1>1. ~Terminal(job.phase)
  BY DEF Init, NewJob, Terminal
<1>2. jw.pc = "idle" /\ pod = "none"
  BY DEF Init, JobIdle
<1>3. ~FailureShown
  BY DEF Init, FailureShown, NewJob, NoSlice, NoClaim, ClaimIdle
<1> QED  BY <1>1, <1>2, <1>3, TypeInit
     DEF JobInv, PassSound, EndsIdle, IdleAtEnd, TerminalIdle, EndsEarned

LEMMA JobInvStep ==
    ASSUME JobInv, [Next]_vars
    PROVE  JobInv'
<1>1. TypeOK'
  BY TypeStep DEF JobInv
<1>2. CASE UNCHANGED vars
  BY <1>2 DEF vars, JobInv, TypeOK, PassSound, EndsIdle, IdleAtEnd, TerminalIdle,
     EndsEarned, FailureShown
<1>3. CASE JobWorker \/ ClaimWorker \/ SliceWorker \/ Outside
  BY <1>1, <1>3, SoundJobWorker, SoundClaimWorker, SoundSliceWorker, SoundOutside DEF JobInv
<1> QED  BY <1>2, <1>3, NextSplits

-----------------------------------------------------------------------------
(* The results.                                                            *)

(* What the job worker relies on between its calls is true in every state,   *)
(* whatever users, the scheduler, the node agent and failing calls do        *)
(* (Reconcile, reconcileWorkloadPod, createPod, updatePhase).                *)
THEOREM JobInvariant == Spec => []JobInv
<1>1. Init => JobInv
  BY JobInvInit
<1>2. JobInv /\ [Next]_vars => JobInv'
  BY JobInvStep
<1> QED  BY <1>1, <1>2, PTL DEF Spec

(* The objects and the workers of the three controllers have their types. *)
THEOREM JobTypeCorrect == Spec => []TypeOK
<1>1. JobInv => TypeOK
  BY DEF JobInv
<1> QED  BY <1>1, JobInvariant, PTL

(* releaseTerminalGrant gives the claim of a terminal job back without       *)
(* looking at the pod: by then no pod of the job waits or runs.              *)
THEOREM EndsAreIdle ==
    ASSUME Current
    PROVE  Spec => []TerminalIdle
<1>1. JobInv => TerminalIdle
  BY DEF JobInv, IdleAtEnd
<1> QED  BY <1>1, JobInvariant, PTL

(* A terminal job keeps its phase, and neither its claim nor its pod is      *)
(* created again: the pass that would do it began before and is still the    *)
(* only one.                                                                 *)
THEOREM NoJobResurrects ==
    ASSUME Current
    PROVE  Spec => NoResurrection
<1>1. ASSUME JobInv, [Next]_vars, Terminal(job.phase), job'.alive
      PROVE  /\ job'.phase = job.phase
             /\ claim.st = "none" => claim'.st = "none"
             /\ pod = "none" => pod' = "none"
  <2>1. CASE JobWorker
    <3>1. jw.pc \notin {"claim", "pod", "create", "write"}
      BY <1>1 DEF JobInv, PassSound
    <3>2. Reconcile \/ releaseTerminalGrant
      BY <2>1, <3>1 DEF JobWorker, ensureClaim, reconcileWorkloadPod, createPod, updatePhase
    <3> QED  BY <3>2 DEF Reconcile, releaseTerminalGrant, JobFrame, objects
  <2>2. CASE ClaimWorker
    <3>1. CASE ensureClaimFinalizer \/ syncClaimStatusFromSlice
      BY <3>1 DEF ensureClaimFinalizer, syncClaimStatusFromSlice, ClaimFrame
    <3>2. CASE reconcileClaim \/ checkOwner \/ ensureSliceExists \/ handleClaimDelete
      BY <3>2 DEF reconcileClaim, checkOwner, ensureSliceExists, handleClaimDelete, ClaimFrame,
         NoClaim
    <3> QED  BY <2>2, <3>1, <3>2 DEF ClaimWorker
  <2>3. CASE SliceWorker
    <3>1. CASE stampPreempted
      BY <1>1, <3>1 DEF stampPreempted, SliceFrame, JobInv, TypeOK, Job
    <3>2. CASE evictPreemptedWorkload
      BY <1>1, <3>2, DeletedObjects DEF evictPreemptedWorkload, SliceFrame, JobInv, TypeOK
    <3> QED  BY <2>3, <3>1, <3>2 DEF SliceWorker, resolveOwnerJob, anchorGrace,
             releasePreempted, handleDelete, PatchSliceStatus, SliceFrame, objects
  <2>4. CASE Outside
    <3>1. CASE mirrorEvictionToJob \/ clearEnforcement
      BY <1>1, <3>1 DEF mirrorEvictionToJob, clearEnforcement, JobInv, TypeOK, Job
    <3>2. CASE UserDeletes
      BY <1>1, <3>2 DEF UserDeletes, NoJob, NewJob, Live, Ended
    <3>3. CASE \/ SliceSteps \/ Preempt \/ RollBackPreemption \/ Evict
                \/ Kubelet \/ Workload \/ GarbageCollector
      BY <1>1, <3>3 DEF SliceSteps, Schedule, Allocate, Release, Preempt, RollBackPreemption,
         Evict, Kubelet, Workload, GarbageCollector, Live, Dying
    <3> QED  BY <2>4, <3>1, <3>2, <3>3 DEF Outside
  <2>5. CASE UNCHANGED vars
    BY <2>5 DEF vars
  <2> QED  BY <1>1, <2>1, <2>2, <2>3, <2>4, <2>5, NextSplits
<1>2. JobInv /\ [Next]_vars =>
        [Terminal(job.phase) /\ job'.alive =>
            /\ job'.phase = job.phase
            /\ claim.st = "none" => claim'.st = "none"
            /\ pod = "none" => pod' = "none"]_vars
  BY <1>1
<1> QED  BY <1>2, JobInvariant, PTL DEF Spec, NoResurrection

(* updatePhase ends a job as its workload ended, or as Failed because it was *)
(* preempted, evicted or never got its memory; a pod that is only deleted    *)
(* under the job does not end it.                                            *)
THEOREM OutcomesEarned == Spec => OutcomeEarned
<1>1. ASSUME JobInv, [Next]_vars, job'.phase # job.phase, Terminal(job'.phase)
      PROVE  job'.phase \in earned
  <2>1. CASE JobWorker
    <3>1. updatePhase
      BY <1>1, <2>1 DEF JobWorker, Reconcile, releaseTerminalGrant, ensureClaim,
         reconcileWorkloadPod, createPod, JobFrame, objects
    <3>2. jw.pc = "write" /\ job.alive /\ job'.phase = jw.want
      BY <1>1, <3>1 DEF updatePhase, JobInv, TypeOK, Job
    <3> QED  BY <1>1, <3>2 DEF JobInv, EndsEarned
  <2>2. CASE ~JobWorker
    <3>1. job'.phase = job.phase \/ job'.phase = "Pending"
      <4>1. CASE ClaimWorker
        BY <4>1 DEF ClaimWorker, reconcileClaim, ensureClaimFinalizer, checkOwner,
           ensureSliceExists, syncClaimStatusFromSlice, handleClaimDelete, ClaimFrame
      <4>2. CASE stampPreempted \/ mirrorEvictionToJob \/ clearEnforcement
        BY <1>1, <4>2 DEF stampPreempted, mirrorEvictionToJob, clearEnforcement, JobInv,
           TypeOK, Job
      <4>3. CASE SliceWorker /\ ~stampPreempted
        BY <4>3 DEF SliceWorker, resolveOwnerJob, anchorGrace, evictPreemptedWorkload,
           releasePreempted, handleDelete, PatchSliceStatus, objects
      <4>4. CASE UserDeletes
        BY <4>4 DEF UserDeletes, NoJob, NewJob
      <4>5. CASE \/ SliceSteps \/ Preempt \/ RollBackPreemption \/ Evict
                  \/ Kubelet \/ Workload \/ GarbageCollector
        BY <4>5 DEF SliceSteps, Schedule, Allocate, Release, Preempt, RollBackPreemption, Evict,
           Kubelet, Workload, GarbageCollector
      <4>6. CASE UNCHANGED vars
        BY <4>6 DEF vars
      <4> QED  BY <1>1, <2>2, <4>1, <4>2, <4>3, <4>4, <4>5, <4>6, NextSplits DEF Outside
    <3> QED  BY <1>1, <3>1 DEF Terminal
  <2> QED  BY <2>1, <2>2
<1>2. JobInv /\ [Next]_vars =>
        [job'.phase # job.phase /\ Terminal(job'.phase) => job'.phase \in earned]_vars
  BY <1>1
<1> QED  BY <1>2, JobInvariant, PTL DEF Spec, OutcomeEarned

=============================================================================
