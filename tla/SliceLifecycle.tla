--------------------------- MODULE SliceLifecycle ---------------------------
(***************************************************************************)
(* A slice from its bind to its removal, on one node: the node agent       *)
(* (internal/nodeagent/manager.go, reporter.go), whose worker moves the    *)
(* ledger, the CDI files, the checkpoint file and the slice's status one    *)
(* after the other, and the slice controller                               *)
(* (internal/controller/vgpuslice_reconciler.go), which owns the finalizer. *)
(* Each works on a copy of the object that it has read, and is a process of *)
(* its own; the scheduler binds, preempts and fails slices, users delete    *)
(* them, and the agent may die between any two of its steps.               *)
(***************************************************************************)
EXTENDS CardLedger

CONSTANTS
    NoSlice,     \* no UID
    Faults,      \* what may go wrong
    MaxFaults    \* bound: how often something goes wrong

(* crash: the agent dies.  apiError: a call to the API server fails.         *)
(* diskError: a write to the checkpoint or the CDI directory fails.          *)
(* sickCard: the driver does not show a card, or fails.  unreadable: the     *)
(* checkpoint file cannot be read when the agent starts, or it is spoilt and  *)
(* cannot be parsed from then on.                                            *)
Fault == {"crash", "apiError", "diskError", "sickCard", "unreadable"}

ASSUME LifecycleAssumption ==
    /\ NoSlice \notin Slice
    /\ Card \cap {"waiting", "ended"} = {}
    /\ MaxFaults \in Nat
    /\ Faults \subseteq Fault

VARIABLES
    obj,         \* the slice objects in the API server
    halfBound,   \* slices of which the scheduler has still to write the phase
    cdi,         \* CDI files, by <<slice, attempt>>
    store,       \* the records of the checkpoint file
    corrupt,     \* the checkpoint file cannot be parsed; nothing repairs it
    boot,        \* "restoring" the ledger, "up", or "down"
    agent,       \* the agent's worker: step, slice, the copy it read, attempt
    todo,        \* checkpoint records still to be restored
    drift,       \* the drift detector: has it loaded, and what is left to check
    faults,      \* how often something has gone wrong
    ctl          \* the slice controller's worker: step, slice, copy

vars == <<ledgerVars, obj, halfBound, cdi, store, corrupt, boot, agent, todo, drift,
          faults, ctl>>
diskVars == <<cdi, store>>
bootVars == <<boot, todo, drift, corrupt>>

Phase == {"Pending", "Scheduled", "Allocating", "Ready", "Preempting", "Releasing",
          "Released", "Failed"}

(* "" and Pending are one phase here: nobody tells them apart. *)
Object == [phase : Phase \cup {"Absent", "Gone"}, n : Nat, card : Card \cup {NoCard},
           bound : BOOLEAN, deleting : BOOLEAN, finalizer : BOOLEAN]

NewObject == [phase |-> "Pending", n |-> 0, card |-> NoCard,
              bound |-> FALSE, deleting |-> FALSE, finalizer |-> FALSE]
Absent == [NewObject EXCEPT !.phase = "Absent"]

AgentSteps == {"announce", "allocate", "cdi", "save", "ready", "fail",
               "recover", "teardown", "release", "delete", "report"}
CtlSteps == {"expire", "patch", "unfinalize", "finalize"}

AgentIdle == [pc |-> "idle", s |-> NoSlice, copy |-> Absent, n |-> 0]
CtlIdle == [pc |-> "idle", s |-> NoSlice, copy |-> Absent]

TypeOK ==
    /\ LedgerTypeOK
    /\ obj \in [Slice -> Object]
    /\ halfBound \in SUBSET Slice
    /\ cdi \in SUBSET (Slice \X Nat)
    /\ store \in SUBSET Allocation
    /\ corrupt \in BOOLEAN /\ (corrupt => "unreadable" \in Faults)
    /\ boot \in {"restoring", "up", "down"}
    /\ agent \in {AgentIdle} \cup [pc : AgentSteps, s : Slice, copy : Object, n : Nat]
    /\ todo \in SUBSET Allocation
    /\ drift \in [loaded : BOOLEAN, left : SUBSET Allocation]
    /\ faults \in 0..MaxFaults
    /\ ctl \in {CtlIdle} \cup [pc : CtlSteps, s : Slice, copy : Object]

Init ==
    /\ NewAllocator
    /\ attempts = [s \in Slice |-> 0]
    /\ obj = [s \in Slice |-> Absent]
    /\ halfBound = {} /\ cdi = {} /\ store = {} /\ corrupt = FALSE
    /\ boot = "up" /\ todo = {} /\ drift = [loaded |-> TRUE, left |-> {}]
    /\ agent = AgentIdle /\ faults = 0
    /\ ctl = CtlIdle

Live(s) == obj[s].phase \in Phase

Fails(fault) == fault \in Faults /\ faults < MaxFaults /\ faults' = faults + 1
Works == UNCHANGED faults

(* A write of the checkpoint file, which a file that cannot be parsed refuses. *)
StoreFails == (corrupt /\ Works) \/ Fails("diskError")

(* A write by Update carries the version that was read: it is refused if the *)
(* object has changed since or is gone, or if the call fails. Equal copies    *)
(* stand for equal versions.                                                  *)
Update(s, copy, new) == obj[s] = copy /\ obj' = [obj EXCEPT ![s] = new] /\ Works
Refused(s, copy) ==
    /\ (obj[s] # copy /\ Works) \/ Fails("apiError")
    /\ UNCHANGED obj

(* A patch, or an update of a copy just read, reaches the object as it is. *)
Patch(s, new) == Live(s) /\ obj' = [obj EXCEPT ![s] = new] /\ Works
NotPatched(s) ==
    /\ (~Live(s) /\ Works) \/ Fails("apiError")
    /\ UNCHANGED obj

-----------------------------------------------------------------------------
(* The node agent's worker. An error ends the reconcile; the queue brings   *)
(* the slice back.                                                         *)

Agent(pc) == boot = "up" /\ agent.pc = pc
AgentGoes(pc) == agent' = [agent EXCEPT !.pc = pc]
AgentStops == agent' = AgentIdle

AgentFrame == UNCHANGED <<halfBound, bootVars, ctl>>

(* Mutant: an allocation announced and cut short is not taken up again. *)
ScheduledOnly == {"Scheduled"}

(* The phases in which a slice awaits its allocation. *)
Unallocated == {"Scheduled", "Allocating"}

AgentRead(s) ==
    /\ Agent("idle")
    /\ Live(s) /\ obj[s].bound
    /\ \E pc \in {"announce", "teardown", "recover"} :
          /\ LET o == obj[s]
                 releasing == o.deleting \/ o.phase = "Releasing" IN
             CASE pc = "announce" -> ~o.deleting /\ o.phase \in Unallocated
               [] pc = "teardown" -> releasing /\ o.n # 0
               [] pc = "recover"  -> releasing /\ o.n = 0
          /\ agent' = [pc |-> pc, s |-> s, copy |-> obj[s], n |-> obj[s].n]
    /\ Works /\ UNCHANGED <<ledgerVars, obj, diskVars>> /\ AgentFrame

(* TransitionToAllocating writes even when the phase is Allocating already.  *)
TransitionToAllocating ==
    /\ Agent("announce")
    /\ LET new == [agent.copy EXCEPT !.phase = "Allocating"] IN
       \/ Update(agent.s, agent.copy, new)
          /\ agent' = [agent EXCEPT !.pc = "allocate", !.copy = new]
       \/ Refused(agent.s, agent.copy) /\ AgentStops
    /\ UNCHANGED <<ledgerVars, diskVars>> /\ AgentFrame

(* Allocator.Allocate: the allocation the slice has, else a new one on a     *)
(* card that fits best; a slice that fits on no card it sees fails for good. *)
AllocateCard ==
    /\ Agent("allocate")
    /\ LET s == agent.s IN
       \/ /\ bySlice[s] # 0
          /\ agent' = [agent EXCEPT !.pc = "cdi", !.n = bySlice[s]]
          /\ Works /\ UNCHANGED ledgerVars
       \/ /\ bySlice[s] = 0
          /\ \E visible \in SUBSET Card \ {{}} :
                /\ (visible = Card /\ Works) \/ (visible # Card /\ Fails("sickCard"))
                /\ \/ \E c \in BestFit(s, visible) :
                         /\ Allocate(s, c)
                         /\ agent' = [agent EXCEPT !.pc = "cdi", !.n = attempts[s] + 1]
                   \/ Fitting(s, visible) = {} /\ AgentGoes("fail") /\ UNCHANGED ledgerVars
       \/ Fails("sickCard") /\ AgentStops /\ UNCHANGED ledgerVars
    /\ UNCHANGED <<obj, diskVars>> /\ AgentFrame

GenerateFirewall ==
    /\ Agent("cdi")
    /\ \/ cdi' = cdi \cup {<<agent.s, agent.n>>} /\ AgentGoes("save") /\ Works
       \/ Fails("diskError") /\ AgentStops /\ UNCHANGED cdi
    /\ UNCHANGED <<ledgerVars, obj, store>> /\ AgentFrame

SaveCheckpoint ==
    /\ Agent("save")
    /\ \/ /\ ~corrupt /\ store' = store \cup Numbered(agent.s, agent.n)
          /\ AgentGoes("ready") /\ Works
       \/ StoreFails /\ AgentStops /\ UNCHANGED store
    /\ UNCHANGED <<ledgerVars, obj, cdi>> /\ AgentFrame

ReportAllocationReady ==
    /\ Agent("ready")
    /\ \E a \in Numbered(agent.s, agent.n) :
          \/ Update(agent.s, agent.copy,
                    [agent.copy EXCEPT !.phase = "Ready", !.n = a.n, !.card = a.card])
          \/ Refused(agent.s, agent.copy)
    /\ AgentStops
    /\ UNCHANGED <<ledgerVars, diskVars>> /\ AgentFrame

ReportAllocationFailed ==
    /\ Agent("fail")
    /\ \/ Update(agent.s, agent.copy, [agent.copy EXCEPT !.phase = "Failed"])
       \/ Refused(agent.s, agent.copy)
    /\ AgentStops
    /\ UNCHANGED <<ledgerVars, diskVars>> /\ AgentFrame

(* Mutant: a status without an allocation is taken for a ledger without one. *)
RecoverNothing ==
    /\ Agent("recover") /\ AgentGoes("report")
    /\ Works /\ UNCHANGED <<ledgerVars, obj, diskVars>> /\ AgentFrame

(* The release path of a slice whose status has no allocation: what the      *)
(* ledger has for it is released first, then its files.                      *)
RecoverWedged ==
    /\ Agent("recover")
    /\ \/ bySlice[agent.s] = 0 /\ AgentGoes("report") /\ UNCHANGED ledgerVars
       \/ /\ bySlice[agent.s] # 0
          /\ Release(agent.s, bySlice[agent.s])
          /\ agent' = [agent EXCEPT !.pc = "teardown", !.n = bySlice[agent.s]]
    /\ Works /\ UNCHANGED <<obj, diskVars>> /\ AgentFrame

TeardownFirewall ==
    /\ Agent("teardown")
    /\ \/ /\ cdi' = cdi \ {<<agent.s, agent.n>>}
          /\ AgentGoes(IF agent.copy.n # 0 THEN "release" ELSE "delete") /\ Works
       \/ Fails("diskError") /\ AgentStops /\ UNCHANGED cdi
    /\ UNCHANGED <<ledgerVars, obj, store>> /\ AgentFrame

ReleaseCard ==
    /\ Agent("release")
    /\ Release(agent.s, agent.n)
    /\ AgentGoes("delete")
    /\ Works /\ UNCHANGED <<obj, diskVars>> /\ AgentFrame

DeleteCheckpoint ==
    /\ Agent("delete")
    /\ \/ /\ ~corrupt /\ store' = {a \in store : ~(a.s = agent.s /\ a.n = agent.n)}
          /\ AgentGoes("report") /\ Works
       \/ StoreFails /\ AgentStops /\ UNCHANGED store
    /\ UNCHANGED <<ledgerVars, obj, cdi>> /\ AgentFrame

(* ReportReleaseComplete: a slice that is Released already is left alone; the *)
(* state machine has no way from Preempting to Releasing, which is an error.  *)
ReportReleaseComplete ==
    /\ Agent("report")
    /\ \/ agent.copy.phase \in {"Released", "Preempting"} /\ UNCHANGED obj /\ Works
       \/ /\ agent.copy.phase \notin {"Released", "Preempting"}
          /\ \/ Update(agent.s, agent.copy,
                       [agent.copy EXCEPT !.phase = "Released", !.n = 0, !.card = NoCard])
             \/ Refused(agent.s, agent.copy)
    /\ AgentStops
    /\ UNCHANGED <<ledgerVars, diskVars>> /\ AgentFrame

AgentStep ==
    \/ TransitionToAllocating \/ AllocateCard \/ GenerateFirewall \/ SaveCheckpoint
    \/ ReportAllocationReady \/ ReportAllocationFailed
    \/ RecoverWedged \/ TeardownFirewall \/ ReleaseCard \/ DeleteCheckpoint
    \/ ReportReleaseComplete

-----------------------------------------------------------------------------
(* The death of the agent, and its start.                                  *)

Crash ==
    /\ boot # "down"
    /\ Fails("crash")
    /\ boot' = "down" /\ todo' = {} /\ drift' = [loaded |-> TRUE, left |-> {}]
    /\ agent' = AgentIdle
    /\ committed' = [c \in Card |-> 0] /\ byAlloc' = {} /\ bySlice' = [s \in Slice |-> 0]
    /\ UNCHANGED <<attempts, obj, halfBound, diskVars, corrupt, ctl>>

(* NewManager loads the checkpoint file and puts its records back, in some   *)
(* order; a file that cannot be read is logged and leaves the ledger empty.  *)
Start ==
    /\ boot = "down"
    /\ boot' = "restoring"
    /\ \/ ~corrupt /\ todo' = store /\ Works
       \/ todo' = {} /\ ((corrupt /\ Works) \/ Fails("unreadable"))
    /\ UNCHANGED <<ledgerVars, obj, halfBound, diskVars, corrupt, agent, drift, ctl>>

Restore ==
    /\ boot = "restoring"
    /\ \/ \E a \in todo : /\ RestoreAllocation(a)
                          /\ todo' = todo \ {a}
                          /\ UNCHANGED <<boot, drift>>
       \/ /\ todo = {}
          /\ boot' = "up" /\ drift' = [loaded |-> FALSE, left |-> {}]
          /\ UNCHANGED <<ledgerVars, todo>>
    /\ UNCHANGED <<obj, halfBound, diskVars, corrupt, agent, faults, ctl>>

(* DetectAndHeal, once per start, beside the worker: a checkpoint record     *)
(* whose slice is not in the API is deleted; an error leaves it.             *)
LoadDrift ==
    /\ boot = "up" /\ ~drift.loaded
    /\ drift' = [loaded |-> TRUE, left |-> IF corrupt THEN {} ELSE store]
    /\ UNCHANGED <<ledgerVars, obj, halfBound, diskVars, corrupt, boot, todo, agent, faults, ctl>>

HealDrift(a) ==
    /\ a \in drift.left
    /\ drift' = [drift EXCEPT !.left = @ \ {a}]
    /\ \/ ~Live(a.s) /\ ~corrupt /\ store' = store \ {a} /\ Works
       \/ Live(a.s) /\ UNCHANGED store /\ Works
       \/ (Fails("apiError") \/ StoreFails) /\ UNCHANGED store
    /\ UNCHANGED <<ledgerVars, obj, halfBound, cdi, corrupt, boot, todo, agent, ctl>>

(* The checkpoint file is spoilt: from now on it is neither loaded nor       *)
(* written, "refusing to overwrite existing unparseable checkpoint".         *)
CorruptCheckpoint ==
    /\ ~corrupt /\ corrupt' = TRUE
    /\ Fails("unreadable")
    /\ UNCHANGED <<ledgerVars, obj, halfBound, diskVars, boot, todo, drift, agent, ctl>>

-----------------------------------------------------------------------------
(* The slice controller's worker.                                          *)

CtlFrame == UNCHANGED <<ledgerVars, halfBound, diskVars, bootVars, agent>>

(* Mutant: an orphan in Releasing waits for an agent that does not know it. *)
NeverBoundPending(o) == o.n = 0 /\ o.phase = "Pending"

NeverBound(o) == o.n = 0 /\ o.phase \in {"Pending", "Releasing", "Scheduled"}

CtlRead(s) ==
    /\ ctl.pc = "idle"
    /\ Live(s)
    /\ \E pc \in CtlSteps :
          /\ LET o == obj[s] IN
             CASE pc = "expire"     -> o.phase = "Preempting"
               [] pc = "unfinalize" -> o.deleting /\ (NeverBound(o) \/ o.phase = "Released")
               [] pc = "patch"      -> /\ o.deleting /\ ~NeverBound(o)
                                       /\ o.phase \notin {"Preempting", "Releasing", "Released"}
               [] pc = "finalize"   -> o.phase # "Preempting" /\ ~o.deleting /\ ~o.finalizer
          /\ ctl' = [pc |-> pc, s |-> s, copy |-> obj[s]]
    /\ Works /\ UNCHANGED obj /\ CtlFrame

(* The grace period of a preempted slice is over and its pod is evicted. *)
ExpirePreemption ==
    /\ ctl.pc = "expire"
    /\ \/ Update(ctl.s, ctl.copy, [ctl.copy EXCEPT !.phase = "Releasing"])
       \/ Refused(ctl.s, ctl.copy)
    /\ ctl' = CtlIdle
    /\ CtlFrame

(* PatchSliceStatus: the patch is the difference to the status read, and no  *)
(* version goes with it: whatever the phase is now becomes Releasing.        *)
PatchReleasing ==
    /\ ctl.pc = "patch"
    /\ Patch(ctl.s, [obj[ctl.s] EXCEPT !.phase = "Releasing"]) \/ NotPatched(ctl.s)
    /\ ctl' = CtlIdle
    /\ CtlFrame

(* The finalizer is put on and taken off a fresh copy, retried on conflict;  *)
(* a deleted object without it is gone.                                      *)
RemoveFinalizer ==
    /\ ctl.pc = "unfinalize"
    /\ \/ Patch(ctl.s, [obj[ctl.s] EXCEPT !.finalizer = FALSE, !.phase = "Gone"])
       \/ NotPatched(ctl.s)
    /\ ctl' = CtlIdle
    /\ CtlFrame

EnsureFinalizer ==
    /\ ctl.pc = "finalize"
    /\ Patch(ctl.s, [obj[ctl.s] EXCEPT !.finalizer = TRUE]) \/ NotPatched(ctl.s)
    /\ ctl' = CtlIdle
    /\ CtlFrame

CtlStep == ExpirePreemption \/ PatchReleasing \/ RemoveFinalizer \/ EnsureFinalizer

-----------------------------------------------------------------------------
(* The scheduler, the claim controller and users.                          *)

Others == UNCHANGED <<ledgerVars, diskVars, bootVars, agent, faults, ctl>>

CreateSlice(s) ==
    /\ obj[s] = Absent
    /\ obj' = [obj EXCEPT ![s] = NewObject]
    /\ UNCHANGED halfBound /\ Others

(* The bind is two patches: the node, then the phase, over whatever it is. *)
BindNode(s) ==
    /\ obj[s].phase = "Pending" /\ ~obj[s].bound
    /\ obj' = [obj EXCEPT ![s].bound = TRUE]
    /\ halfBound' = halfBound \cup {s}
    /\ Others

BindPhase(s) ==
    /\ s \in halfBound
    /\ halfBound' = halfBound \ {s}
    /\ obj' = IF Live(s) THEN [obj EXCEPT ![s].phase = "Scheduled"] ELSE obj
    /\ Others

(* The scheduler marks a member of a dead gang. *)
FailOrphan(s) ==
    /\ obj[s].phase = "Pending" /\ ~obj[s].bound
    /\ obj' = [obj EXCEPT ![s].phase = "Failed"]
    /\ UNCHANGED halfBound /\ Others

(* A victim of preemption is marked, and rolled back if the next one cannot be. *)
Preempt(s) ==
    /\ obj[s].phase = "Ready"
    /\ obj' = [obj EXCEPT ![s].phase = "Preempting"]
    /\ UNCHANGED halfBound /\ Others

RollBackPreemption(s) ==
    /\ obj[s].phase = "Preempting"
    /\ obj' = [obj EXCEPT ![s].phase = "Ready"]
    /\ Fails("apiError")
    /\ UNCHANGED <<halfBound, ledgerVars, diskVars, bootVars, agent, ctl>>

DeleteSlice(s) ==
    /\ Live(s) /\ ~obj[s].deleting
    /\ obj' = [obj EXCEPT ![s].deleting = TRUE,
                          ![s].phase = IF obj[s].finalizer THEN @ ELSE "Gone"]
    /\ UNCHANGED halfBound /\ Others

Environment ==
    \E s \in Slice : \/ CreateSlice(s) \/ BindNode(s) \/ BindPhase(s) \/ FailOrphan(s)
                     \/ Preempt(s) \/ RollBackPreemption(s) \/ DeleteSlice(s)

Boot == Start \/ Restore \/ LoadDrift

Next ==
    \/ \E s \in Slice : AgentRead(s) \/ CtlRead(s)
    \/ AgentStep \/ CtlStep
    \/ Boot \/ (\E a \in drift.left : HealDrift(a)) \/ Crash \/ CorruptCheckpoint
    \/ Environment

Spec == Init /\ [][Next]_vars

(* The workers go on, their queues are fair to every slice, the agent is     *)
(* started again, the scheduler finishes its binds.                          *)
FairSpec ==
    /\ Spec
    /\ WF_vars(AgentStep) /\ WF_vars(CtlStep) /\ WF_vars(Boot)
    /\ \A s \in Slice : SF_vars(AgentRead(s)) /\ SF_vars(CtlRead(s)) /\ WF_vars(BindPhase(s))

-----------------------------------------------------------------------------
(* Properties.                                                             *)

(* A slice that may run on its card: Ready, or in its preemption grace.    *)
Granted(s) == obj[s].phase \in {"Ready", "Preempting"} /\ ~obj[s].deleting

(* What is promised to a slice: nothing yet, its card, or nothing any more. *)
GrantOf(s) ==
    IF Granted(s) THEN obj[s].card
    ELSE IF /\ obj[s].phase \in {"Absent", "Pending", "Scheduled", "Allocating"}
            /\ ~obj[s].deleting
      THEN "waiting" ELSE "ended"

grants == [s \in Slice |-> GrantOf(s)]

(* What the node agent promises (see CardGrants): one card per slice, kept   *)
(* until the slice is given up, and no card beyond what it has.              *)
Promise == INSTANCE CardGrants WITH grant <- grants

(* The slices and their agent implement the promise: retries, conflicts,     *)
(* failed writes and the death of the agent neither move a slice to another  *)
(* card nor promise a card twice.                                            *)
KeepsPromise == Promise!Spec

(* What a slice was granted is in the ledger, in the checkpoint file and in  *)
(* the CDI directory, whatever steps a crash or an error has cut short.      *)
GrantBacked ==
    \A s \in Slice : Granted(s) =>
        LET a == [s |-> s, n |-> obj[s].n, card |-> obj[s].card] IN
        /\ a \in store /\ <<s, obj[s].n>> \in cdi
        /\ boot = "up" => a \in byAlloc /\ bySlice[s] = obj[s].n

(* The bytes promised on a card are those of the allocations on it.        *)
LedgerExact == \A c \in Card : committed[c] = Bytes[{a.s : a \in {b \in byAlloc : b.card = c}}]

(* A slice that the agent has reported Released holds nothing: no bytes of a *)
(* card, and no checkpoint that would take them again after a restart.       *)
ReleasedClean ==
    \A s \in Slice : obj[s].phase = "Released" =>
        \A a \in byAlloc \cup store : a.s # s

(* A slice that was bound gets a card or fails, unless it is deleted, or the *)
(* checkpoint file is spoilt: the code then fails the node's every           *)
(* allocation, for ever.                                                     *)
Settled ==
    \A s \in Slice :
        obj[s].phase = "Scheduled" ~>
            obj[s].deleting \/ corrupt \/ obj[s].phase \notin {"Scheduled", "Allocating"}

(* A deleted slice goes: the finalizer does not stay for ever, unless the    *)
(* checkpoint file is spoilt and no record of it can be deleted.             *)
Cleared ==
    \A s \in Slice : Live(s) /\ obj[s].deleting ~> corrupt \/ obj[s].phase = "Gone"

=============================================================================
