----------------------------- MODULE Admission -----------------------------
(***************************************************************************)
(* Who is let in, and who has to go: the scheduler's one worker takes      *)
(* slices of one namespace from its priority queue (internal/scheduler/    *)
(* priorityqueue), weighs them against the quota (quota.go) and the free   *)
(* memory, and preempts slices of lower priority (preemptor.go). Reads go  *)
(* through the informer and may be old; a write based on an old read is    *)
(* refused where the code asks for that.                                   *)
(*                                                                         *)
(* There is one node. Holds are what they are in VRAMCache, the gate of a  *)
(* gang lets its members pass when all of them hold (see GangGate).        *)
(***************************************************************************)
EXTENDS Integers, FiniteSets, FiniteSetsExt

CONSTANTS
    Slice,
    Priority,     \* of the slice's job
    Preemptible,  \* the slices whose job is preemptible
    Gap,          \* PreemptionPriorityGap
    Grace,        \* the grace period of a slice's job, in units of time
    Floor,        \* PreemptionInFlightWindow
    Buffer,       \* what effectiveInFlightWindow adds to the grace period
    Settings,     \* the quotas, capacities, requests, gangs, running slices and
                  \* faults (see Fault) to look at
    MaxFaults     \* bound: how often

(* apiError: a write fails.  delete: a user deletes a slice.  release: a job  *)
(* ends.  reap: the hold of a gang member expires.  walk: the node's slices   *)
(* are promoted between the two reads of the quota check.                    *)
Fault == {"apiError", "delete", "release", "reap", "walk"}

Nobody == "nobody"

ASSUME AdmissionAssumption ==
    /\ IsFiniteSet(Slice) /\ Nobody \notin Slice
    /\ Priority \in [Slice -> Nat] /\ Preemptible \subseteq Slice
    /\ Grace \in [Slice -> Nat \ {0}] /\ Gap \in Nat
    /\ Floor \in Nat \ {0} /\ Buffer \in Nat \ {0}
    /\ \A e \in Settings :
          /\ e.quota \in Nat /\ e.capacity \in Nat
          /\ e.req \in [Slice -> Nat \ {0}]
          /\ e.gang \subseteq Slice /\ e.running \subseteq Slice
          /\ e.faults \subseteq Fault
    /\ MaxFaults \in Nat

VARIABLES
    setting,  \* the quota, the capacity of the node, the requests, the gang,
              \* what runs at first, what may go wrong
    phase,    \* the slices
    stamp,    \* the age of the annotation preemption-triggered-at
    since,    \* the age of the condition Preempting, and by whom it is
    by,
    seen,     \* the slices in the informer, and whether that is the latest
    fresh,
    hold,     \* the scheduler's ledger
    cooled,   \* the claims that are in cooldown
    heap,     \* the queue: what waits, what is to be added again after Done,
    again,    \* and what an AddAfter is under way for
    timer,
    w,        \* the worker: its slice, what its quota check has counted, the
              \* victims it has still to mark and those it has marked
    faults

api == <<phase, stamp, since, by>>
queue == <<heap, again, timer>>
vars == <<setting, api, seen, fresh, hold, cooled, queue, w, faults>>

Unset == -1
Bound == {"Scheduled", "Ready", "Preempting", "Releasing"}

(* "Assigned" is the state between the two patches of a bind: spec.nodeName   *)
(* is set and the phase still Pending. Elsewhere "Pending" is without a node. *)
Phase == {"none", "Pending", "Assigned", "Released"} \cup Bound
Held == {"assumed", "confirmed", "allocated"}

Req(s) == setting.req[s]
Bytes(S) == MapThenSumSet(Req, S)
Gang(s) == IF s \in setting.gang THEN setting.gang ELSE {s}

(* Mutant: a fixed window, whatever the grace periods. *)
FixedWindow == Floor

(* effectiveInFlightWindow: the longest grace period and a buffer, not less   *)
(* than the floor.                                                           *)
Window ==
    LET longest == Max({Grace[v] : v \in Preemptible} \cup {1}) + Buffer
    IN IF longest > Floor THEN longest ELSE Floor

(* The type of the slices, the ledger and the worker; what is marked by the   *)
(* worker is no longer to be marked, and only an assumed slice is bound.      *)
TypeOK ==
    /\ setting \in Settings
    /\ phase \in [Slice -> Phase] /\ seen \in [Slice -> Phase]
    /\ stamp \in [Slice -> Unset..Window]
    /\ since \in [Slice -> Unset..(Max({Grace[v] : v \in Slice}) + Buffer - 1)]
    /\ \A v \in Slice : (since[v] # Unset) <=> (phase[v] = "Preempting")
    /\ by \in [Slice -> Slice \cup {Nobody}]
    /\ fresh \in [Slice -> BOOLEAN]
    /\ hold \in [Slice -> Held \cup {"none"}]
    /\ cooled \subseteq Slice
    /\ heap \subseteq Slice /\ again \subseteq Slice /\ timer \subseteq Slice
    /\ w \in [pc : {"idle", "quota", "own", "select", "mark", "rollback",
                     "bindSpec", "bindStatus", "done"},
              slice : Slice \cup {Nobody}, used : Nat, counted : SUBSET Slice,
              todo : SUBSET Slice, marked : SUBSET Slice]
    /\ w.todo \cap w.marked = {}
    /\ w.pc \in {"bindSpec", "bindStatus"} => hold[w.slice] = "assumed"
    /\ faults \in 0..MaxFaults

Idle == [pc |-> "idle", slice |-> Nobody, used |-> 0, counted |-> {}, todo |-> {},
         marked |-> {}]

Init ==
    /\ setting \in Settings
    /\ phase = [s \in Slice |-> IF s \in setting.running THEN "Ready" ELSE "none"]
    /\ seen = phase
    /\ stamp = [s \in Slice |-> Unset] /\ since = stamp
    /\ by = [s \in Slice |-> Nobody]
    /\ fresh = [s \in Slice |-> TRUE]
    /\ hold = [s \in Slice |-> IF s \in setting.running THEN "allocated" ELSE "none"]
    /\ cooled = {} /\ heap = {} /\ again = {} /\ timer = {}
    /\ w = Idle
    /\ faults = 0

GoesWrong(f) == f \in setting.faults /\ faults < MaxFaults /\ faults' = faults + 1

(* A write is refused for that reason, or fails. *)
Fails(refused) == (refused /\ UNCHANGED faults) \/ GoesWrong("apiError")

-----------------------------------------------------------------------------
(* The queue.                                                              *)

(* Add: a slice that is being worked on is added again later. *)
Add(s) == IF s = w.slice THEN again' = again \cup {s} /\ UNCHANGED heap
                         ELSE heap' = heap \cup {s} /\ UNCHANGED again

(* Get takes a slice of the highest priority. *)
Get(s) == s \in heap /\ (\A t \in heap : Priority[t] <= Priority[s]) /\ heap' = heap \ {s}

Done ==
    /\ w.pc = "done"
    /\ heap' = heap \cup (again \cap {w.slice})
    /\ again' = again \ {w.slice}
    /\ w' = Idle
    /\ UNCHANGED <<setting, api, seen, fresh, hold, cooled, timer, faults>>

(* AddAfter fires. (The delays are long against the worker's passes: what is  *)
(* queued is done before.)                                                   *)
Fire(s) ==
    /\ w.pc = "idle" /\ heap = {}
    /\ s \in timer
    /\ timer' = timer \ {s}
    /\ Add(s)
    /\ UNCHANGED <<setting, api, seen, fresh, hold, cooled, w, faults>>

(* Mutant: the pass is over, and only an event brings the slice back. *)
RetryOnEvent == w' = [w EXCEPT !.pc = "done"] /\ UNCHANGED timer

(* The pass is over, and is to be repeated. *)
Retry == w' = [w EXCEPT !.pc = "done"] /\ timer' = timer \cup {w.slice}

-----------------------------------------------------------------------------
(* One pass.                                                               *)

PassFrame == UNCHANGED <<setting, seen, heap, again>>
Continue(pc) == w' = [w EXCEPT !.pc = pc] /\ UNCHANGED timer

(* What the informer shows of a slice is brought into the ledger; a slice that*)
(* is pending and has no node goes on, and the quota check lists what it can  *)
(* see: what has a node counts, without the slice's own gang.                *)
Reconcile ==
    /\ w.pc = "idle"
    /\ \E s \in Slice :
          LET own    == Gang(s) \cap setting.gang
              others == {u \in Slice : seen[u] \in Bound \cup {"Assigned"}} \ own
          IN /\ Get(s)
             /\ hold' = CASE seen[s] = "Ready"                -> [hold EXCEPT ![s] = "allocated"]
                          [] seen[s] \in {"Released", "none"} -> [hold EXCEPT ![s] = "none"]
                          [] OTHER                            -> hold
             /\ w' = IF seen[s] # "Pending" THEN [Idle EXCEPT !.pc = "done", !.slice = s]
                     ELSE [Idle EXCEPT !.pc = "quota", !.slice = s, !.used = Bytes(others),
                              !.counted = others \cup own \cup {u \in Slice : seen[u] = "Released"}]
    /\ UNCHANGED <<setting, api, seen, fresh, cooled, again, timer, faults>>

(* Mutant: only what the informer shows counts. *)
PendingNothing == 0

(* PendingNamespaceBytes: what the ledger holds and the list did not have. *)
PendingNamespaceBytes ==
    Bytes({u \in Slice : hold[u] \in {"assumed", "confirmed"} /\ u \notin w.counted})

(* The quota: a gang is weighed as a whole. *)
Check == w.used + PendingNamespaceBytes + Bytes(Gang(w.slice)) <= setting.quota

Free == setting.capacity - Bytes({u \in Slice : hold[u] \in Held})

(* If the quota allows, a hold that is there is used again; otherwise memory  *)
(* is reserved, if there is enough and none is booked for it already. A       *)
(* member of a gang keeps it until all members hold. Without enough memory    *)
(* another one tries to preempt.                                              *)
Schedule ==
    /\ w.pc = "quota"
    /\ LET s == w.slice
           passes == \A u \in Gang(s) \ {s} : hold[u] # "none"
           fits == hold[s] = "assumed" \/ (hold[s] = "none" /\ Free >= Req(s))
       IN \/ /\ Check /\ fits
             /\ hold' = [hold EXCEPT ![s] = "assumed"]
             /\ IF passes THEN Continue("bindSpec") ELSE Retry
          \/ /\ ~(Check /\ fits)
             /\ IF Check /\ hold[s] # "assumed" /\ Free < Req(s) /\ s \notin setting.gang
                THEN Continue("own") ELSE Retry
             /\ UNCHANGED hold
    /\ UNCHANGED <<api, fresh, cooled, faults>> /\ PassFrame

(* Without a bind the hold is given back. *)
NotBound(refused) ==
    /\ Fails(refused)
    /\ hold' = [hold EXCEPT ![w.slice] = "none"]
    /\ Retry
    /\ UNCHANGED <<phase, fresh>>

(* bindToKubernetesAPI patches the slice twice, whatever its version, if it    *)
(* exists: first the node,                                                    *)
BindSpec ==
    /\ w.pc = "bindSpec"
    /\ \/ /\ phase[w.slice] \in {"Pending", "Assigned"}
          /\ phase' = [phase EXCEPT ![w.slice] = "Assigned"]
          /\ fresh' = [fresh EXCEPT ![w.slice] = @ /\ phase[w.slice] = "Assigned"]
          /\ Continue("bindStatus")
          /\ UNCHANGED <<hold, faults>>
       \/ NotBound(phase[w.slice] = "none")
    /\ UNCHANGED <<stamp, since, by, cooled>> /\ PassFrame

(* then the phase. If that fails the slice is left with a node and Pending.   *)
BindStatus ==
    /\ w.pc = "bindStatus"
    /\ \/ /\ phase[w.slice] = "Assigned"
          /\ phase' = [phase EXCEPT ![w.slice] = "Scheduled"]
          /\ fresh' = [fresh EXCEPT ![w.slice] = FALSE]
          /\ hold' = [hold EXCEPT ![w.slice] = "confirmed"]
          /\ Continue("done")
          /\ UNCHANGED faults
       \/ NotBound(phase[w.slice] = "none")
    /\ UNCHANGED <<stamp, since, by, cooled>> /\ PassFrame

-----------------------------------------------------------------------------
(* The preemptor.                                                          *)

(* claimPlanOwnership: the plan is the requester's once its stamp is written; *)
(* a stamp that is younger than the window, or an old read, gives it up.      *)
claimPlanOwnership ==
    /\ w.pc = "own"
    /\ \/ /\ fresh[w.slice] /\ phase[w.slice] # "none"
          /\ stamp[w.slice] \in {Unset, Window}
          /\ stamp' = [stamp EXCEPT ![w.slice] = 0]
          /\ fresh' = [fresh EXCEPT ![w.slice] = FALSE]
          /\ Continue("select")
          /\ UNCHANGED faults
       \/ /\ Fails(\/ ~fresh[w.slice] \/ phase[w.slice] = "none"
                   \/ stamp[w.slice] \notin {Unset, Window})
          /\ Retry
          /\ UNCHANGED <<stamp, fresh>>
    /\ UNCHANGED <<phase, since, by, hold, cooled>> /\ PassFrame

Candidates(s) ==
    {v \in Slice \ {s} : /\ seen[v] = "Ready"
                         /\ v \in Preemptible \ setting.gang
                         /\ Priority[s] - Priority[v] >= Gap
                         /\ {s, v} \cap cooled = {}}

Before(u, v) == \/ Priority[u] < Priority[v]
                \/ Priority[u] = Priority[v] /\ Req(u) < Req(v)

(* The smallest victim that is enough, or else the first ones in the order of *)
(* Before that are enough together; the age breaks ties.                     *)
Plans(s) ==
    LET C      == Candidates(s)
        single == {v \in C : Req(v) >= Req(s)}
        Enough(P) == Bytes(P) >= Req(s)
    IN IF single # {}
       THEN {{v} : v \in {u \in single : \A x \in single :
                             /\ Req(u) <= Req(x)
                             /\ Req(u) = Req(x) => ~Before(x, u)}}
       ELSE {P \in SUBSET C :
                /\ Enough(P)
                /\ \A u \in P, x \in C \ P : ~Before(x, u)
                /\ \E u \in P : ~Enough(P \ {u}) /\ \A x \in P : ~Before(u, x)}

TryPreempt ==
    /\ w.pc = "select"
    /\ \/ Plans(w.slice) = {} /\ Retry
       \/ \E P \in Plans(w.slice) :
             w' = [w EXCEPT !.pc = "mark", !.todo = P] /\ UNCHANGED timer
    /\ UNCHANGED <<api, fresh, hold, cooled, faults>> /\ PassFrame

(* Whose victim it is, as long as that slice is there. *)
Requester == IF phase[w.slice] = "none" THEN Nobody ELSE w.slice

(* markVictimsPreempting, victim by victim. One that the informer shows in    *)
(* another phase is passed over; a refused or failing write ends it.          *)
markVictimsPreempting ==
    /\ w.pc = "mark"
    /\ \E v \in w.todo :
          \/ /\ w' = [w EXCEPT !.todo = @ \ {v}, !.marked = @ \cup {v}]
             /\ \/ /\ seen[v] = "Ready" /\ fresh[v]
                   /\ phase' = [phase EXCEPT ![v] = "Preempting"]
                   /\ since' = [since EXCEPT ![v] = 0]
                   /\ by' = [by EXCEPT ![v] = Requester]
                   /\ fresh' = [fresh EXCEPT ![v] = FALSE]
                \/ seen[v] \notin {"Ready", "none"} /\ UNCHANGED <<phase, since, by, fresh>>
             /\ UNCHANGED faults
          \/ /\ seen[v] \in {"Ready", "none"}
             /\ Fails(~fresh[v] \/ seen[v] = "none")
             /\ w' = [w EXCEPT !.pc = "rollback", !.todo = {}]
             /\ UNCHANGED <<phase, since, by, fresh>>
    /\ UNCHANGED <<stamp, hold, cooled, timer>> /\ PassFrame

(* The plan is made: its victims are in cooldown. *)
PlanMade ==
    /\ w.pc = "mark" /\ w.todo = {}
    /\ cooled' = cooled \cup w.marked
    /\ Retry
    /\ UNCHANGED <<api, fresh, hold, faults>> /\ PassFrame

(* Mutant: the condition Preempting stays on a victim that is rolled back. *)
rollbackKeepingCondition ==
    /\ w.pc = "rollback"
    /\ \E v \in w.marked :
          /\ w' = [w EXCEPT !.marked = @ \ {v}]
          /\ IF seen[v] = "Preempting" /\ fresh[v]
             THEN /\ phase' = [phase EXCEPT ![v] = "Ready"]
                  /\ fresh' = [fresh EXCEPT ![v] = FALSE]
             ELSE UNCHANGED <<phase, fresh>>
    /\ UNCHANGED <<stamp, since, by, hold, cooled, timer, faults>> /\ PassFrame

(* rollbackPreemptingMarks, victim by victim: one attempt for each. *)
rollbackPreemptingMarks ==
    /\ w.pc = "rollback"
    /\ \E v \in w.marked :
          /\ w' = [w EXCEPT !.marked = @ \ {v}]
          /\ \/ /\ seen[v] = "Preempting" /\ fresh[v]
                /\ phase' = [phase EXCEPT ![v] = "Ready"]
                /\ since' = [since EXCEPT ![v] = Unset]
                /\ by' = [by EXCEPT ![v] = Nobody]
                /\ fresh' = [fresh EXCEPT ![v] = FALSE]
                /\ UNCHANGED faults
             \/ /\ Fails(seen[v] # "Preempting" \/ ~fresh[v])
                /\ UNCHANGED <<phase, since, by, fresh>>
    /\ UNCHANGED <<stamp, hold, cooled, timer>> /\ PassFrame

RolledBack ==
    /\ w.pc = "rollback" /\ w.marked = {}
    /\ Retry
    /\ UNCHANGED <<api, fresh, hold, cooled, faults>> /\ PassFrame

Worker == \/ Reconcile \/ Schedule \/ BindSpec \/ BindStatus \/ Done
          \/ claimPlanOwnership \/ TryPreempt \/ markVictimsPreempting \/ PlanMade
          \/ rollbackPreemptingMarks \/ RolledBack

-----------------------------------------------------------------------------
(* Beside the worker.                                                      *)

(* The informer catches up, and the slice is queued. *)
Deliver(s) ==
    /\ ~fresh[s]
    /\ seen' = [seen EXCEPT ![s] = phase[s]]
    /\ fresh' = [fresh EXCEPT ![s] = TRUE]
    /\ Add(s)
    /\ UNCHANGED <<setting, api, hold, cooled, timer, w, faults>>

(* The node reconciler promotes the slices it sees Ready on its node. *)
NodeWalk ==
    /\ \E s \in Slice : seen[s] = "Ready" /\ hold[s] # "allocated"
    /\ IF w.pc = "quota" THEN GoesWrong("walk") ELSE UNCHANGED faults
    /\ hold' = [s \in Slice |-> IF seen[s] = "Ready" THEN "allocated" ELSE hold[s]]
    /\ UNCHANGED <<setting, api, seen, fresh, cooled, queue, w>>

(* The hold of a gang's member expires between two of its passes. *)
reapExpiredAssumptions ==
    /\ \E s \in setting.gang :
          /\ hold[s] = "assumed" /\ w.slice # s
          /\ hold' = [hold EXCEPT ![s] = "none"]
    /\ GoesWrong("reap")
    /\ UNCHANGED <<setting, api, seen, fresh, cooled, queue, w>>

(* A cooldown is over. *)
CleanupCooldown ==
    /\ \E s \in cooled : cooled' = cooled \ {s}
    /\ UNCHANGED <<setting, api, seen, fresh, hold, queue, w, faults>>

Older(age, cap) == IF age \in {Unset, cap} THEN age ELSE age + 1

(* Time passes, not during a pass of the worker. The slice controller deals   *)
(* with a grace period that is over before the buffer is.                    *)
Tick ==
    /\ w.pc = "idle"
    /\ \A v \in Slice : since[v] + 1 < Grace[v] + Buffer
    /\ stamp' = [s \in Slice |-> Older(stamp[s], Window)]
    /\ since' = [s \in Slice |-> Older(since[s], Grace[s] + Buffer - 1)]
    /\ UNCHANGED <<setting, phase, by, seen, fresh, hold, cooled, queue, w, faults>>

(* A slice moves from one phase to another (bound: when the informer has seen  *)
(* what it was before).                                                       *)
Moves(s, from, to) ==
    /\ phase[s] \in from /\ seen[s] = phase[s]
    /\ phase' = [phase EXCEPT ![s] = to]
    /\ fresh' = [fresh EXCEPT ![s] = FALSE]
    /\ since' = [since EXCEPT ![s] = Unset]
    /\ stamp' = IF to \in {"Pending", "none"} THEN [stamp EXCEPT ![s] = Unset] ELSE stamp
    /\ by' = [v \in Slice |-> IF v = s \/ (to = "none" /\ by[v] = s) THEN Nobody ELSE by[v]]
    /\ UNCHANGED <<setting, seen, hold, cooled, queue, w>>

(* A name is taken again when the scheduler is done with the one before. *)
Create ==
    /\ \E s \in Slice :
          /\ seen[s] = "none" /\ fresh[s] /\ hold[s] = "none"
          /\ s \notin heap \cup again \cup timer /\ w.slice # s
          /\ Moves(s, {"none"}, "Pending")
    /\ UNCHANGED faults

(* The node agent and the slice controller, whose grace period is over. *)
Allocate == \E s \in Slice : Moves(s, {"Scheduled"}, "Ready") /\ UNCHANGED faults
GraceOver ==
    \E s \in Slice : since[s] >= Grace[s] /\ Moves(s, {"Preempting"}, "Releasing")
                     /\ UNCHANGED faults
Release == \E s \in Slice : Moves(s, {"Releasing"}, "Released") /\ UNCHANGED faults

(* The users: a job ends, a slice is deleted. *)
Ends == \E s \in Slice : Moves(s, {"Ready"}, "Releasing") /\ GoesWrong("release")
Delete ==
    \E s \in Slice :
       Moves(s, {"Pending", "Assigned", "Released"}, "none") /\ GoesWrong("delete")

Next == \/ Worker
        \/ \E s \in Slice : Fire(s) \/ Deliver(s)
        \/ NodeWalk \/ reapExpiredAssumptions \/ CleanupCooldown \/ Tick
        \/ Create \/ Allocate \/ GraceOver \/ Release \/ Ends \/ Delete

Spec == Init /\ [][Next]_vars

(* The worker and its timers go on, the informer catches up with each slice,  *)
(* time passes, and the agent and the slice controller do their part.         *)
FairSpec ==
    /\ Spec
    /\ WF_vars(Worker) /\ WF_vars(CleanupCooldown) /\ SF_vars(Tick)
    /\ WF_vars(Allocate) /\ WF_vars(GraceOver) /\ WF_vars(Release)
    /\ \A s \in Slice : WF_vars(Deliver(s)) /\ SF_vars(Fire(s))

-----------------------------------------------------------------------------
(* Properties.                                                             *)

(* The namespace never has more bound than its quota, however far behind the  *)
(* informer is ("a burst of submissions can slip past quota" without the      *)
(* ledger).                                                                  *)
QuotaKept == Bytes({s \in Slice : phase[s] \in Bound}) <= setting.quota

(* A requester gets no second plan while victims of its first are draining    *)
(* ("so long-grace configs can't stack a second wave").                       *)
NoSecondWave ==
    [][\A v \in Slice : phase[v] = "Ready" /\ phase'[v] = "Preempting" =>
          \A u \in Slice : phase[u] = "Preempting" /\ by[u] = Requester /\ by[u] # Nobody
                             => u \in w.marked]_vars

(* What others hold, or have a node for, leaves room for s within the quota. *)
WithinQuota(s) ==
    Bytes({u \in Slice \ {s} : hold[u] # "none" \/ phase[u] \in Bound \cup {"Assigned"}})
        + Req(s) <= setting.quota

(* A slice without a node that the quota admits and that fits does not wait   *)
(* for ever; nor does one that could take the place of a slice of lower       *)
(* priority. (One whose bind failed half way has a node, and may: the next    *)
(* pass finds the node set and stops.)                                        *)
Served ==
    \A s \in Slice :
       /\ ~ <>[](/\ phase[s] = "Pending" /\ s \notin setting.gang
                 /\ WithinQuota(s) /\ Free >= Req(s))
       /\ \A v \in Preemptible : Priority[s] - Priority[v] >= Gap =>
             ~ <>[](/\ phase[s] = "Pending" /\ {s, v} \cap setting.gang = {}
                    /\ WithinQuota(s)
                    /\ phase[v] = "Ready" /\ Req(v) >= Req(s))

=============================================================================
