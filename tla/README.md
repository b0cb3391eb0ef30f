# vGPU scheduler: a TLA+ model

This directory holds TLA+ modules for the vGPU scheduler: what its processes
keep in memory and on disk, the steps they take, what can go wrong between two
of them, and what must hold all the same. TLC checks small instances; TLAPS
proves some of the properties for every value of the constants.

    tlc -workers 2 -config SchedFaults.cfg MCScheduler     # one run
    tlapm SchedulerProofs.tla                              # one set of proofs

`PROJECT.json` says which lines of the source every definition stands for, which
hazards of the code the properties are about, and for each property a mutated
definition under which it fails.

## The system

A job asks for GPU memory. The controllers turn it into a claim and the claim
into a *slice*; the scheduler binds the slice to a node; the node's agent puts it
on one of the node's cards and reports it Ready; the job controller starts the
pod. All of them talk through objects in the Kubernetes API, which they read
through an informer that may lag, and each keeps state of its own besides.

    user -> Job ctl -> Claim ctl -> Slice object <-> Scheduler  (VRAMCache, gate, queue)
                                        ^   ^
                       Slice controller +   +--- Node agent (ledger, checkpoint, CDI files)

| Component | State it keeps | Operations | What makes it correct |
|---|---|---|---|
| VRAM cache (`internal/scheduler/cache.go`) | per node: reserved and allocated bytes, health; per slice: speculative hold, confirmed hold, allocation, last phase applied; warm-up flag | assume, roll back, mark held, pin, confirm or re-arm, promote, release, fail, forget, add/remove node, reap | no byte charged without a holder, none held uncharged; every transition of a slice applied once |
| Scheduling cycle (`plugin.go`, `reserve.go`, `filter.go`, `cmd/scheduler/main.go`) | the reservation transaction of the slice under way; UID and node last seen of each name | filter, reserve, gate, pin, two bind patches, confirm or roll back | a node is never over-admitted; a slice is bound once; what is bound is charged |
| Node reconciler, seed, reaper, janitor, leader election (`cmd/scheduler/main.go`) | nodes and slices still to be counted | re-charge a node, seed the cache, drop expired holds, forget lost slices, take over | consumption is rebuilt before it is sold; what is deleted is forgotten |
| Gang gate (`gang.go`) | cohorts: members, age, backoff, released; the admission slot and its age | check a slice, release at quorum, back off a stalled gang, reap, purge, forget | a gang binds as a whole; one gang assembles at a time; no gang waits for ever |
| Scoring (`score.go`) | none | order the nodes that fit | - |
| Quota (`quota.go`) | none of its own; reads the slices and the ledger | check a slice or a gang | a namespace never has more bound than its quota |
| Preemptor (`preemptor.go`) | cooldowns; stamps on the requesters | claim the plan, choose victims, mark them, roll back | one wave of victims per requester; who could be served is |
| Work queue (`priorityqueue`) | ready, dirty, processing sets, delayed items | add, get, done, rate limit | an item is processed by one worker, none is lost |
| Slice controller (`vgpuslice_reconciler.go`) | none of its own; the finalizer | add/remove finalizer, start a release, end a preemption | a slice goes when its hardware is free, and does go |
| Phase machine (`internal/state`) | - | transitions of a slice | no illegal phase change |
| Claim and job controller (`vgpuclaim_reconciler.go`, `vgpujob_reconciler.go`) | status of their objects | create claim, slice, pod; mirror phases; release the grant | a finished job stays finished, for a true reason, and gives its card back; a lost pod is replaced |
| Gang job and reservation controller (`vgpugangjob_reconciler.go`, `vgpugangreservation_reconciler.go`) | status of their objects, first time of Reserving, deadline | create children, tally, decide, tear down | no whole gang is torn down for an old read; a failed gang goes completely |
| Quota and profile controller | status of their objects | publish usage, fold observations | - |
| Node agent: allocation (`internal/nodeagent`: manager, allocator, checkpoint, CDI, drift) | per-card ledger; checkpoint file; CDI files | allocate, release, report, restore, heal | a card is never promised beyond what it has, across crashes; a released slice holds nothing |
| Node agent: over-use (`slice_violation.go`, `enforcement.go`) | streak and start of the over-use, what was stamped, evictions of the last window | observe, warn, evict, withdraw | nobody is evicted before time; warnings are withdrawn; sustained over-use is acted on |
| Node agent: observation, monitor mode | last inventory | read, export | - |
| Recommendation (`internal/recommendation`) | none | profile to advice | monotone, bounded |
| Admission webhooks | none | default, validate, rewrite | - |
| Telemetry, security policy, API types, start-up code, manifests | none that others read | - | - |

### What is hard

- **Many goroutines, one cache.** Two reconcilers, the seed, the reaper and the
  janitor call the cache; several of its methods take the lock more than once, and
  a slice has three states in it that different goroutines move it between.
- **Reads that are old when used.** Informers lag; lists are walked after they
  were taken; controllers patch a status they read before.
- **Two writes that are one in intent.** The bind is two patches. An allocation
  is four writes (ledger, CDI file, checkpoint, status), a release as many.
- **Processes that die.** A new leader starts with an empty cache and gate; an
  agent with what the checkpoint file says.
- **Timers.** Holds expire, pins outlast them, the admission slot and the
  cohorts have ages, retries have delays, and several of them race.
- **Names that come back.** Objects are deleted and recreated under their
  name while a cycle, a cohort or a queue item of the old one is alive.

## The modules

| Module | Models | Extends |
|---|---|---|
| `VRAMCache` | `cache.go`: one operator per critical section of the mutex | - |
| `Scheduler` | the goroutines of the scheduler process around the cache, and the API objects | `VRAMCache` |
| `Admission` | `quota.go`, `preemptor.go`, `priorityqueue.go` and the one worker that calls them | - |
| `GangGate` | `gang.go`, the worker that calls it, reservations, time | - |
| `GangReservation` | the gang job controller and the gang reservation controller, for one gang | instantiates `GangOutcome` |
| `GangOutcome` | abstract: what becomes of a gang and of what its children hold | - |
| `JobLifecycle` | the job, claim and slice controllers for one job, and its pod | - |
| `CardLedger` | `nvml/allocator.go`: one operator per critical section | - |
| `CardGrants` | abstract: what a node promises the slices bound to it | - |
| `SliceLifecycle` | the node agent's worker, restart and drift detector; the slice controller; the slice object | `CardLedger`, instantiates `CardGrants` |
| `Overuse` | the node agent's over-use detector and evictor, for one slice and its pods | - |
| `MC...` | sizes and names of the instances TLC checks | the above |
| `SumLemmas` | sums over finite sets: what the proofs about quotas and limits rest on | - |
| `...Proofs` | the theorems about a module and their proofs | that module, `SumLemmas` for `Admission`, `Overuse` and `Scheduler` |

The modules meet at the objects of the API. What one of them does to an object is
an environment action of the others: `GangGate` sees a reservation created and
failed, `JobLifecycle` sees the scheduler bind and preempt, `Admission` sees the
node agent allocate and the slice controller end a grace period.

### Scheduler and VRAMCache

A step is one critical section of the cache mutex or one API call. A method that
unlocks in the middle (`ReleaseSliceOnce`, `FailSliceOnce`, `ForgetSlice`) is a
sequence of calls in `calls[g]`, one per goroutine, so that everything else can
happen in between. The cycle's position is `cycle.step`: schedule, reserve,
gate, pin, bindSpec, bindStatus, confirm. `Faults` says which of these the
environment may do: replace the process by a cold one, delete nodes, fail calls,
let a bind outlast its pin, change a node's readiness, and let the informer lag
(`seen` is its copy).

A slice's bytes are `Req[s]` everywhere, since the agent reports the bytes that
were asked for; sums of bytes over sets are the constant `Bytes`, characterised by
`BytesAssumption`. `FreeVRAMBytes` is recomputed at every change in the code and
is an operator. Holds carry no deadline: the reaper may drop one at any time,
except inside the pinned bind (unless `slowBind`), which includes every timing.
`SetNodeZone` is left out (no capacity); reads of nodes are current except that a
deletion event arrives late; the cycle's outcome "quota exceeded", "preemption
started" and "no node fits" is one: it ends without a reservation; which fitting
node wins is a choice. Scheduled stands for Scheduled and Allocating. A slice is
marked Preempting by the preemptor and may come back to Ready by its roll-back.

### GangGate

`CheckSliceWithCohort` is a function of the gate's state, written in the stages
of the code: reap, purge another incarnation, enter the cohort, handle a stalled
holder, claim the slot, decide. The worker brings due slices to it; which due
slice is next is a choice, so the properties do not lean on the queue's order.
Time is ticks: Backoff <= Timeout < SliceTTL <= HoldTTL <= MaxHoldAge and Timeout <
SlowRetry, as the code's 15s, 20s, 30s, 50s, 90s and 30s (an age counts as over a
bound when it exceeds it). `hold` is a clock: a hold lasts `SliceTTL` when it is taken
and `HoldTTL` from each pin, and the reaper takes it when the time is over, or
earlier with the fault `reap`. `joined` is a history variable: which
slices were let hold capacity since the reservation's current incarnation was
created. A `gangSize` of zero and a priority annotation that changes are left out.

### SliceLifecycle

The agent's worker holds a *copy* of the slice (`agent.copy`) and writes
ledger, CDI file, checkpoint and status in the code's order, one step each. A
status `Update` succeeds only if the object still equals the copy; equal copies
stand for equal versions. The informer needs no variable: between the read and
the write any time may pass. The slice controller's status patch carries no
version (`PatchReleasing` overwrites whatever is there). `faults` bounds how often
something goes wrong: crash, refused call, failing disk, a card the driver does
not show, a checkpoint file that cannot be read. The file may be unreadable once,
or spoilt for good (`CorruptCheckpoint`): then it is `corrupt`, every write to it
is refused and every start begins with an empty ledger. "" and Pending are one phase.
Slice names are not reused here (the drift detector looks slices up by name).

### JobLifecycle

One job, its claim, slice and pod. A step of a controller is one call; what it
read is kept in its worker's variable (`jw`, `cw`, `sw`) and may be old when the
next call uses it, so two workers interleave between the read that decides and
the write that follows. `owning` says whether the job has a podTemplate. A deleted
pod is `terminating` for a while, and may show `failing`, as the kubelet lets it.
`earned` is a history variable: the ends the workload really came to.
Every status write is a patch or an update as in the code: the slice controller's
patch to Releasing is a step of its own after its read, names no version, and goes
over whatever is there, a Preempting set in between included; the preemptor may
take its mark back (`rollBack`); with the fault `stale` the job controller reads the
job without its own last write.
The webhook that rewrites a pod when it is created is `MutatePod`. The grace period
is the age of the condition Preempting ("anchor"); how long it is plays no role
here (it does in `Admission`).

### GangReservation

The two gang controllers for one gang. Below them a chain job -> claim -> slice per
slot moves by itself (`Chain`), may be deleted by a user and may fail. An informer
lags in that one child's old state is seen until the pass of the reservation worker
ends; the reservation's own writes are seen at once (unless `ownLag`, in no run).
`whole` is a history variable: every child has held its allocation since the pass
began, and none was shown Failed (the code takes that for "a positive observation"
and does not confirm it). The pass goes: read and tally, decide, confirm a loss by direct reads, tear
down, write the phase.

### Admission

One worker, one namespace, one node. A pass is Reconcile (which also takes the
quota's list of slices), the ledger part of the quota check with the reservation,
then the bind in its two patches (between them the slice is "Assigned": it has a node
and is still Pending, and if the second patch fails it stays so), or the preemption write by write: the stamp on the requester, one
mark per victim, the roll-back. Reads go to `seen`, the informer's copy; a write
based on an old read is refused where the code uses the resource version. Ages
(`stamp`, `since`) are in units of time; `by` records whose victim a slice is.
A gang's gate is reduced to its quorum: a member binds when all members hold.
`Settings` gives several small worlds to start in.

### Overuse

The detector's cycle in the code's order: attribute the processes to the slice, the
streak and the two conditions, stamps on pods, the grace periods, then per pod the
exemption label, the rate limit and the eviction. `mem` is what the detector
remembers and a restart loses; `shown` is what others can see. `sustained`,
`spared` and `botched` are history variables: for how long every look has shown
over-use in this life, whether the namespace was exempt all through the cycle, and
which withdrawals failed (the code tries each once).

## The runs

Every passing run explores its whole state space. Deadlock is not checked in any:
the environment may fall silent (slices all gone, no fault left), and the
processes then wait for events, as they do in the code.

| Run | Instance | Checks |
|---|---|---|
| `SchedFaults` | one slice, one node; take-over, node loss, slow binds; fair | `TypeOK`; `ReservationsBacked`: no reserved byte without a hold; `GoneForgotten`: a deleted slice leaves the cache for good |
| `SchedPair` | two slices of sizes 2 and 1 on one node of 2; failed calls, slow binds, readiness flips | `NoOverAdmission`; `BoundIsCharged`: once scheduling is open, what is bound is in the cache |
| `SchedLag` | two UIDs of one name, one node; lagging informer, failed calls | `ReservationsExact`: the reserved counter is the sum of the holds |
| `Admission` | three slices, one node: full; a request of two victims; a quota with a gang | `TypeOK`; `QuotaKept`; `NoSecondWave`: no more victims while the first drain; `Served`: who has no node, is admitted and fits, or may preempt, does not wait for ever |
| `GateQuorum` | one gang of 2 out of 3 slices, every fault, two incarnations | `TypeOK`; `SlotOwned`: the slot has a live holder with members; `NoSoloBind`: nobody binds without a quorum of the current incarnation |
| `GateLive` | two gangs of two, one spare unit of capacity; a reservation may fail at any time, also while it owns the slot; fair | `OneAssembly`; `QuorumHeld`: at quorum every member's bytes are held; `Admitted`: every gang whose reservation does not fail is bound as a whole in the end |
| `GangLife` | a gang of two, one fault, one lag; fair | `TypeOK`; `KeepsOutcome`: the model implements `GangOutcome`; `NoFalseTeardown`; `Decides`; `FailureCompletes`: a failed gang goes completely |
| `JobLife` | one job with or without a pod of its own, two faults of any kind but `stale`; fair | `TypeOK`; `TerminalIdle`, `NoResurrection`, `OutcomeEarned`: an end is final and true; `Reclaimed`, `SelfHeals`, `PreemptionCompletes` |
| `SliceGrants` | two slices of sizes 2 and 1, two cards of 2, one crash or one hidden card | `KeepsPromise`: the model implements `CardGrants`; `GrantBacked`, `LedgerExact`, `ReleasedClean` |
| `SliceLive` | one slice, two cards, two faults of any kind; fair | `TypeOK`; `Settled`: a bound slice gets its card or fails; `Cleared`: a deleted slice goes; both unless the checkpoint file is spoilt for good |
| `Overuse` | one slice, two pods, every mode, one fault of any kind; fair | `TypeOK`; `EvictionEarned`; `Withdrawn`: when the over-use is over, no warning stays but those whose withdrawal failed, whether the agent restarted or not; `ActedUpon` |
| `VTakeover` | two slices, a take-over | finds `NoOverAdmission` violated, see Finding |

The bounds. Two slices that do not fit together are what over-admission needs,
two UIDs of a name what reuse needs; the cache treats slices and nodes uniformly
and no rule of it counts beyond "does it fit now" (what needs two nodes, a hold that
is given back on another node than it was taken on, is excluded for any number of
nodes by `ReservationsAreExact` if reads are current, and happens otherwise, see
"Known divergences"). Two gangs are what contention for the slot needs, three slices
of a gang of two what a quorum by different members needs, two incarnations what a purge needs. Two cards are what moving a slice between
cards needs, and sizes 2 and 1 on cards of 2 make best fit, double promise and
fragmentation all reachable. One crash can fall between any two steps; `SliceLive`
and `JobLife` allow two faults, so that a retry can fail too, or a deletion meet a
preemption. `ChargeBound` in `SchedLag` cuts states in which a lagging informer has
charged one slice more than twice. In `SliceGrants` the two cards are symmetric.

`Admission`: a request of two victims is what a partial failure needs, grace periods
of 1 and 2 with a floor of 2 what makes the window longer than its floor. An informer
is at most one environment move behind per slice; a grace period that is over
is dealt with before the buffer is; timers fire when the queue is empty (the delays
are long against a pass) and time does not pass within one; a name is taken again when the
scheduler is done with the one before. `GangLife`: `MaxLags` and `LagPhases` (a lag
begins while the gang is committed, where an old read can do harm). `Overuse`:
streak 2, grace periods of 1, one eviction per window of 2: every counter passes
through below, at and above its limit; `Cap` ends the count of `sustained`.
`GateLive`: a stall takes two ticks, as long as the retry after an error; holds are
short, but a due slice is never left waiting, so that only the hold of a slice that is
never checked again expires. Late retries are in `GateQuorum` and in the theorem
`QuorumIsHeld`. `MaxUID`, `MaxFaults` and the tick constants are the only other bounds in guards.

The runs for the scheduler split the faults between them: with all of them at once
one slice already has tens of millions of states. The proofs do not split them.

The fairness. `Scheduler`: the two workers, the seed's retry loop and the janitor's
ticker keep running (controller-runtime and `wait.Until` restart them); nothing is
assumed of the reaper, users or faults. `GangGate`: the worker takes what is due,
time passes, reservations and slices that were requested arrive, bound work ends,
the hold of a slice that is no longer pending expires; a reservation need not fail,
so that no gang counts on the deadline of another; `WorkerRuns` is weak fairness of
the worker written out. `Admission`: the worker and its timers go on, the informer
catches up, time passes, the agent and the slice controller do their part; a timer is strongly
fair, since the queue it waits for is empty again and again. `GangReservation`,
`JobLifecycle`: every worker goes on (a failed pass is requeued, an event of an object
wakes its worker), and so does what moves the objects below them; users, faults
and the end of a workload are not assumed. `SliceLifecycle`: the agent's and the
controller's workers go on, their queues hand out every slice again and again
(strong fairness of the read, since every event and every error re-queues the
slice), the agent is started again, the scheduler finishes a bind it began.
`Overuse`: the ticker goes on and a pod that is being deleted goes.

## What is proved

`SchedulerProofs`, for any slices, nodes, sizes and names, and any faults but those
a theorem excludes:

- `TypeCorrect` (`TypeOK`), without a hypothesis.
- `HoldInvariant`: if the informer keeps up (`NoLag`), `HoldInv` is an invariant. Its
  parts: types; a slice has one kind of hold; a node the cache does not know is charged
  nothing; one object per name, none bound before it exists; a confirmed hold is on the
  node its slice is bound to; every promotion still to be made, in a walk or in a
  sequence of calls, names that node; the cycle is the only one that binds its name,
  nobody else confirms its slice, and its hold is where it took it or gone.
- `NoReservationLeak` (`ReservationsBacked`) follows from it.
- `ReservationsAreExact` (`ReservationsExact`), without node loss and with `NoLag` or a
  single node. Its invariant, `ExactInv`, adds that a hold is on a node the cache
  knows and that the node of the cycle stays known: so no charge and no decrement is
  skipped for want of the node, and none is floored.
- `BoundStaysCharged` (`BoundIsCharged`), with `NoLag`, no node loss, no take-over and no
  name used twice. Its invariant, `ChargeInv`: a bound slice is charged from its Confirm
  until it no longer occupies its node, the warm-up gate open or not; pending calls
  that take a charge away are for finished slices; the cycle's slice stays Pending until
  its status is patched; what the controller remembers and the janitor sweeps has existed.
- `CapacityHoldsOnOneNode` (`NoOverAdmission`), under the same hypotheses and with one
  node. A node is sold to a slice (`SoldTo`) that is not finished and has a hold
  or an allocation there, or a cycle past Reserve that will bind it there without
  another look. `CapacityInv`: what a node is sold to fits; the allocated counter covers
  the allocations and, between the two critical sections of a release, the bytes that
  are still to be given back (`Returning`); pending releases and failures are of
  finished slices and name their node; only started slices are promoted; an allocation
  and the controller's memory of a slice are on its node. Only Reserve sells: `CanFit`
  adds the request to both counters, the reserved one is exact (`ExactInv`), the
  allocated one covers, so the sum fits (`BytesUnion`); and what occupies the node is
  charged there (`ChargeInv`), hence sold. The lemmas hold for any number of nodes as
  long as what the janitor sweeps it has on the node the slice is bound to
  (`JanitorCurrent`). With several nodes the code does not ensure that, see the
  janitor (main.go:259) under "Known divergences"; with one it cannot fail.

Why all of it is needed: `ReservationsBacked` breaks when a promotion gives a hold
back on another node than the hold's (`promoteConfirmedToAllocatedLocked` uses the
caller's node), so confirmed holds and pending promotions must both be on the
node the slice is bound to; that holds only if a slice is bound once; and that
only if the cycle owns its name until it has bound. `NoLag` is needed: with a
lagging informer and two nodes TLC finds a slice bound twice and a hold given
back on the wrong node. The argument goes critical section by critical section
(`RollbackHolds`, `ConfirmHolds`, `PromoteHolds`, ...), then step by step.

`GangGateProofs`, for any gangs, slices, sizes, priorities, capacity, delays and
faults:

- `GateInvariant`: `GateInv` is an invariant: types; the slot's holder exists, is
  not released and has a member; only the holder has members short of quorum;
  members and releases of the current incarnation are backed by `joined`.
- `GateTypeCorrect`, `SlotNeverOrphaned` (`SlotOwned`), `OneGangAssembles`
  (`OneAssembly`), `NoMemberBindsAlone` (`NoSoloBind`) follow.
- `QuorumIsHeld` (`QuorumHeld`), when no call outlasts the TTL of a hold or fails and no
  waiting slice is deleted (`HoldsLast`); the TTL reaper on its clock, retries that are
  late by any time, deadlines, recreated reservations and take-overs are allowed. Its
  invariant, `HeldInv`: the members of a gang that is short of quorum, in the
  incarnation that lives, are pending and have a hold that outlasts the admission slot
  (`Outlasts`: what is left of the hold and the age of the slot exceed the TTL), and
  what is being bound is of a gang that reached quorum (so its confirm takes no hold of
  an assembling one). The reaper comes too late because Timeout < TTL and whoever
  stalls loses its members. With any one of the three faults TLC finds a registration
  without its hold.

A check is proved stage by stage: `Sound` and `Backed` say the invariant of one
gate state, with the caller allowed to own the slot before it is registered, and
each stage preserves them; `Shed` says that the members of a stage are those of the
stage before it, in the same incarnation, or none.

`JobLifecycleProofs`, for any set of faults and any number of them, where two of the
theorems assume that the job controller sees its own last write (`Current`: no `stale`):

- `JobInvariant`: `JobInv` is an invariant: types; a pass that may still write
  began with a job that was not terminal, and only a job that owns a pod gets to
  the pod (`PassSound`); when an end is about to be written no pod is live
  (`EndsIdle`); whatever shows an end - the pod, the slice, the claim, the copies of
  the claim worker and the job worker, the conditions - was earned (`EndsEarned`).
- `JobTypeCorrect` and `OutcomesEarned` (`OutcomeEarned`) follow; with `Current` also
  `EndsAreIdle` (`TerminalIdle`) and `NoJobResurrects` (`NoResurrection`). Without it
  TLC violates both, see "Known divergences".

Why all of it is needed: `updatePhase` writes a phase that was decided calls ago, so
what was true when it was decided must be carried in the worker's copy; and a
failure reaches the job from the slice by way of the claim worker's copy and the
claim, each of which may be out of date, so all must have been earned. That no pod
starts between decision and write rests on the job worker being the only one that
creates it. The proof goes worker by worker, and inside the job worker by what a
call does to the pass: ends it (`PassOver`), decides a phase (`PassDecides`) or goes on.

`SliceLifecycleProofs`, for any slices, cards, sizes and attempts:

- `SliceTypeCorrect` (`TypeOK`) for all faults.
- `SliceInvariant`: `SliceInv` is an invariant if the checkpoint file can be read at
  every start (`"unreadable" \notin Faults`). Its parts: types; what the phase of an
  object says of its numbers and of the copies of the two workers; a slice has at
  most one record, in the ledger, on disk or both (`RecordsSane`); after a start the
  ledger comes to hold every record on disk, and later misses none but of slices
  that are given up (`BootSane`); how far the allocation in the worker's hands has come;
  `LedgerExact`; `GrantBacked`; the slices entitled to a card fit on it (`CardsFit`).
- `LedgerIsExact`, `GrantsAreBacked` follow, and `PromiseKept`: the specification
  implements `CardGrants`.
- `ReleasedHoldNothing` (`ReleasedClean`), if moreover no write to the disk fails.

Both hypotheses are needed: TLC finds the two behaviours under "Known divergences"
without them. Why all of the invariant is needed: a grant is reported calls
after it was recorded, by a worker that may have died in between; what a retry
finds is a record of an earlier life, in one place or in both, so `GrantBacked` rests
on there being no second record for the slice and on the restart having read all
of them. The promise needs more than the records: a card is given again as soon as
the ledger has released it, while the object of its former owner still names it;
`CardsFit` counts only who is not given up, and an owner is given up before the
ledger lets go. The proof first says what a step makes of the objects, the worker,
the ledger, the disk and the start (`ObjectMoves`, `AgentTurning`, `LedgerMoving`,
`DiskMoving`, `BootMoving`) and then goes part by part; the refinement goes by what
happens to one grant: it ends when the slice is given up, and a new one comes only
from the report of an allocation that is entitled to its card.

`GangReservationProofs`, for gangs of any size, all faults and lags:

- `GangTypeCorrect` (`TypeOK`), without a hypothesis.
- If the worker sees its own writes (`"ownLag" \notin Faults`): `GangPassInvariant`,
  for as long as a decision is in hand the reservation is one that the decision may
  change, and a torn-down committed gang has not been whole; and from it
  `NoGangTornDownFalsely` (`NoFalseTeardown`).
- If moreover no informer falls behind after the failure (`"Failed" \notin LagPhases`):
  `GangReleaseInvariant`, from the decision to release on no child holds anything and
  none is about to be bound; and `GangKeepsOutcome` (`KeepsOutcome`), the two
  controllers implement `GangOutcome`.

Both hypotheses are needed, see "Known divergences". Why the invariant is needed:
the phase is written calls after it was decided, so that the reservation may still
be changed so must be carried along; and "Released" is written after the tally found
nothing held, while a pass of the gang job controller that began earlier may create a
child's job again. Its slice then comes to wait, but not to be bound: the scheduler
looks at the reservation before it admits a slice to the bind, and what it had admitted
before the failure is gone by the time of the tally.
The refinement goes by what a step makes of the reservation (`RsvMoves`), of the pass
(`PassMoves`) and of what is held (`HeldMoves`).

`OveruseProofs`, for any pods, thresholds, grace periods, limits and faults:

- `OveruseInvariant`: `OveruseInv` is an invariant: types; the pods in hand are those
  of this cycle, and one that is about to be evicted was not exempt and has room in
  the window (`QueueSane`); the sum of the remembered evictions is within the limit
  (`RateKept`); mode, streak and start fit to where the cycle stands (`MemSane`); the
  streak and the age of the violation are not longer than every look has shown
  over-use, unless this cycle has already shown its end (`StreakEarned`).
- `OveruseTypeCorrect` (`TypeOK`), `RateIsKept` and `EvictionsAreEarned`
  (`EvictionEarned`) follow.

Why it is needed: what an eviction must have behind it lies streak and grace periods
back, and is forgotten at a restart and kept over a cycle that observes nothing; so
the detector's memory is compared with the history at each stage of the cycle, where
the one may be a unit of time ahead of the other. That the window only loses
evictions as time passes is a fact about sums (`LaterSum`).

`AdmissionProofs`, for any slices, priorities, grace periods and settings:

- `AdmissionInvariant`: `AdmissionInv` is an invariant: types; how far the informer
  may be behind (`SeenSane`); what is bound and not yet visible is confirmed in the
  ledger (`Charged`); the slice in the worker's hand is bound by nobody else and not
  created anew (`WorkerSane`); the requester of a draining victim has a stamp exactly
  as old as the mark, and between the stamp and the last mark the victims of the
  requester are those of this plan (`PlanSane`).
- `AdmissionTypeCorrect` (`TypeOK`), `WavesDoNotOverlap` (`NoSecondWave`) follow.
- `QuotaHolds` (`QuotaKept`), if what runs at first is within the quota and no node walk
  promotes a slice between the two reads of the check (`"walk" \notin e.faults`).

The second hypothesis is needed: see "Known divergences". The first one only says that the
quota was not lowered below what runs. Why the invariants are needed: no second wave
rests on the window being longer than any victim can drain, which is a fact about two
ages that start in two writes and grow together; the quota rests on the two reads of
the check having together all that is bound (`Listed`), although the list is old and
taken first. From the check to the bind the slice's place is kept because one worker
binds; the gang's other members are in the sum already.

`SumLemmas` proves what the sums of the community modules are: what one element, a
disjoint union, a subset or a change contributes, and that a finite set of numbers has
a greatest. Induction goes over the subsets of a finite set, by a smallest
counterexample (`WFMin`, the strict subset order being well founded).

The assumptions are those of the modules (`NodeAssumption`, `SizeAssumption`,
`BytesAssumption`, `SchedulerAssumption`, `GateAssumption`, `JobAssumption`, `CardAssumption`,
`LifecycleAssumption`, `GangAssumption`, `OveruseAssumption`, `AdmissionAssumption`): sizes
and grace periods are positive, the empty name is no name, `Bytes` is the sum of `Req`
(for cards: additive over disjoint sets), slices are finitely many, faults are of the
named kinds and their bound is a number.

Only model-checked: liveness (`GoneForgotten`, `Admitted`, `Served`,
`Decides`, `FailureCompletes`, `Reclaimed`, `SelfHeals`, `PreemptionCompletes`, `Settled`,
`Cleared`, `Withdrawn`, `ActedUpon`), which needs fairness and ENABLED and is out of
the prover's reach.

## Finding

- `VTakeover`: docs/ha-failover.md:65-66 says a cold-cache take-over cannot
  over-admit. The seed counts slices in Scheduled, Allocating and Ready
  (main.go:649); one in Preempting or Releasing still has its VRAM, is not counted,
  and the new leader sells it.

### Known divergences

Met while modelling and confirmed with TLC, either by adding the named fault to a
run or by stating the quoted sentence as a property; not among the runs.

Scheduler:

- cache.go:265-266, "the allocation was still applied": for a node that is not
  registered yet the promotion returns before it charges, and the once-guard keeps
  every later event, the re-walk of the node included, from charging the slice.
  (It needs node loss or a seed in the way.)
- main.go:535-540 calls the window after a node flap closed: `UpdateNode` makes the
  node a candidate before its Ready slices are charged again, and Scheduled or
  Releasing ones are not charged at all. (`NoOverAdmission` of `SchedPair` with the fault `nodeLoss`.)
- cache.go:408-409, "a slice is only ever in one of the three states": a re-walk that
  promotes a slice between its bind and its Confirm leaves it allocated and held.
- cache.go:416-417, "no future event needs the once-guard": `ForgetSlice` takes the lock
  four times; a promotion between its release and the drop of the tombstone, from a read
  before the deletion, is followed by a second one of a node walk that listed the slice
  earlier; the slice is charged twice and released once, and the node stays charged.
- plugin.go:284: the bind reads and patches by name, without the cycle's UID; after a
  delete and re-create it binds the new object, which has no footprint in the cache.
- main.go:502, "will retry in 30s": a bind that wrote spec.nodeName and failed on the status
  is stopped by the guard on spec.nodeName (main.go:431-434); the slice stays Pending
  with a node, no hold is kept for it, the agent does not allocate a Pending slice, and
  nothing takes the node back. (In `Admission`, Assigned for ever; `Served` is
  therefore about slices without a node.)
- main.go:521-524: the seed registers nodes from a list; a node deleted meanwhile comes
  back as the ghost the node reconciler means to prevent.
- benchmarks.md:181, "no double-bind": `AssumeSlice` (cache.go:178) does not refuse a
  slice that is allocated; a Pending view from a lagging informer is scheduled
  again after the slice became Ready. With two nodes the merge patch of spec.nodeName,
  which carries no version, moves it, and a promotion from the first bind gives the
  second hold back on the first node. (`ReservationsExact` of `SchedLag` with two nodes.)
- main.go:545: when the slice list of the re-walk fails, the retry finds the node known
  and never charges its slices again.
- main.go:259: the janitor forgets with the node of its snapshot (`ForgetSlice`, "a slice's
  entire cache footprint"); a slice that was an expiring hold there and has been bound
  and promoted on another node since is taken off the wrong node, and the other stays
  charged for a slice that is gone.

Gate:

- docs/gang-scheduling.md:82-85, gangs commit one at a time, "deterministically, not
  probabilistically": a sibling that finds no free VRAM is retried after 30s
  (main.go:504), longer than the 20s its gang keeps the slot; two gangs, each of which
  fits, evict each other until their reservations fail. (`Admitted` without the spare
  unit of capacity of `GateLive`.)
- docs/gang-scheduling.md:70-71, gangs not admitted "hold zero capacity": the stall
  branch (gang.go:313) wipes the members and leaves their holds until each slice is
  checked again or its hold expires.
- docs/gang-scheduling.md:101-102, the slot is freed immediately when the reservation is
  terminal: Reconcile fails the slices of a terminal reservation before the gate sees
  them (main.go:442), so only the timeout, at another gang's check, frees it.
- gang.go:75-76, "that member's bytes ARE held", and reserve.go:63-67, the mark "should
  outlive this Tx's scope": the mark is the transaction's, and the next cycle
  fast-forwards with a new one that has none; when a read at the gate fails
  (plugin.go:200-217) the hold is rolled back and the registration stays, as it does
  when the slice is deleted while it waits. A quorum can then count members that hold
  nothing. (`QuorumHeld` with the fault `apiError` or `delete`.)
- docs/gang-scheduling.md:72-73, the head of the contending set: only the holder ever has
  members (`OneAssembly`), so the set is the caller alone and a waiting gang of
  higher priority is passed over.
- docs/ha-failover.md:104-106, the gate is rebuilt on failover: nothing but checks of unbound
  slices registers members; a gang taken over between two of its binds waits for
  a quorum it can no longer reach.

Quota, preemptor, queue:

- preemptor.go:330-332, "would leave N-1 victims evicted for nothing": the roll-back reads
  through the informer, which has usually not seen the mark made just before; it finds
  the victim Ready, takes it for moved by someone else and leaves it marked. Its grace
  period (30s) ends before the window does (60s). The re-reads before the marks are
  cached as well, and a victim that is passed over still counts as freed. (In
  `Admission`, the request of two victims: the roll-back ends with one of them marked.)
- quota.go:83: a node re-walk that promotes a slice between the list and the ledger sum
  takes it out of both. (`QuotaKept` with the fault `walk`.)
- quota.go:54, 80 and preemptor.go:491 go on without a list: no quota, the floor as window.
- quota.go:46-48, "the same all-or-none verdict": when the hold of a member expires after
  quorum, its next check can be refused while its siblings are bound.
- plugin.go:294: a bind whose second patch fails gives its hold back while spec.nodeName is
  set; until the informer shows it, neither source of the quota counts it.
- preemptor.go: the need is the whole request, not what is missing; victims on several
  nodes are summed; what they free is not kept for the requester; a plan that finds no
  victims blocks the requester for the whole window, since the stamp comes first.
- preemptor.go:57-58: nobody treats `PreemptionInProgressError` apart; the delay is 30s.
- priorityqueue.go:110, "the latest priority wins": in the heap the highest does, after
  `Done` the latest.

Jobs:

- vgpujob_reconciler.go:414-418, "do NOT recreate (that would re-run on capacity already
  reallocated to the higher-priority job)", and vgpuslice_reconciler.go:164-165, "Order
  matters": a pass of the job controller that read the job before the condition was
  stamped, and looks for the pod after it was deleted, creates it again while the slice is
  released; the pod then exists, and the path of an existing pod never looks at the
  condition. (TLC: 23 states, with one preemption and no other fault.)
- vgpuslice_reconciler.go:87-90, "BEFORE releasing the slice [...] mark its Job preempted":
  a deletion that read the slice as Ready writes Releasing with a patch that names no
  version (status.go:36-49); if the preemptor marked the slice in between, Preempting is
  lost, and with it the eviction of the pod and the mark on the job.
  (`PreemptionCompletes` excepts the slices that are being deleted.)
- enforcement.go:371-416: the evictor evicts before it marks the job; when the mark fails, or
  the next cycle's clean-up overwrites its reason, the job controller recreates the
  pod it should not.
- vgpuclaim_reconciler.go: the claim controller's test for a finished owner leaves out Succeeded.
- vgpuslice_reconciler.go:185: the pod's deletion is graceful and the slice is released
  without waiting for it.
- vgpujob_reconciler.go:125-131, "A terminal Job stays terminal": the guard reads the phase
  from the informer cache. If the job's own last write is not visible yet and a user
  deletes its pod or its claim, the finished job gets it again. (`NoResurrection` and
  `TerminalIdle` with the fault `stale`.)
- vgpujob_reconciler.go: a pod goes on running on the old card
  when a user deletes its slice and the claim gets a new one.

Gangs:

- vgpugangreservation_types.go:238-241 calls Failed final but for its end: if the write of
  Failed is not visible yet when the next pass begins, it is overwritten by Reserving
  (fault `ownLag`).
- With an informer that lags longer than a pass, Released is written while children hold
  their cards.
- Completed is only reached when Released arrives between two reads of one pass, and
  "Materializing" is never written; child jobs have no podTemplate, so a gang never
  ends by itself.
- A child of a committed gang that is lost and recreated between two passes of the
  reservation controller is not noticed.

Over-use:

- slice_violation.go and enforcement.go call recovery first-class: a failed withdrawal is never
  tried again, and the conditions of an earlier life of the agent are never withdrawn.
- enforcement.go:528-533, "no orphaned stamp can outlive the condition": it does when the agent
  restarts in mode off, or when the list of the sweep fails.
- slice_violation.go:195-197: a pod whose name is reused before the next cycle counts as
  evicted and is never evicted. (`ActedUpon` with the fault `reuse`.) Evictions are by
  name, without the UID.
- A slice recreated under its name within a cycle inherits the streak and the start of its
  predecessor; the time goes on through cycles that could not observe anything.
- A pod that joins an enforced slice is not stamped; the rate limit counts acknowledged
  evictions only, and starts anew at a restart.

Node agent and slice controller:

- vgpuslice_reconciler.go:232-233, "no hardware was allocated (AllocationID == "")": the status
  gets the ID in the agent's last step; a slice deleted before that goes, and its bytes
  stay in the ledger until the agent restarts.
- manager.go:151-161: in the wedge recovery the ledger entry goes first; if removing the
  CDI file or the checkpoint then fails, the retry finds nothing to recover, and the
  files stay after Released. (`ReleasedClean` with disk errors.)
- manager.go:65, CDI files are "same-name atomic": after a crash between the CDI file and
  the checkpoint the retry allocates under a new ID, and the first file stays.
- detector.go:48-50: a checkpoint without a slice is pruned from the file after the
  ledger was restored from it, and the ledger keeps the bytes.
- manager.go:39: a checkpoint file that cannot be read leaves an empty ledger, with a
  warning; the cards can then be promised again. (Hence not a fault of `SliceGrants`.)
  A file that cannot be parsed refuses every later write as well (checkpoint.go:84-93,
  147): no slice of the node settles or goes from then on, until someone removes it.
  (`Settled` and `Cleared` are stated up to that point.)
- transitions.go:12: stale patches make Released become Releasing and Releasing become
  Scheduled, which the table does not allow; both heal.
- manager.go:88: a card that the driver does not show for a moment turns into a fragmentation error,
  which is terminal for the slice.
- manager.go:125: a slice that is deleted while Preempting loses its card at once, before the
  controller has evicted its pod.

## Not modelled

Scoring (any fitting node is allowed for), telemetry, security tables, API types,
start-up wiring, manifests and scripts, observation of the hardware: they keep no
state that a property depends on, or are pure I/O. The quota and the profile
controller, the advice of the job controller and the recommendation policy publish
what nothing reads back. The validating webhooks check one object at a time; the
modules start from objects they let in. Drift detection against hardware that lists
its allocations has no build to run in.

Within the modelled components: errors of reads that come from the informer; the
lists on which quota and window fail open; one namespace, and one node in
`Admission`; claims that no job owns; more than one slice in `JobLifecycle` and
`Overuse`, whose controllers keep nothing between slices but the eviction window.

## Plan

1. `Scheduler` with the sums of `SumLemmas` in the place of `BytesAssumption`.
2. `GangGate`'s `FailReservation` and `CreateReservation` as abstractions of
   `GangReservation`; `Admission`'s preemption composed with `JobLifecycle`.
3. The profile controller's bookkeeping and the recommendation policy as functions
   against reference definitions.
