------------------------------ MODULE Scheduler ------------------------------
(***************************************************************************)
(* The scheduler process (cmd/scheduler/main.go, internal/scheduler/       *)
(* plugin.go and reserve.go) around its VRAMCache: the slice reconciler,   *)
(* the node reconciler, the start-up seed, the TTL reaper and the janitor  *)
(* are goroutines that share the cache; the API server's slices and nodes  *)
(* are moved by them and by the rest of the system (node agent,            *)
(* controllers, users). A step is one critical section of the cache mutex  *)
(* or one API call.                                                        *)
(***************************************************************************)
EXTENDS VRAMCache, Sequences

CONSTANTS
    Name,        \* slice names; a name can be reused by a later UID
    NameOf,      \* NameOf[s]: the name of the object with UID s
    NoSlice,     \* no UID
    GangMember,  \* the slices that carry a gang reservation annotation
    Faults       \* what the environment may do to the scheduler, see Fault

(* failover: the process is replaced by a cold one.  nodeLoss: a Node       *)
(* object is deleted (and may register again).  apiError: an API call fails.*)
(* slowBind: the two bind calls outlast bindPinTTL.  notReady: a node's     *)
(* Ready condition changes.  staleRead: the informer that serves the        *)
(* scheduler's reads of slices lags behind the API server.                  *)
Fault == {"failover", "nodeLoss", "apiError", "slowBind", "notReady", "staleRead"}

ASSUME SchedulerAssumption ==
    /\ NoSlice \notin Slice
    /\ NameOf \in [Slice -> Name]
    /\ GangMember \subseteq Slice
    /\ Faults \subseteq Fault

VARIABLES
    phase,       \* status.phase of every slice object ("Absent", "Gone": none)
    nodeName,    \* spec.nodeName of every slice object (of a gone one, its last)
    apiNodes,    \* Node objects in the API
    readyNodes,  \* Node objects whose Ready condition is True
    deletedEvt,  \* nodes whose deletion event the node reconciler has not seen
    seen,        \* the informer's copy of the slice objects (if it lags)
    tracked,     \* sliceSchedulingReconciler.tracked
    calls,       \* cache calls a goroutine has still to make, in order
    cycle,       \* the scheduling cycle: step, slice UID, winning node
    nodeStep,    \* the node reconciler: step and node
    spc,         \* where the seed is
    seedNodes,   \* nodes the seed has listed and not yet put in the cache
    walk,        \* <<slice, node>> pairs a re-charge loop has still to promote
    jpc, jset    \* where the janitor is; the <<slice, node>> pairs it checks

apiVars    == <<phase, nodeName, apiNodes, readyNodes, deletedEvt, seen>>
sliceVars  == <<tracked, cycle>>
seedVars   == <<spc, seedNodes>>
janVars    == <<jpc, jset>>
vars == <<cacheVars, apiVars, sliceVars, nodeStep, seedVars, janVars, calls, walk>>

Phases == {"Absent", "Pending", "Scheduled", "Ready", "Failed", "Preempting",
           "Releasing", "Released", "Gone"}
Ops == {"rollback", "unconfirm", "release", "fail", "unallocate", "untomb", "promote"}
Call == [op : Ops, s : Slice, n : Place]
Caller == {"reconciler", "janitor"}
Walker == {"node", "seed"}

(* A cycle before Filter has no node yet; from Reserve on it has one. *)
Placed == {"reserve", "gate", "pin", "bindSpec", "bindStatus", "confirm"}
Idle == [step |-> "idle", s |-> NoSlice, n |-> NoNode]
NodeIdle == [step |-> "idle", n |-> NoNode]

(* The type of every variable; the counters of the cache stay natural       *)
(* numbers because each of its decrements floors at zero.                   *)
TypeOK ==
    /\ CacheTypeOK
    /\ phase \in [Slice -> Phases]
    /\ nodeName \in [Slice -> Place]
    /\ apiNodes \in SUBSET Node
    /\ readyNodes \in SUBSET Node
    /\ deletedEvt \in SUBSET Node
    /\ seen \in [Slice -> [phase : Phases, node : Place]]
    /\ tracked \in [Name -> [uid : Slice \cup {NoSlice}, node : Place]]
    /\ calls \in [Caller -> Seq(Call)]
    /\ cycle \in {Idle} \cup [step : {"schedule"}, s : Slice, n : {NoNode}]
                       \cup [step : Placed, s : Slice, n : Node]
    /\ nodeStep \in {NodeIdle} \cup
           [step : {"update", "updateNew", "list", "walk", "health"}, n : Node]
    /\ spc \in {"nodes", "register", "slices", "walk", "done"}
    /\ seedNodes \in SUBSET Node
    /\ walk \in [Walker -> SUBSET (Slice \X Node)]
    /\ jpc \in {"idle", "list", "sweep"}
    /\ jset \in SUBSET (Slice \X Node)

NotTracked == [uid |-> NoSlice, node |-> NoNode]

(* A scheduler process that has just won the leader election. *)
ColdStart ==
    /\ tracked = [nm \in Name |-> NotTracked]
    /\ calls = [c \in Caller |-> <<>>]
    /\ cycle = Idle
    /\ nodeStep = NodeIdle
    /\ spc = "nodes" /\ seedNodes = {}
    /\ walk = [w \in Walker |-> {}]
    /\ jpc = "idle" /\ jset = {}

Init ==
    /\ NewVRAMCache
    /\ ColdStart
    /\ phase = [s \in Slice |-> "Absent"]
    /\ nodeName = [s \in Slice |-> NoNode]
    /\ apiNodes \in SUBSET Node
    /\ readyNodes = apiNodes
    /\ deletedEvt = {}
    /\ seen = [s \in Slice |-> [phase |-> "Absent", node |-> NoNode]]

Live(s) == phase[s] \notin {"Absent", "Gone"}

(* A write by name reaches the object, if any, that has the name now. *)
Named(nm) == {s \in Slice : NameOf[s] = nm /\ Live(s)}

(* A read is served by the informer: what it has of a slice, and of a name. *)
Object(s) == [phase |-> phase[s], node |-> nodeName[s]]
View(s) == IF "staleRead" \in Faults THEN seen[s] ELSE Object(s)
SeenLive(s) == View(s).phase \notin {"Absent", "Gone"}
SeenNamed(nm) == {s \in Slice : NameOf[s] = nm /\ SeenLive(s)}

(* A watch event brings the informer's copy of a slice up to date; a name is *)
(* freed by the deletion event before its next owner shows up.               *)
Observe(s) ==
    /\ "staleRead" \in Faults
    /\ seen[s] # Object(s)
    /\ Live(s) => SeenNamed(NameOf[s]) \subseteq {s}
    /\ seen' = [seen EXCEPT ![s] = Object(s)]
    /\ UNCHANGED <<cacheVars, phase, nodeName, apiNodes, readyNodes, deletedEvt, sliceVars,
                   nodeStep, seedVars, janVars, calls, walk>>

-----------------------------------------------------------------------------
(* Sequences of cache calls, and one call of a goroutine's sequence.       *)

call(op, s, n) == [op |-> op, s |-> s, n |-> n]

ForgetSlice(s, n) ==
    <<call("rollback", s, NoNode), call("unconfirm", s, NoNode)>>
    \o (IF n # NoNode THEN <<call("release", s, n)>> ELSE <<>>)
    \o <<call("untomb", s, NoNode)>>

SyncCacheFromSlice(s, n, p) ==
    IF n = NoNode THEN <<>>
    ELSE CASE p = "Ready"    -> <<call("promote", s, n)>>
           [] p = "Released" -> <<call("release", s, n)>>
           [] p = "Failed"   -> <<call("fail", s, n)>>
           [] OTHER          -> <<>>

(* ReleaseSliceOnce and FailSliceOnce continue after their unlock. *)
Continuation(c) ==
    CASE c.op = "release" /\ syncedPhaseBySlice[c.s] # "Released" /\ Allocated(c.s)
           -> <<call("unallocate", c.s, c.n)>>
      [] c.op = "fail" /\ FailApplies(c.s)
           -> (IF Allocated(c.s) THEN <<call("unallocate", c.s, c.n)>> ELSE <<>>)
              \o <<call("unconfirm", c.s, NoNode)>>
      [] OTHER -> <<>>

CacheCall(g) ==
    /\ calls[g] # <<>>
    /\ LET c == Head(calls[g]) IN
       /\ \/ c.op = "rollback"   /\ RollbackAssumedSlice(c.s)
          \/ c.op = "unconfirm"  /\ ReleaseConfirmedSlice(c.s)
          \/ c.op = "release"    /\ ReleaseSliceOnce(c.s)
          \/ c.op = "fail"       /\ FailSliceOnce(c.s)
          \/ c.op = "unallocate" /\ ReleaseAllocated(c.n, c.s)
          \/ c.op = "untomb"     /\ DropTombstone(c.s)
          \/ c.op = "promote"    /\ PromoteSliceToAllocatedOnce(c.s, c.n)
       /\ calls' = [calls EXCEPT ![g] = Continuation(c) \o Tail(@)]
    /\ UNCHANGED <<apiVars, sliceVars, nodeStep, seedVars, janVars, walk>>

-----------------------------------------------------------------------------
(* The slice reconciler (one worker) and the scheduling cycle it runs.     *)

Reconciling(step) == cycle.step = step /\ calls["reconciler"] = <<>>

(* Reconcile of a name: forget a UID that is gone or was replaced, apply   *)
(* the phase read to the cache, and go on to Schedule if it is unbound.    *)
ReconcileGone(nm) ==
    /\ Reconciling("idle")
    /\ SeenNamed(nm) = {}
    /\ tracked[nm].uid # NoSlice
    /\ tracked' = [tracked EXCEPT ![nm] = NotTracked]
    /\ calls' = [calls EXCEPT !["reconciler"] =
                    ForgetSlice(tracked[nm].uid, tracked[nm].node)]
    /\ UNCHANGED <<cacheVars, apiVars, cycle, nodeStep, seedVars,
                   janVars, walk>>

Replaced(s) == tracked[NameOf[s]].uid \notin {NoSlice, s}

ReconcileSlice(s) ==
    /\ Reconciling("idle")
    /\ SeenLive(s)
    /\ LET sl == View(s)  old == tracked[NameOf[s]] IN
       /\ tracked' = [tracked EXCEPT ![NameOf[s]] = [uid |-> s, node |-> sl.node]]
       /\ calls' = [calls EXCEPT !["reconciler"] =
                      (IF Replaced(s) THEN ForgetSlice(old.uid, old.node) ELSE <<>>)
                      \o SyncCacheFromSlice(s, sl.node, sl.phase)]
       /\ cycle' = IF sl.phase = "Pending" /\ sl.node = NoNode
                     THEN [step |-> "schedule", s |-> s, n |-> NoNode] ELSE Idle
    /\ UNCHANGED <<cacheVars, apiVars, nodeStep, seedVars, janVars, walk>>

(* A member of a gang whose reservation is dead is marked Failed instead of  *)
(* scheduled. The update carries the version read: a newer one refuses it.   *)
FailOrphan ==
    /\ Reconciling("schedule")
    /\ cycle.s \in GangMember
    /\ phase[cycle.s] = "Pending" /\ nodeName[cycle.s] = NoNode
    /\ phase' = [phase EXCEPT ![cycle.s] = "Failed"]
    /\ cycle' = Idle
    /\ UNCHANGED <<cacheVars, nodeName, apiNodes, readyNodes, deletedEvt, seen, tracked,
                   nodeStep, seedVars, janVars, calls, walk>>

(* The cycle ends without a bind; the deferred RollbackIfNotConfirmed runs. *)
AbandonCycle ==
    /\ cycle' = Idle
    /\ calls' = [calls EXCEPT !["reconciler"] = <<call("rollback", cycle.s, NoNode)>>]

Advance(step) == cycle' = [cycle EXCEPT !.step = step]

(* The fast-forward onto a hold kept by an earlier cycle, else Filter and    *)
(* Score: some node that fits now. The cycle ends without a reservation      *)
(* while the warm-up gate is closed, when the namespace is over quota, when  *)
(* a read on the way fails and when no node fits (preemption included).      *)
ScheduleStart ==
    /\ Reconciling("schedule")
    /\ LET s == cycle.s  held == assumedBySlice[s] IN
       \/ cycle' = Idle
       \/ /\ seeded /\ held # NoNode
          /\ cycle' = [step |-> "gate", s |-> s, n |-> held]
       \/ /\ seeded /\ held = NoNode
          /\ \E n \in nodes : CanFit(n, s) /\ cycle' = [step |-> "reserve", s |-> s, n |-> n]
    /\ UNCHANGED <<cacheVars, apiVars, tracked, nodeStep, seedVars, janVars, calls, walk>>

Reserve ==
    /\ Reconciling("reserve")
    /\ \/ AssumeSlice(cycle.s, cycle.n) /\ Advance("gate")
       \/ ~CanAssume(cycle.s, cycle.n) /\ cycle' = Idle /\ UNCHANGED cacheVars
    /\ UNCHANGED <<apiVars, tracked, nodeStep, seedVars, janVars, calls, walk>>

(* The gang gate: solo slices pass; a gang member is allowed, deferred with *)
(* its hold kept (MarkHeld), or told to wait, retry or give up. The gate    *)
(* re-reads the slice by name first and fails closed.                       *)
Target == Named(NameOf[cycle.s])
SeenTarget == SeenNamed(NameOf[cycle.s])

Gate ==
    /\ Reconciling("gate")
    /\ \/ SeenTarget # {} /\ Advance("pin") /\ UNCHANGED calls
       \/ SeenTarget # {} /\ cycle.s \in GangMember /\ cycle' = Idle /\ UNCHANGED calls
       \/ /\ SeenTarget = {} \/ cycle.s \in GangMember \/ "apiError" \in Faults
          /\ AbandonCycle
    /\ UNCHANGED <<cacheVars, apiVars, tracked, nodeStep, seedVars, janVars, walk>>

(* PinAssumption(bindPinTTL): the hold must still be there. *)
Pin ==
    /\ Reconciling("pin")
    /\ \/ assumedBySlice[cycle.s] # NoNode /\ Advance("bindSpec") /\ UNCHANGED calls
       \/ assumedBySlice[cycle.s] = NoNode /\ AbandonCycle
    /\ UNCHANGED <<cacheVars, apiVars, tracked, nodeStep, seedVars, janVars, walk>>

(* bindToKubernetesAPI reads the slice and writes it by name, twice:         *)
(* spec.nodeName, then status.phase. A failed call, or no object, ends in a  *)
(* rollback.                                                                 *)
BindSpec ==
    /\ Reconciling("bindSpec")
    /\ \/ /\ SeenTarget # {}
          /\ \E t \in Target : nodeName' = [nodeName EXCEPT ![t] = cycle.n]
          /\ Advance("bindStatus") /\ UNCHANGED calls
       \/ /\ SeenTarget = {} \/ Target = {} \/ "apiError" \in Faults
          /\ AbandonCycle /\ UNCHANGED nodeName
    /\ UNCHANGED <<cacheVars, phase, apiNodes, readyNodes, deletedEvt, seen, tracked,
                   nodeStep, seedVars, janVars, walk>>

BindStatus ==
    /\ Reconciling("bindStatus")
    /\ \/ /\ \E t \in Target : phase' = [phase EXCEPT ![t] = "Scheduled"]
          /\ Advance("confirm") /\ UNCHANGED calls
       \/ /\ Target = {} \/ "apiError" \in Faults
          /\ AbandonCycle /\ UNCHANGED phase
    /\ UNCHANGED <<cacheVars, nodeName, apiNodes, readyNodes, deletedEvt, seen, tracked,
                   nodeStep, seedVars, janVars, walk>>

Confirm ==
    /\ Reconciling("confirm")
    /\ ConfirmSliceOrRearm(cycle.s, cycle.n)
    /\ cycle' = Idle
    /\ UNCHANGED <<apiVars, tracked, nodeStep, seedVars, janVars, calls, walk>>

(* The TTL reaper drops a hold whose TTL has elapsed. Inside the bind calls *)
(* that happens only if they outlast the pin.                               *)
reapExpiredAssumptions(s) ==
    /\ assumedBySlice[s] # NoNode
    /\ (s = cycle.s /\ cycle.step \in {"bindSpec", "bindStatus", "confirm"})
           => "slowBind" \in Faults
    /\ RollbackAssumedSlice(s)
    /\ UNCHANGED <<apiVars, sliceVars, nodeStep, seedVars, janVars, calls, walk>>

-----------------------------------------------------------------------------
(* The node reconciler (one worker).                                       *)

(* The node object is gone: its deletion event is delivered once. *)
ReconcileNodeGone(n) ==
    /\ nodeStep = NodeIdle
    /\ n \in deletedEvt
    /\ n \notin apiNodes
    /\ deletedEvt' = deletedEvt \ {n}
    /\ RemoveNode(n)
    /\ UNCHANGED <<phase, nodeName, apiNodes, readyNodes, seen, sliceVars, nodeStep,
                   seedVars, janVars, calls, walk>>

(* HasNode decides whether the re-walk will run. (The reconcile of a node the *)
(* cache knows, with the health it has, changes nothing and is left out.)     *)
ReconcileNode(n) ==
    /\ nodeStep = NodeIdle
    /\ n \in apiNodes
    /\ n \in nodes => n \in deletedEvt \/ (n \in healthy) # (n \in readyNodes)
    /\ deletedEvt' = deletedEvt \ {n}
    /\ nodeStep' = [step |-> IF n \in nodes THEN "update" ELSE "updateNew", n |-> n]
    /\ UNCHANGED <<cacheVars, phase, nodeName, apiNodes, readyNodes, seen, sliceVars,
                   seedVars, janVars, calls, walk>>

NodeUpdate ==
    /\ nodeStep.step \in {"update", "updateNew"}
    /\ UpdateNode(nodeStep.n)
    /\ nodeStep' = [nodeStep EXCEPT !.step = IF @ = "updateNew" THEN "list" ELSE "health"]
    /\ UNCHANGED <<apiVars, sliceVars, seedVars, janVars, calls, walk>>

(* The List of the re-walk; when it fails the reconcile is retried. *)
NodeList ==
    /\ nodeStep.step = "list"
    /\ \/ /\ walk' = [walk EXCEPT !["node"] =
                {<<s, nodeStep.n>> : s \in {t \in Slice :
                             View(t) = [phase |-> "Ready", node |-> nodeStep.n]}}]
          /\ nodeStep' = [nodeStep EXCEPT !.step = "walk"]
       \/ "apiError" \in Faults /\ nodeStep' = NodeIdle /\ UNCHANGED walk
    /\ UNCHANGED <<cacheVars, apiVars, sliceVars, seedVars, janVars, calls>>

(* One iteration of a re-charge loop of the node reconciler or the seed. *)
Recharge(w) ==
    /\ \E p \in walk[w] :
          /\ PromoteSliceToAllocatedOnce(p[1], p[2])
          /\ walk' = [walk EXCEPT ![w] = @ \ {p}]
    /\ UNCHANGED <<apiVars, sliceVars, nodeStep, seedVars, janVars, calls>>

NodeWalked ==
    /\ nodeStep.step = "walk" /\ walk["node"] = {}
    /\ nodeStep' = [nodeStep EXCEPT !.step = "health"]
    /\ UNCHANGED <<cacheVars, apiVars, sliceVars, seedVars, janVars, calls, walk>>

NodeHealth ==
    /\ nodeStep.step = "health"
    /\ SetNodeHealth(nodeStep.n, nodeStep.n \in readyNodes)
    /\ nodeStep' = NodeIdle
    /\ UNCHANGED <<apiVars, sliceVars, seedVars, janVars, calls, walk>>

-----------------------------------------------------------------------------
(* The start-up seed: nodes first, then the slices already bound.          *)

SeedListNodes ==
    /\ spc = "nodes"
    /\ seedNodes' = apiNodes
    /\ spc' = "register"
    /\ UNCHANGED <<cacheVars, apiVars, sliceVars, nodeStep, janVars, calls, walk>>

(* UpdateNode of one listed node (and its zone, which carries no capacity). *)
SeedRegister(n) ==
    /\ spc = "register"
    /\ n \in seedNodes
    /\ UpdateNode(n)
    /\ seedNodes' = seedNodes \ {n}
    /\ UNCHANGED <<apiVars, sliceVars, nodeStep, spc, janVars, calls, walk>>

SeedRegistered ==
    /\ spc = "register" /\ seedNodes = {}
    /\ spc' = "slices"
    /\ UNCHANGED <<cacheVars, apiVars, sliceVars, nodeStep, seedNodes, janVars,
                   calls, walk>>

(* The phases the seed re-accounts; a failed slice list leaves none. *)
SeedCounted == {"Scheduled", "Ready"}

SeedListSlices ==
    /\ spc = "slices"
    /\ \/ walk' = [walk EXCEPT !["seed"] =
              {<<s, View(s).node>> : s \in {t \in Slice :
                   View(t).node # NoNode /\ View(t).phase \in SeedCounted}}]
       \/ "apiError" \in Faults /\ UNCHANGED walk
    /\ spc' = "walk"
    /\ UNCHANGED <<cacheVars, apiVars, sliceVars, nodeStep, seedNodes, janVars, calls>>

SeedDone ==
    /\ spc = "walk" /\ walk["seed"] = {}
    /\ MarkSeeded
    /\ spc' = "done"
    /\ UNCHANGED <<apiVars, sliceVars, nodeStep, seedNodes, janVars, calls, walk>>

-----------------------------------------------------------------------------
(* The janitor: snapshot the tracked UIDs, list, forget those without an   *)
(* object.                                                                 *)

JanitorSnapshot ==
    /\ jpc = "idle"
    /\ TrackedSliceUIDs # {}
    /\ jset' = {<<s, TrackedNode(s)>> : s \in TrackedSliceUIDs}
    /\ jpc' = "list"
    /\ UNCHANGED <<cacheVars, apiVars, sliceVars, nodeStep, seedVars, calls, walk>>

JanitorList ==
    /\ jpc = "list"
    /\ \/ /\ jset' = {p \in jset : ~Live(p[1])}
          /\ jpc' = "sweep"
       \/ "apiError" \in Faults /\ jset' = {} /\ jpc' = "idle"
    /\ UNCHANGED <<cacheVars, apiVars, sliceVars, nodeStep, seedVars, calls, walk>>

JanitorForget ==
    /\ jpc = "sweep" /\ calls["janitor"] = <<>>
    /\ \E p \in jset :
          /\ calls' = [calls EXCEPT !["janitor"] = ForgetSlice(p[1], p[2])]
          /\ jset' = jset \ {p}
    /\ UNCHANGED <<cacheVars, apiVars, sliceVars, nodeStep, seedVars, jpc, walk>>

JanitorDone ==
    /\ jpc = "sweep" /\ calls["janitor"] = <<>> /\ jset = {}
    /\ jpc' = "idle"
    /\ UNCHANGED <<cacheVars, apiVars, sliceVars, nodeStep, seedVars, jset, calls, walk>>

-----------------------------------------------------------------------------
(* The rest of the system, as the scheduler sees it: writes to API objects.*)

processVars == <<cacheVars, sliceVars, nodeStep, seedVars, janVars, calls, walk>>

CreateSlice(s) ==
    /\ phase[s] = "Absent"
    /\ Named(NameOf[s]) = {}
    /\ phase' = [phase EXCEPT ![s] = "Pending"]
    /\ UNCHANGED <<processVars, nodeName, apiNodes, readyNodes, deletedEvt, seen>>

(* The preemptor marks a Ready slice, and takes the mark back if it cannot     *)
(* mark the other victims. A failed slice has no hardware and its release is   *)
(* one move. Scheduled stands for Scheduled and Allocating, which the scheduler*)
(* treats alike.                                                               *)
Moves == {<<"Scheduled", "Ready">>, <<"Scheduled", "Failed">>, <<"Ready", "Failed">>,
          <<"Ready", "Preempting">>, <<"Preempting", "Ready">>,
          <<"Preempting", "Releasing">>, <<"Ready", "Releasing">>,
          <<"Releasing", "Released">>, <<"Failed", "Released">>}

(* The node agent, the slice controller and the preemptor move the phase. *)
MovePhase(s) ==
    /\ \E m \in Moves : phase[s] = m[1] /\ phase' = [phase EXCEPT ![s] = m[2]]
    /\ UNCHANGED <<processVars, nodeName, apiNodes, readyNodes, deletedEvt, seen>>

(* The finalizer is removed: never allocated, or released. *)
RemoveSlice(s) ==
    /\ phase[s] \in {"Pending", "Scheduled", "Released"}
    /\ phase' = [phase EXCEPT ![s] = "Gone"]
    /\ UNCHANGED <<processVars, nodeName, apiNodes, readyNodes, deletedEvt, seen>>

NodeJoin(n) ==
    /\ n \notin apiNodes
    /\ apiNodes' = apiNodes \cup {n}
    /\ readyNodes' = readyNodes \cup {n}
    /\ UNCHANGED <<processVars, phase, nodeName, deletedEvt, seen>>

NodeLeave(n) ==
    /\ "nodeLoss" \in Faults
    /\ n \in apiNodes
    /\ apiNodes' = apiNodes \ {n}
    /\ readyNodes' = readyNodes \ {n}
    /\ deletedEvt' = deletedEvt \cup {n}
    /\ UNCHANGED <<processVars, phase, nodeName, seen>>

NodeFlip(n) ==
    /\ "notReady" \in Faults
    /\ n \in apiNodes
    /\ readyNodes' = IF n \in readyNodes THEN readyNodes \ {n} ELSE readyNodes \cup {n}
    /\ UNCHANGED <<processVars, phase, nodeName, apiNodes, deletedEvt, seen>>

(* The leader dies and a cold standby takes over, with a fresh list of the   *)
(* objects; deletions that happened before are not events for it.            *)
Failover ==
    /\ "failover" \in Faults
    /\ nodes' = {} /\ healthy' = {} /\ seeded' = FALSE
    /\ reservedVRAM' = [n \in Node |-> 0]
    /\ allocatedVRAM' = [n \in Node |-> 0]
    /\ assumedBySlice' = [s \in Slice |-> NoNode]
    /\ confirmedBySlice' = [s \in Slice |-> NoNode]
    /\ allocatedNodeBySlice' = [s \in Slice |-> NoNode]
    /\ syncedPhaseBySlice' = [s \in Slice |-> ""]
    /\ tracked' = [nm \in Name |-> NotTracked]
    /\ calls' = [c \in Caller |-> <<>>]
    /\ cycle' = Idle /\ nodeStep' = NodeIdle
    /\ spc' = "nodes" /\ seedNodes' = {}
    /\ walk' = [w \in Walker |-> {}]
    /\ jpc' = "idle" /\ jset' = {}
    /\ deletedEvt' = {}
    /\ seen' = IF "staleRead" \in Faults THEN [s \in Slice |-> Object(s)] ELSE seen
    /\ UNCHANGED <<phase, nodeName, apiNodes, readyNodes>>

-----------------------------------------------------------------------------

Reconciler ==
    \/ CacheCall("reconciler")
    \/ \E nm \in Name : ReconcileGone(nm)
    \/ \E s \in Slice : ReconcileSlice(s)
    \/ FailOrphan \/ ScheduleStart \/ Reserve \/ Gate \/ Pin \/ BindSpec \/ BindStatus \/ Confirm

NodeReconciler ==
    \/ \E n \in Node : ReconcileNodeGone(n) \/ ReconcileNode(n)
    \/ NodeUpdate \/ NodeList \/ Recharge("node") \/ NodeWalked \/ NodeHealth

Seed ==
    \/ SeedListNodes \/ (\E n \in Node : SeedRegister(n)) \/ SeedRegistered
    \/ SeedListSlices \/ Recharge("seed") \/ SeedDone

Janitor ==
    \/ CacheCall("janitor")
    \/ JanitorSnapshot \/ JanitorList \/ JanitorForget \/ JanitorDone

Environment ==
    \/ \E s \in Slice : CreateSlice(s) \/ MovePhase(s) \/ RemoveSlice(s) \/ Observe(s)
    \/ \E n \in Node : NodeJoin(n) \/ NodeLeave(n) \/ NodeFlip(n)
    \/ Failover

Next == \/ Reconciler \/ NodeReconciler \/ Seed \/ Janitor
        \/ \E s \in Slice : reapExpiredAssumptions(s)
        \/ Environment

Spec == Init /\ [][Next]_vars

(* Every goroutine keeps running: the two workers, the seed's retry loop and *)
(* the janitor's ticker. Nothing is assumed of the reaper or the environment.*)
FairSpec ==
    /\ Spec
    /\ WF_vars(Reconciler) /\ WF_vars(NodeReconciler)
    /\ WF_vars(Seed) /\ WF_vars(Janitor)

-----------------------------------------------------------------------------
(* Properties.                                                             *)

(* The inductive invariant behind the two reservation properties.           *)

HoldsExclusive ==
    \A s \in Slice : assumedBySlice[s] # NoNode => confirmedBySlice[s] = NoNode

(* One object per name, none bound before it exists. *)
ObjectsSane ==
    /\ \A s, t \in Slice : Live(s) /\ Live(t) /\ NameOf[s] = NameOf[t] => s = t
    /\ \A s \in Slice : phase[s] = "Absent" => nodeName[s] = NoNode

(* A confirmed hold is on the node its slice is bound to; only a slice that *)
(* was replaced while its bind was under way has one without being bound.   *)
ConfirmedWhereBound ==
    \A s \in Slice : confirmedBySlice[s] # NoNode =>
        \/ nodeName[s] = confirmedBySlice[s]
        \/ nodeName[s] = NoNode /\ phase[s] = "Gone"

(* A promotion still to be made names the node its slice is bound to. *)
BoundCall == {c \in Call : c.op = "promote" => c.n \in Node /\ nodeName[c.s] = c.n}

PromotionsWhereBound ==
    /\ \A w \in Walker : \A p \in walk[w] : nodeName[p[1]] = p[2]
    /\ \A g \in Caller : calls[g] \in Seq(BoundCall)

(* What a cycle relies on: nobody else binds the name before it does, nobody *)
(* confirms its slice, and the hold it took is where it took it, or gone.    *)
CycleOwnsBind ==
    cycle # Idle =>
        /\ phase[cycle.s] # "Absent"
        /\ cycle.step \in {"schedule", "reserve", "gate", "pin", "bindSpec"} =>
              /\ nodeName[cycle.s] = NoNode
              /\ \A t \in Named(NameOf[cycle.s]) : nodeName[t] = NoNode
        /\ cycle.step \in {"bindStatus", "confirm"} =>
              \/ nodeName[cycle.s] = cycle.n
              \/ nodeName[cycle.s] = NoNode /\ phase[cycle.s] = "Gone"
        /\ cycle.step \in {"gate", "pin", "bindSpec", "bindStatus", "confirm"} =>
              /\ confirmedBySlice[cycle.s] = NoNode
              /\ assumedBySlice[cycle.s] \in {cycle.n, NoNode}

(* A node is never charged for reserved bytes that no hold accounts for: a  *)
(* hold that is dropped, confirmed or promoted on any path gives back what  *)
(* it took, so capacity cannot leak from the reserved counter.              *)
ReservationsBacked ==
    \A n \in Node : reservedVRAM[n] <= Bytes[HeldOn(n)]

(* The counters of a node die with its NodeState. *)
AbsentUncharged == \A n \in Node \ nodes : reservedVRAM[n] = 0

HoldInv ==
    /\ TypeOK /\ HoldsExclusive /\ AbsentUncharged /\ ObjectsSane /\ ConfirmedWhereBound
    /\ PromotionsWhereBound /\ CycleOwnsBind /\ ReservationsBacked

(* The slices that occupy VRAM on a node, or will without another admission. *)
OccupiedBy(n) ==
    {s \in Slice : /\ nodeName[s] = n
                   /\ phase[s] \in {"Scheduled", "Ready", "Preempting", "Releasing"}}

(* Without a lost node the reserved counter is exactly the sum of the holds. *)
ReservationsExact == \A n \in Node : reservedVRAM[n] = Bytes[HeldOn(n)]

(* What is bound is charged: once scheduling is open, a bound slice that    *)
(* occupies a node the cache knows is in one of the three states on it, or  *)
(* its bind is about to be confirmed.                                       *)
BoundIsCharged ==
    seeded => \A n \in nodes : \A s \in OccupiedBy(n) :
        \/ n \in {assumedBySlice[s], confirmedBySlice[s], allocatedNodeBySlice[s]}
        \/ cycle = [step |-> "confirm", s |-> s, n |-> n]

(* The scheduler never binds more VRAM to a node than the node has. *)
NoOverAdmission == \A n \in Node : Bytes[OccupiedBy(n)] <= Capacity[n]

(* A deleted slice does not keep capacity: whatever races its deletion, it is *)
(* in the end out of the cache for good, through the delete event or through  *)
(* the janitor.                                                               *)
GoneForgotten ==
    \A s \in Slice :
        phase[s] = "Gone" ~> [](\A n \in Node : s \notin HeldOn(n) \cup AllocatedOn(n))

=============================================================================
