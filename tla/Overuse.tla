------------------------------ MODULE Overuse ------------------------------
(***************************************************************************)
(* The node agent's detector of over-use (internal/nodeagent/              *)
(* slice_violation.go, enforcement.go), for one slice and the pods of its  *)
(* claim: cycles that compare the memory in use with the grant, a streak   *)
(* and two grace periods before anything is done, warnings on the pods and *)
(* the slice, evictions. What the detector knows is lost when it restarts. *)
(*                                                                         *)
(* Time passes in units, one between two cycles.                           *)
(***************************************************************************)
EXTENDS Integers, FiniteSets, Functions

CONSTANTS
    Pods,             \* the names of the pods with the claim's annotation
    Modes,            \* the modes the detector may be started in
    StreakThreshold,  \* sliceOveruseStreakThreshold, in cycles
    SoftGrace,        \* enforcementGracePeriod, in units of time
    EvictGrace,       \* evictionGracePeriod
    MaxEvictions,     \* maxEvictionsPerWindow
    Window,           \* evictionWindow
    Faults,           \* what may go wrong, see Fault
    MaxFaults         \* bound: how often

(* nvml: the processes, the slices or the pods cannot be listed.  miss: the   *)
(* two snapshots disagree on a pod.  write: updates fail.  lookup: the        *)
(* namespace cannot be read.  pdb: a disruption budget forbids the eviction.  *)
(* lostReply: the eviction is done and its answer lost.  restart: the agent   *)
(* restarts.  reuse: a pod's name is taken again before the detector looked.  *)
Fault == {"nvml", "miss", "write", "lookup", "pdb", "lostReply", "restart", "reuse"}

ASSUME OveruseAssumption ==
    /\ Modes \subseteq {"off", "softwarn", "evict"} /\ Modes # {}
    /\ StreakThreshold \in Nat \ {0} /\ SoftGrace \in Nat /\ EvictGrace \in Nat
    /\ MaxEvictions \in Nat /\ Window \in Nat \ {0}
    /\ Faults \subseteq Fault /\ MaxFaults \in Nat

VARIABLES
    bound,    \* the slice is allocated on this node
    pod,      \* the pods
    hog,      \* the pods that use more than the grant (and its tolerance)
    exempt,   \* the label on the namespace
    shown,    \* the pods that carry a warning, and the slice's true conditions
    mem,      \* the memory of the detector
    pc,       \* where its cycle stands
    usage,    \* what attribute found in this cycle
    queue,    \* the pods that maybeEvict still has to look at
    gate,     \* those of them that are to be evicted next
    faults,   \* how often something went wrong
    spared,   \* history: the label has been there since the cycle began
    sustained,\* history: for how long every look has shown over-use
    botched   \* history: the warnings that one attempt failed to withdraw

world == <<bound, pod, hog, exempt>>
vars == <<world, shown, mem, pc, usage, queue, gate, faults, spared, sustained, botched>>

Deadline == SoftGrace + EvictGrace
Cap == StreakThreshold + Deadline    \* bound: of the history of time
Unset == -1

V == "MemoryViolation"
E == "MemoryEnforcement"
Surface == Pods \cup {V, E}

(* The type of the world and of the detector. *)
TypeOK ==
    /\ bound \in BOOLEAN /\ exempt \in BOOLEAN
    /\ pod \in [Pods -> {"none", "running", "terminating"}]
    /\ hog \subseteq Pods /\ shown \subseteq Surface
    /\ mem \in [mode : Modes, streak : 0..StreakThreshold, start : Unset..Deadline,
                enforced : BOOLEAN, stampedPods : SUBSET Pods, handled : SUBSET Pods,
                times : [0..(Window - 1) -> 0..MaxEvictions]]
    /\ ~mem.enforced => mem.stampedPods = {}
    /\ pc \in {"down", "wait", "attribute", "evaluate", "evict", "prune"}
    /\ usage \in [here : BOOLEAN, over : BOOLEAN, pods : SUBSET Pods]
    /\ queue \subseteq usage.pods /\ gate \subseteq queue
    /\ faults \in 0..MaxFaults
    /\ spared \in BOOLEAN /\ sustained \in Unset..Cap /\ botched \subseteq shown

(* violationStart is kept as the time since then, evictionTimes as how many   *)
(* evictions were so long ago; active is what the streak says of it.         *)
Fresh(m) == [mode |-> m, streak |-> 0, start |-> Unset, enforced |-> FALSE,
             stampedPods |-> {}, handled |-> {}, times |-> [t \in 0..(Window - 1) |-> 0]]

Present == {p \in Pods : pod[p] # "none"}
NoUsage == [here |-> FALSE, over |-> FALSE, pods |-> {}]

Init ==
    /\ bound = TRUE
    /\ pod = [p \in Pods |-> "running"]
    /\ hog = {} /\ exempt = FALSE /\ shown = {}
    /\ mem \in {Fresh(m) : m \in Modes}
    /\ pc = "down"
    /\ usage = NoUsage /\ queue = {} /\ gate = {}
    /\ faults = 0
    /\ spared = FALSE /\ sustained = Unset /\ botched = {}

GoesWrong(f) == f \in Faults /\ faults < MaxFaults /\ faults' = faults + 1
MayGoWrong(f, wrong) == IF wrong THEN GoesWrong(f) ELSE UNCHANGED faults

(* One attempt each to set the warnings On and to withdraw Off, on what is    *)
(* there; an update that fails is not repeated.                              *)
Show(On, Off) ==
    LET there == Present \cup IF bound THEN {V, E} ELSE {}
        set   == On \cap there
    IN \E failing \in SUBSET (set \cup (Off \cap shown)) :
          /\ MayGoWrong("write", failing # {})
          /\ shown' = (shown \cup (set \ failing)) \ (Off \ failing)
          /\ botched' = (botched \cup (failing \cap Off)) \cap shown'

Older(age, cap) == IF age \in {Unset, cap} THEN age ELSE age + 1
Lesser(a, b) == IF a < b THEN a ELSE b

-----------------------------------------------------------------------------
(* The cycle.                                                              *)

(* Mutant: the detector starts without a sweep. *)
sweepNothing ==
    /\ pc = "down" /\ pc' = "wait"
    /\ botched' = IF mem.mode = "off" THEN shown ELSE shown \ Pods
    /\ UNCHANGED <<world, shown, faults, mem, usage, queue, gate, spared, sustained>>

(* Start sweeps the stamps of an earlier life off the pods, unless            *)
(* enforcement is off. What is left are the conditions of an earlier life,    *)
(* and the stamps of which the removal failed (all, if the list of pods did). *)
sweepOrphanStamps ==
    /\ pc = "down" /\ pc' = "wait"
    /\ IF mem.mode = "off"
       THEN botched' = shown /\ UNCHANGED <<shown, faults>>
       ELSE \E failing \in SUBSET (shown \cap Pods) :
               /\ MayGoWrong("write", failing # {})
               /\ shown' = shown \ (Pods \ failing)
               /\ botched' = (shown \ Pods) \cup failing
    /\ UNCHANGED <<world, mem, usage, queue, gate, spared, sustained>>

Tick ==
    /\ pc = "wait" /\ pc' = "attribute"
    /\ mem' = [mem EXCEPT !.start = Older(@, Deadline),
                          !.times = [t \in DOMAIN @ |-> IF t = 0 THEN 0 ELSE @[t - 1]]]
    /\ sustained' = Older(sustained, Cap)
    /\ UNCHANGED <<world, shown, usage, queue, gate, faults, spared, botched>>

(* attribute lists the slices, the pods and, twice, the processes. If that    *)
(* fails the cycle ends, and all that is remembered stays.                   *)
attribute ==
    /\ pc = "attribute"
    /\ \/ \E missed \in SUBSET Present :
            /\ MayGoWrong("miss", missed # {})
            /\ usage' = LET found == IF bound THEN Present \ missed ELSE {}
                        IN [here |-> bound, over |-> found \cap hog # {}, pods |-> found]
            /\ pc' = IF bound THEN "evaluate" ELSE "prune"
            /\ spared' = exempt
            /\ sustained' = CASE ~usage'.over       -> Unset
                              [] sustained = Unset  -> 0
                              [] OTHER              -> sustained
            /\ UNCHANGED <<mem, shown, botched>>
       \/ /\ GoesWrong("nvml")
          /\ pc' = "wait"
          /\ UNCHANGED <<mem, shown, botched, usage, spared, sustained>>
    /\ UNCHANGED <<world, queue, gate>>

(* evaluate: how many cycles in a row have found over-use. *)
evaluate == IF usage.over THEN Lesser(mem.streak + 1, StreakThreshold) ELSE 0
violating == evaluate = StreakThreshold
active == mem.streak = StreakThreshold

onset == IF violating /\ ~active THEN {V} ELSE {}
cleared == IF ~violating /\ active THEN {V} ELSE {}

(* What is remembered of a warning that is given, and of one withdrawn. *)
engage(m) == [m EXCEPT !.enforced = TRUE, !.stampedPods = usage.pods]

(* Mutant: the time of the violation is kept when over-use pauses. *)
forgetKeepingStart(m) == [m EXCEPT !.enforced = FALSE, !.stampedPods = {}]

forget(m) == [m EXCEPT !.enforced = FALSE, !.stampedPods = {}, !.start = Unset]

EvaluateFrame == UNCHANGED <<world, usage, gate, spared, sustained>>

(* With enforcement off there is only the condition MemoryViolation. *)
ObserveOnly ==
    /\ pc = "evaluate" /\ mem.mode = "off"
    /\ Show(onset, cleared)
    /\ mem' = [mem EXCEPT !.streak = evaluate]
    /\ pc' = "prune"
    /\ UNCHANGED queue /\ EvaluateFrame

(* clearEnforcement: the over-use is over, and the warning is withdrawn. *)
clearEnforcement ==
    /\ pc = "evaluate" /\ mem.mode # "off" /\ ~violating
    /\ Show({}, cleared \cup (IF mem.enforced THEN mem.stampedPods \cup {E} ELSE {}))
    /\ mem' = forget([mem EXCEPT !.streak = evaluate])
    /\ pc' = "prune"
    /\ UNCHANGED queue /\ EvaluateFrame

(* enforce, in the face of a violation: after the first grace period the pods *)
(* are warned, once; after the second they are evicted.                      *)
enforce ==
    /\ pc = "evaluate" /\ mem.mode # "off" /\ violating
    /\ LET start == IF mem.start = Unset THEN 0 ELSE mem.start
           now   == [mem EXCEPT !.streak = evaluate, !.start = start]
       IN /\ \/ /\ start >= SoftGrace /\ ~mem.enforced
                /\ Show(onset \cup {E} \cup usage.pods, {})
                /\ mem' = engage(now)
             \/ /\ start < SoftGrace \/ mem.enforced
                /\ Show(onset, {})
                /\ mem' = now
          /\ IF mem.mode = "evict" /\ start >= Deadline
             THEN pc' = "evict" /\ queue' = usage.pods
             ELSE pc' = "prune" /\ UNCHANGED queue
    /\ EvaluateFrame

-----------------------------------------------------------------------------
(* maybeEvict, pod by pod.                                                 *)

EvictFrame == UNCHANGED <<bound, hog, exempt, usage, spared, sustained>>
Done(p) == queue' = queue \ {p} /\ gate' = {}

(* The answer to whether the namespace is exempt; TRUE if it cannot be read. *)
isExempt(answer) == \/ answer = exempt /\ UNCHANGED faults
                    \/ answer = TRUE /\ GoesWrong("lookup")

(* Mutant: one eviction too many is allowed. *)
evictionAllowedOneMore == SumFunction(mem.times) <= MaxEvictions

evictionAllowed == SumFunction(mem.times) < MaxEvictions

(* Mutant: a pod that was found exempt counts as handled. *)
maybeEvictCachingExempt ==
    /\ pc = "evict" /\ gate = {}
    /\ \E p \in queue, e \in BOOLEAN :
          /\ isExempt(e)
          /\ mem' = IF e THEN [mem EXCEPT !.handled = @ \cup {p}] ELSE mem
          /\ IF p \notin mem.handled /\ ~e /\ evictionAllowed
             THEN gate' = {p} /\ UNCHANGED queue
             ELSE Done(p)
    /\ UNCHANGED <<pod, shown, pc, botched>> /\ EvictFrame

(* A pod that was handled, or whose eviction is blocked, is passed over in    *)
(* this cycle; otherwise its eviction is asked for.                          *)
maybeEvict ==
    /\ pc = "evict" /\ gate = {}
    /\ \E p \in queue :
          \/ p \in mem.handled /\ Done(p) /\ UNCHANGED faults
          \/ /\ p \notin mem.handled
             /\ \E e \in BOOLEAN :
                   /\ isExempt(e)
                   /\ IF ~e /\ evictionAllowed
                      THEN gate' = {p} /\ UNCHANGED queue
                      ELSE Done(p)
    /\ UNCHANGED <<pod, shown, mem, pc, botched>> /\ EvictFrame

(* evictViaAPI: the API takes the pod that has this name now. Success is      *)
(* recorded, shown on the slice, and counted against the limit.              *)
evictViaAPI ==
    /\ pc = "evict"
    /\ \E p \in gate :
          /\ Done(p)
          /\ \/ /\ pod[p] = "none"
                /\ mem' = [mem EXCEPT !.handled = @ \cup {p}]
                /\ UNCHANGED <<pod, shown, botched, faults>>
             \/ /\ pod[p] # "none"
                /\ pod' = [pod EXCEPT ![p] = "terminating"]
                /\ mem' = [mem EXCEPT !.handled = @ \cup {p}, !.times[0] = @ + 1]
                /\ Show({E}, {})
             \/ /\ pod[p] # "none"
                /\ GoesWrong("lostReply")
                /\ pod' = [pod EXCEPT ![p] = "terminating"]
                /\ UNCHANGED <<mem, shown, botched>>
             \/ /\ GoesWrong("pdb")
                /\ UNCHANGED <<pod, mem, shown, botched>>
    /\ UNCHANGED pc /\ EvictFrame

maybeEvictEnds ==
    /\ pc = "evict" /\ queue = {}
    /\ pc' = "prune"
    /\ UNCHANGED <<pod, shown, mem, queue, gate, faults, botched>> /\ EvictFrame

(* The end of detectOnce forgets a slice that is not there any more, and the  *)
(* pods that were not found.                                                 *)
prune ==
    /\ pc = "prune" /\ pc' = "wait"
    /\ IF ~usage.here
       THEN /\ Show({}, mem.stampedPods)
            /\ mem' = [forget(mem) EXCEPT !.streak = 0, !.handled = {}]
       ELSE /\ mem' = [mem EXCEPT !.handled = @ \cap usage.pods]
            /\ UNCHANGED <<shown, faults, botched>>
    /\ usage' = NoUsage
    /\ UNCHANGED <<world, queue, gate, spared, sustained>>

Detector ==
    \/ sweepOrphanStamps \/ Tick \/ attribute
    \/ ObserveOnly \/ clearEnforcement \/ enforce
    \/ maybeEvict \/ evictViaAPI \/ maybeEvictEnds \/ prune

-----------------------------------------------------------------------------
(* The agent, the pods, the users.                                         *)

DetectorFrame == UNCHANGED <<mem, pc, usage, queue, gate, sustained>>

(* The agent restarts, perhaps in another mode. *)
Restart ==
    /\ GoesWrong("restart")
    /\ mem' \in {Fresh(m) : m \in Modes}
    /\ pc' = "down"
    /\ usage' = NoUsage /\ queue' = {} /\ gate' = {}
    /\ spared' = FALSE /\ sustained' = Unset
    /\ UNCHANGED <<world, shown, botched>>

(* A pod begins, or ceases, to use more than the grant. *)
Use ==
    /\ \E p \in Present : hog' = IF p \in hog THEN hog \ {p} ELSE hog \cup {p}
    /\ UNCHANGED <<bound, pod, exempt, shown, faults, spared, botched>> /\ DetectorFrame

DeletePod ==
    /\ \E p \in Pods : pod[p] = "running" /\ pod' = [pod EXCEPT ![p] = "terminating"]
    /\ UNCHANGED <<bound, hog, exempt, shown, faults, spared, botched>> /\ DetectorFrame

(* A pod goes, and what it was stamped with. *)
PodGoes ==
    /\ \E p \in Pods :
          /\ pod[p] = "terminating"
          /\ pod' = [pod EXCEPT ![p] = "none"]
          /\ hog' = hog \ {p} /\ shown' = shown \ {p} /\ botched' = botched \ {p}
    /\ UNCHANGED <<bound, exempt, faults, spared>> /\ DetectorFrame

(* A pod of that name is created again. *)
CreatePod ==
    /\ \E p \in Pods :
          /\ pod[p] = "none"
          /\ p \in mem.handled => "reuse" \in Faults
          /\ pod' = [pod EXCEPT ![p] = "running"]
    /\ faults < MaxFaults /\ faults' = faults + 1
    /\ UNCHANGED <<bound, hog, exempt, shown, spared, botched>> /\ DetectorFrame

LabelNamespace ==
    /\ exempt' = ~exempt
    /\ spared' = FALSE
    /\ UNCHANGED <<bound, pod, hog, shown, faults, botched>> /\ DetectorFrame

(* The slice is deleted or released; another one of its name is allocated. *)
Unbind ==
    /\ bound
    /\ bound' = FALSE
    /\ shown' = shown \cap Pods /\ botched' = botched \cap Pods
    /\ UNCHANGED <<pod, hog, exempt, faults, spared>> /\ DetectorFrame

Bind ==
    /\ ~bound
    /\ bound' = TRUE
    /\ UNCHANGED <<pod, hog, exempt, shown, faults, spared, botched>> /\ DetectorFrame

Next == \/ Detector \/ Restart
        \/ Use \/ DeletePod \/ PodGoes \/ CreatePod
        \/ LabelNamespace \/ Unbind \/ Bind

Spec == Init /\ [][Next]_vars

(* The ticker goes on, and a pod that is being deleted goes. *)
FairSpec == Spec /\ WF_vars(Detector) /\ WF_vars(PodGoes)

-----------------------------------------------------------------------------
(* Properties.                                                             *)

Evicts(p) == pc = "evict" /\ p \in gate /\ gate' = {} /\ pc' = "evict" /\ pod'[p] # pod[p]

(* Nothing is evicted before its time: every look at the slice has shown      *)
(* over-use, for the streak and both grace periods, in this life of the agent;*)
(* and a namespace that has had its label since the cycle began is spared,    *)
(* also when the label cannot be read ("FAIL CLOSED").                       *)
EvictionEarned ==
    [][\A p \in Pods : Evicts(p) =>
          /\ mem.mode = "evict"
          /\ sustained >= StreakThreshold - 1 + Deadline
          /\ ~spared]_vars

(* "Recovery is first-class": when there is no over-use any more, no warning  *)
(* is left, except where the one update that withdraws it has failed, the     *)
(* conditions that an earlier life of the agent left, and its stamps if       *)
(* enforcement is off in this one.                                           *)
Withdrawn ==
    <>[](~bound \/ Present \cap hog = {}) => <>[](shown \subseteq botched)

(* Over-use that goes on is warned of, and in evict mode no pod goes on with  *)
(* it, unless its namespace is exempt.                                       *)
ActedUpon ==
    /\ <>[](bound /\ Present \cap hog # {} /\ mem.mode # "off") => <>[]mem.enforced
    /\ \A p \in Pods :
          ~ <>[](/\ bound /\ mem.mode = "evict" /\ ~exempt
                 /\ pod[p] = "running" /\ p \in hog)

=============================================================================
