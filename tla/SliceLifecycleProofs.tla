------------------------ MODULE SliceLifecycleProofs ------------------------
(***************************************************************************)
(* Theorems about SliceLifecycle: the node agent's ledger is exact, what a *)
(* slice was granted is backed, a released slice holds nothing, and the    *)
(* promise of CardGrants is kept, for any slices, cards and sizes.         *)
(***************************************************************************)
EXTENDS SliceLifecycle, TLAPS

-----------------------------------------------------------------------------
(* The inductive invariant.                                                *)

(* The slice will not be granted anything any more. *)
GivenUp(s) == obj[s].deleting \/ obj[s].phase \in {"Releasing", "Released", "Failed", "Gone"}

(* Whatever stands for an allocation, in memory or on disk. *)
Records == byAlloc \cup store

GrantingSteps == {"announce", "allocate", "cdi", "save", "ready", "fail"}
ReleasingSteps == {"recover", "teardown", "release", "delete", "report"}

(* The objects: one that was never created is blank, a bind that is half      *)
(* done finds the phase as it was or a slice that is deleted, and a status    *)
(* shows an allocation only once it was granted.                             *)
ObjectsSane ==
    /\ \A s \in Slice : obj[s].phase = "Absent" => obj[s] = Absent
    /\ \A s \in Slice : obj[s].phase = "Gone" => obj[s].deleting
    /\ \A s \in halfBound : obj[s].bound /\ (obj[s].deleting \/ obj[s].phase = "Pending")
    /\ \A s \in Slice : obj[s].n # 0 => GivenUp(s) \/ obj[s].phase \in {"Ready", "Preempting"}

(* What the slice controller found still holds when it writes. *)
CtlSane ==
    /\ ctl.pc \in {"patch", "unfinalize"} => obj[ctl.s].deleting
    /\ ctl.pc = "expire" => ctl.copy.phase = "Preempting"

(* What the agent's worker found still holds, or the slice has been given up. *)
AgentSane ==
    /\ agent.pc # "idle" => boot = "up" /\ obj[agent.s].phase # "Absent"
    /\ agent.pc \in GrantingSteps =>
          /\ ~agent.copy.deleting
          /\ agent.copy.phase \in Unallocated
          /\ obj[agent.s].n = 0 /\ obj[agent.s].phase # "Released"
    /\ agent.pc \in ReleasingSteps => GivenUp(agent.s)

(* A record has a number that was given out, of a slice that was created; a  *)
(* slice has at most one record, in the ledger, on disk or both, and the     *)
(* ledger finds it by the slice.                                             *)
RecordsSane ==
    /\ \A a \in Records : a.n <= attempts[a.s] /\ obj[a.s].phase # "Absent"
    /\ \A a, b \in Records : a.s = b.s => a = b
    /\ \A a \in byAlloc : bySlice[a.s] = a.n
    /\ \A s \in Slice : bySlice[s] # 0 => \E a \in byAlloc : a.s = s

(* After a start the ledger comes to hold every record on disk, and misses   *)
(* none later but of slices that are given up.                               *)
BootSane ==
    /\ todo \subseteq store
    /\ boot = "up" => todo = {}
    /\ boot # "up" => agent = AgentIdle /\ drift.left = {}
    /\ boot = "down" => byAlloc = {}
    /\ boot = "restoring" => store \subseteq byAlloc \cup todo
    /\ boot = "up" => \A a \in store : a \in byAlloc \/ GivenUp(a.s)

(* How far an allocation has come with the steps of the agent's worker. *)
AllocationUnderWay ==
    /\ agent.pc \in {"announce", "allocate"} =>
          \A a \in store : a.s = agent.s => a \in byAlloc
    /\ agent.pc \in {"cdi", "save", "ready"} => agent.n # 0 /\ bySlice[agent.s] = agent.n
    /\ agent.pc \in {"save", "ready"} => <<agent.s, agent.n>> \in cdi
    /\ agent.pc = "ready" =>
          \A a \in byAlloc : a.s = agent.s => a \in store \/ GivenUp(a.s)

(* The slices that may still use what they were given of a card fit on it. *)
Entitled(c) == {a.s : a \in {b \in Records : b.card = c /\ ~GivenUp(b.s)}}
CardsFit == \A c \in Card : Bytes[Entitled(c)] <= Total[c]

SliceInv ==
    /\ TypeOK /\ ObjectsSane /\ CtlSane /\ AgentSane /\ RecordsSane /\ BootSane
    /\ AllocationUnderWay /\ LedgerExact /\ GrantBacked /\ CardsFit

(* The worker has given back the card, and not yet the checkpoint record. *)
CardReleased == agent.pc = "delete" \/ (agent.pc = "teardown" /\ agent.copy.n = 0)

(* How far a release has come, if no write to the disk fails. *)
ReleaseUnderWay ==
    /\ \A s \in Slice : obj[s].n # 0 => \A a \in Records : a.s = s => a.n = obj[s].n
    /\ boot = "up" => \A a \in store : a \in byAlloc \/ (a.s = agent.s /\ CardReleased)
    /\ agent.pc = "recover" => agent.copy.n = 0
    /\ agent.pc \in {"teardown", "release", "delete"} =>
          \A a \in Records : a.s = agent.s => a.n = agent.n
    /\ CardReleased => \A a \in byAlloc : a.s # agent.s
    /\ agent.pc = "report" => \A a \in Records : a.s # agent.s

CleanInv == ReleaseUnderWay /\ ReleasedClean

-----------------------------------------------------------------------------
(* Sums.                                                                   *)

LEMMA BytesSums ==
    /\ \A S \in SUBSET Slice : Bytes[S] \in Nat
    /\ \A s \in Slice : Req[s] \in Nat /\ Req[s] > 0
    /\ Bytes[{}] = 0
    /\ \A S \in SUBSET Slice : \A s \in Slice \ S : Bytes[S \cup {s}] = Bytes[S] + Req[s]
    /\ \A S \in SUBSET Slice : \A s \in S : Bytes[S \ {s}] = Bytes[S] - Req[s]
    /\ \A T \in SUBSET Slice : \A S \in SUBSET T : Bytes[S] <= Bytes[T]
<1>1. \A S \in SUBSET Slice : Bytes[S] \in Nat
  BY BytesAssumption
<1>2. \A s \in Slice : Req[s] \in Nat /\ Req[s] > 0
  BY CardAssumption
<1>3. Bytes[{}] = 0
  <2>1. {} \in SUBSET Slice /\ {} \cap {} = {} /\ {} \cup {} = {}
    OBVIOUS
  <2>2. Bytes[{}] = Bytes[{}] + Bytes[{}]
    BY <2>1, BytesAssumption
  <2> QED  BY <1>1, <2>1, <2>2
<1>4. ASSUME NEW S \in SUBSET Slice, NEW s \in Slice \ S
      PROVE  Bytes[S \cup {s}] = Bytes[S] + Req[s]
  <2>1. {s} \in SUBSET Slice /\ S \cap {s} = {}
    OBVIOUS
  <2> QED  BY <2>1, BytesAssumption
<1>5. ASSUME NEW S \in SUBSET Slice, NEW s \in S
      PROVE  Bytes[S \ {s}] = Bytes[S] - Req[s]
  <2>1. S \ {s} \in SUBSET Slice /\ s \in Slice \ (S \ {s}) /\ (S \ {s}) \cup {s} = S
    OBVIOUS
  <2>2. Bytes[S] = Bytes[S \ {s}] + Req[s]
    BY <1>4, <2>1
  <2> QED  BY <1>1, <1>2, <2>1, <2>2
<1>6. ASSUME NEW T \in SUBSET Slice, NEW S \in SUBSET T
      PROVE  Bytes[S] <= Bytes[T]
  <2>1. /\ S \in SUBSET Slice /\ T \ S \in SUBSET Slice
        /\ S \cap (T \ S) = {} /\ S \cup (T \ S) = T
    OBVIOUS
  <2>2. Bytes[T] = Bytes[S] + Bytes[T \ S]
    BY <2>1, BytesAssumption
  <2> QED  BY <1>1, <2>1, <2>2
<1> QED  BY <1>1, <1>2, <1>3, <1>4, <1>5, <1>6

-----------------------------------------------------------------------------
(* Types.                                                                  *)

ObjectPhase == Phase \cup {"Absent", "Gone"}
AgentType == {AgentIdle} \cup [pc : AgentSteps, s : Slice, copy : Object, n : Nat]
CtlType == {CtlIdle} \cup [pc : CtlSteps, s : Slice, copy : Object]
DriftType == [loaded : BOOLEAN, left : SUBSET Allocation]

LEMMA PhaseNames ==
    {"Pending", "Scheduled", "Allocating", "Ready", "Preempting", "Releasing", "Released",
     "Failed", "Gone"} \subseteq ObjectPhase
  BY DEF ObjectPhase, Phase

LEMMA ObjectTyped ==
    /\ NewObject \in Object
    /\ Absent \in Object
    /\ \A o \in Object :
          /\ \A p \in ObjectPhase : [o EXCEPT !.phase = p] \in Object
          /\ \A p \in ObjectPhase, n \in Nat, c \in Card \cup {NoCard} :
                [o EXCEPT !.phase = p, !.n = n, !.card = c] \in Object
          /\ \A p \in ObjectPhase, b \in BOOLEAN :
                /\ [o EXCEPT !.finalizer = b, !.phase = p] \in Object
                /\ [o EXCEPT !.deleting = b, !.phase = p] \in Object
          /\ \A b \in BOOLEAN : [o EXCEPT !.finalizer = b] \in Object
          /\ \A b \in BOOLEAN : [o EXCEPT !.bound = b] \in Object
<1>1. "Pending" \in ObjectPhase /\ "Absent" \in ObjectPhase
  BY DEF ObjectPhase, Phase
<1>2. Object = [phase : ObjectPhase, n : Nat, card : Card \cup {NoCard},
                bound : BOOLEAN, deleting : BOOLEAN, finalizer : BOOLEAN]
  BY DEF Object, ObjectPhase
<1>3. NewObject \in Object
  BY <1>1, <1>2 DEF NewObject
<1>4. Absent \in Object
  BY <1>1, <1>2, <1>3 DEF Absent
<1>5. ASSUME NEW o \in Object, NEW p \in ObjectPhase
      PROVE  [o EXCEPT !.phase = p] \in Object
  BY <1>2
<1>6. ASSUME NEW o \in Object, NEW p \in ObjectPhase, NEW n \in Nat, NEW c \in Card \cup {NoCard}
      PROVE  [o EXCEPT !.phase = p, !.n = n, !.card = c] \in Object
  BY <1>2
<1>7. ASSUME NEW o \in Object, NEW p \in ObjectPhase, NEW b \in BOOLEAN
      PROVE  /\ [o EXCEPT !.finalizer = b, !.phase = p] \in Object
             /\ [o EXCEPT !.deleting = b, !.phase = p] \in Object
  BY <1>2
<1>8. ASSUME NEW o \in Object, NEW b \in BOOLEAN
      PROVE  [o EXCEPT !.finalizer = b] \in Object /\ [o EXCEPT !.bound = b] \in Object
  BY <1>2
<1> HIDE DEF Object, NewObject, Absent
<1> QED  BY <1>3, <1>4, <1>5, <1>6, <1>7, <1>8

(* A step of the agent's worker has a slice, a copy of it, and a number. *)
LEMMA AgentBusy ==
    ASSUME agent \in AgentType, agent.pc # "idle"
    PROVE  /\ agent \in [pc : AgentSteps, s : Slice, copy : Object, n : Nat]
           /\ agent.s \in Slice /\ agent.copy \in Object /\ agent.n \in Nat
  BY DEF AgentType, AgentIdle

LEMMA CtlBusy ==
    ASSUME ctl \in CtlType, ctl.pc # "idle"
    PROVE  ctl.s \in Slice /\ ctl.copy \in Object /\ ctl.pc \in CtlSteps
  BY DEF CtlType, CtlIdle

(* Where the worker goes. *)
LEMMA AgentGoing ==
    ASSUME agent \in [pc : AgentSteps, s : Slice, copy : Object, n : Nat]
    PROVE  \A pc \in AgentSteps :
              /\ [agent EXCEPT !.pc = pc] \in AgentType
              /\ \A n \in Nat : [agent EXCEPT !.pc = pc, !.n = n] \in AgentType
              /\ \A o \in Object : [agent EXCEPT !.pc = pc, !.copy = o] \in AgentType
  BY DEF AgentType

LEMMA StepNames ==
    {"announce", "allocate", "cdi", "save", "ready", "fail", "recover", "teardown", "release",
     "delete", "report"} \subseteq AgentSteps
  BY DEF AgentSteps

LEMMA FaultCounted ==
    ASSUME NEW f, Fails(f) \/ Works, faults \in 0..MaxFaults
    PROVE  faults' \in 0..MaxFaults
  BY LifecycleAssumption DEF Fails, Works

LEMMA WritesTyped ==
    ASSUME obj \in [Slice -> Object], NEW s \in Slice, NEW copy, NEW new \in Object,
           Update(s, copy, new) \/ Refused(s, copy) \/ Patch(s, new) \/ NotPatched(s)
    PROVE  obj' \in [Slice -> Object]
  BY DEF Update, Refused, Patch, NotPatched

(* The critical sections of the allocator. *)
LEMMA LedgerTyped ==
    ASSUME LedgerTypeOK
    PROVE  /\ \A a \in Allocation :
                 Commit(a) /\ UNCHANGED attempts => LedgerTypeOK'
           /\ \A s \in Slice, c \in Card : Allocate(s, c) => LedgerTypeOK'
           /\ \A s \in Slice, n \in Nat : Release(s, n) => LedgerTypeOK'
           /\ \A a \in Allocation : RestoreAllocation(a) => LedgerTypeOK'
<1>1. ASSUME NEW a \in Allocation, Commit(a)
      PROVE  /\ committed' \in [Card -> Nat]
             /\ byAlloc' \in SUBSET Allocation
             /\ bySlice' \in [Slice -> Nat]
  <2>1. a.s \in Slice /\ a.card \in Card /\ a.n \in Nat
    BY DEF Allocation
  <2>2. committed' \in [Card -> Nat]
    BY <1>1, <2>1, BytesSums DEF Commit, LedgerTypeOK
  <2> QED  BY <1>1, <2>1, <2>2 DEF Commit, LedgerTypeOK
<1>2. ASSUME NEW a \in Allocation, Commit(a), UNCHANGED attempts
      PROVE  LedgerTypeOK'
  BY <1>1, <1>2 DEF LedgerTypeOK
<1>3. ASSUME NEW s \in Slice, NEW c \in Card, Allocate(s, c)
      PROVE  LedgerTypeOK'
  <2>1. attempts[s] \in Nat
    BY DEF LedgerTypeOK
  <2>2. [s |-> s, n |-> attempts[s] + 1, card |-> c] \in Allocation
    BY <2>1 DEF Allocation
  <2>3. attempts' \in [Slice -> Nat]
    BY <1>3, <2>1 DEF Allocate, LedgerTypeOK
  <2> QED  BY <1>1, <1>3, <2>2, <2>3 DEF Allocate, LedgerTypeOK
<1>4. ASSUME NEW s \in Slice, NEW n \in Nat, Release(s, n)
      PROVE  LedgerTypeOK'
  <2>1. CASE UNCHANGED <<committed, byAlloc, bySlice>>
    BY <1>4, <2>1 DEF Release, LedgerTypeOK
  <2>2. ASSUME NEW a \in Numbered(s, n),
               committed' = [committed EXCEPT ![a.card] = IF Req[s] <= @ THEN @ - Req[s] ELSE 0],
               byAlloc' = byAlloc \ {a},
               bySlice' = [bySlice EXCEPT ![s] = 0],
               UNCHANGED attempts
        PROVE  LedgerTypeOK'
    <3>1. a.card \in Card
      BY DEF Numbered, LedgerTypeOK, Allocation
    <3>2. committed' \in [Card -> Nat]
      BY <2>2, <3>1, BytesSums DEF LedgerTypeOK
    <3>3. bySlice' \in [Slice -> Nat]
      BY <2>2 DEF LedgerTypeOK
    <3> QED  BY <2>2, <3>2, <3>3 DEF LedgerTypeOK
  <2> QED  BY <1>4, <2>1, <2>2 DEF Release
<1>5. ASSUME NEW a \in Allocation, RestoreAllocation(a)
      PROVE  LedgerTypeOK'
  BY <1>2, <1>5 DEF RestoreAllocation, LedgerTypeOK
<1> QED  BY <1>2, <1>3, <1>4, <1>5

LEMMA TypeInit ==
    ASSUME Init
    PROVE  TypeOK
<1>1. LedgerTypeOK
  BY DEF Init, NewAllocator, LedgerTypeOK
<1>2. obj \in [Slice -> Object]
  BY ObjectTyped DEF Init
<1>3. faults \in 0..MaxFaults
  BY LifecycleAssumption DEF Init
<1> QED  BY <1>1, <1>2, <1>3 DEF Init, TypeOK

(* A step of the agent's worker: what it leaves alone, and what it has. *)
LEMMA TypeAgent ==
    ASSUME TypeOK, AgentStep
    PROVE  TypeOK'
<1>1. agent \in [pc : AgentSteps, s : Slice, copy : Object, n : Nat]
  <2>1. agent.pc # "idle"
    BY DEF AgentStep, Agent, TransitionToAllocating, AllocateCard, GenerateFirewall,
       SaveCheckpoint, ReportAllocationReady, ReportAllocationFailed, RecoverWedged,
       TeardownFirewall, ReleaseCard, DeleteCheckpoint, ReportReleaseComplete
  <2> QED  BY <2>1, AgentBusy DEF TypeOK, AgentType
<1>2. /\ UNCHANGED <<halfBound, bootVars, ctl>>
      /\ faults' \in 0..MaxFaults
  <2>1. Works \/ \E f \in Fault : Fails(f)
    BY DEF AgentStep, TransitionToAllocating, AllocateCard, GenerateFirewall,
       SaveCheckpoint, ReportAllocationReady, ReportAllocationFailed, RecoverWedged,
       TeardownFirewall, ReleaseCard, DeleteCheckpoint, ReportReleaseComplete, Update, Refused,
       StoreFails, Fault
  <2>2. faults' \in 0..MaxFaults
    BY <2>1, FaultCounted DEF TypeOK
  <2>3. UNCHANGED <<halfBound, bootVars, ctl>>
    BY DEF AgentStep, AgentFrame, TransitionToAllocating, AllocateCard, GenerateFirewall,
       SaveCheckpoint, ReportAllocationReady, ReportAllocationFailed, RecoverWedged,
       TeardownFirewall, ReleaseCard, DeleteCheckpoint, ReportReleaseComplete
  <2> QED  BY <2>2, <2>3
<1>3. ASSUME LedgerTypeOK', obj' \in [Slice -> Object], cdi' \in SUBSET (Slice \X Nat),
             store' \in SUBSET Allocation, agent' \in AgentType
      PROVE  TypeOK'
  BY <1>2, <1>3 DEF TypeOK, bootVars, AgentType
<1>4. LedgerTypeOK /\ (UNCHANGED ledgerVars => LedgerTypeOK')
  BY DEF TypeOK, LedgerTypeOK, ledgerVars
<1>5. /\ obj \in [Slice -> Object] /\ cdi \in SUBSET (Slice \X Nat)
      /\ store \in SUBSET Allocation /\ AgentIdle \in AgentType
      /\ agent.s \in Slice /\ agent.copy \in Object /\ agent.n \in Nat
  BY <1>1 DEF TypeOK, AgentType
<1>6. CASE TransitionToAllocating
  <2> DEFINE new == [agent.copy EXCEPT !.phase = "Allocating"]
  <2>1. new \in Object
    BY <1>5, ObjectTyped, PhaseNames
  <2>2. obj' \in [Slice -> Object]
    BY <1>5, <1>6, <2>1, WritesTyped DEF TransitionToAllocating
  <2>3. agent' \in AgentType
    <3>1. [agent EXCEPT !.pc = "allocate", !.copy = new] \in AgentType
      BY <1>1, <2>1, AgentGoing, StepNames
    <3> QED  BY <1>5, <1>6, <3>1 DEF TransitionToAllocating, AgentStops
  <2>4. UNCHANGED <<ledgerVars, cdi, store>>
    BY <1>6 DEF TransitionToAllocating, diskVars
  <2> QED  BY <1>3, <1>4, <1>5, <2>2, <2>3, <2>4
<1>7. CASE AllocateCard
  <2>1. UNCHANGED <<obj, cdi, store>>
    BY <1>7 DEF AllocateCard, diskVars
  <2>2. bySlice[agent.s] \in Nat /\ attempts[agent.s] + 1 \in Nat
    BY <1>4, <1>5 DEF LedgerTypeOK
  <2>3. LedgerTypeOK'
    BY <1>4, <1>5, <1>7, LedgerTyped DEF AllocateCard, BestFit, Fitting
  <2>4. agent' \in AgentType
    <3>1. /\ [agent EXCEPT !.pc = "cdi", !.n = bySlice[agent.s]] \in AgentType
          /\ [agent EXCEPT !.pc = "cdi", !.n = attempts[agent.s] + 1] \in AgentType
          /\ [agent EXCEPT !.pc = "fail"] \in AgentType
      BY <1>1, <2>2, AgentGoing, StepNames
    <3> QED  BY <1>5, <1>7, <3>1 DEF AllocateCard, AgentStops, AgentGoes
  <2> QED  BY <1>3, <1>5, <2>1, <2>3, <2>4
<1>8. CASE GenerateFirewall
  <2>1. UNCHANGED <<ledgerVars, obj, store>>
    BY <1>8 DEF GenerateFirewall
  <2>2. cdi' \in SUBSET (Slice \X Nat)
    BY <1>5, <1>8 DEF GenerateFirewall
  <2>3. agent' \in AgentType
    BY <1>1, <1>5, <1>8, AgentGoing, StepNames DEF GenerateFirewall, AgentStops, AgentGoes
  <2> QED  BY <1>3, <1>4, <1>5, <2>1, <2>2, <2>3
<1>9. CASE SaveCheckpoint
  <2>1. UNCHANGED <<ledgerVars, obj, cdi>>
    BY <1>9 DEF SaveCheckpoint
  <2>2. store' \in SUBSET Allocation
    BY <1>4, <1>5, <1>9 DEF SaveCheckpoint, Numbered, LedgerTypeOK
  <2>3. agent' \in AgentType
    BY <1>1, <1>5, <1>9, AgentGoing, StepNames DEF SaveCheckpoint, AgentStops, AgentGoes
  <2> QED  BY <1>3, <1>4, <1>5, <2>1, <2>2, <2>3
<1>10. CASE ReportAllocationReady
  <2>1. UNCHANGED <<ledgerVars, cdi, store>> /\ agent' = AgentIdle
    BY <1>10 DEF ReportAllocationReady, diskVars, AgentStops
  <2>2. obj' \in [Slice -> Object]
    <3>1. PICK a \in Numbered(agent.s, agent.n) :
             \/ Update(agent.s, agent.copy,
                       [agent.copy EXCEPT !.phase = "Ready", !.n = a.n, !.card = a.card])
             \/ Refused(agent.s, agent.copy)
      BY <1>10 DEF ReportAllocationReady
    <3>2. a.n \in Nat /\ a.card \in Card \cup {NoCard}
      BY <1>4 DEF Numbered, LedgerTypeOK, Allocation
    <3>3. [agent.copy EXCEPT !.phase = "Ready", !.n = a.n, !.card = a.card] \in Object
      BY <1>5, <3>2, ObjectTyped, PhaseNames
    <3> QED  BY <1>5, <3>1, <3>3, WritesTyped
  <2> QED  BY <1>3, <1>4, <1>5, <2>1, <2>2
<1>11. CASE ReportAllocationFailed
  <2>1. UNCHANGED <<ledgerVars, cdi, store>> /\ agent' = AgentIdle
    BY <1>11 DEF ReportAllocationFailed, diskVars, AgentStops
  <2>2. [agent.copy EXCEPT !.phase = "Failed"] \in Object
    BY <1>5, ObjectTyped, PhaseNames
  <2>3. obj' \in [Slice -> Object]
    BY <1>5, <1>11, <2>2, WritesTyped DEF ReportAllocationFailed
  <2> QED  BY <1>3, <1>4, <1>5, <2>1, <2>3
<1>12. CASE RecoverWedged
  <2>1. UNCHANGED <<obj, cdi, store>>
    BY <1>12 DEF RecoverWedged, diskVars
  <2>2. bySlice[agent.s] \in Nat
    BY <1>4, <1>5 DEF LedgerTypeOK
  <2>3. LedgerTypeOK'
    BY <1>4, <1>5, <1>12, <2>2, LedgerTyped DEF RecoverWedged
  <2>4. agent' \in AgentType
    <3>1. /\ [agent EXCEPT !.pc = "teardown", !.n = bySlice[agent.s]] \in AgentType
          /\ [agent EXCEPT !.pc = "report"] \in AgentType
      BY <1>1, <2>2, AgentGoing, StepNames
    <3> QED  BY <1>12, <3>1 DEF RecoverWedged, AgentGoes
  <2> QED  BY <1>3, <1>5, <2>1, <2>3, <2>4
<1>13. CASE TeardownFirewall
  <2>1. UNCHANGED <<ledgerVars, obj, store>>
    BY <1>13 DEF TeardownFirewall
  <2>2. cdi' \in SUBSET (Slice \X Nat)
    BY <1>5, <1>13 DEF TeardownFirewall
  <2>3. agent' \in AgentType
    <3>1. /\ [agent EXCEPT !.pc = "release"] \in AgentType
          /\ [agent EXCEPT !.pc = "delete"] \in AgentType
      BY <1>1, AgentGoing, StepNames
    <3> QED  BY <1>5, <1>13, <3>1 DEF TeardownFirewall, AgentStops, AgentGoes
  <2> QED  BY <1>3, <1>4, <1>5, <2>1, <2>2, <2>3
<1>14. CASE ReleaseCard
  <2>1. UNCHANGED <<obj, cdi, store>>
    BY <1>14 DEF ReleaseCard, diskVars
  <2>2. LedgerTypeOK'
    BY <1>4, <1>5, <1>14, LedgerTyped DEF ReleaseCard
  <2>3. agent' \in AgentType
    BY <1>1, <1>5, <1>14, AgentGoing, StepNames DEF ReleaseCard, AgentGoes
  <2> QED  BY <1>3, <1>5, <2>1, <2>2, <2>3
<1>15. CASE DeleteCheckpoint
  <2>1. UNCHANGED <<ledgerVars, obj, cdi>>
    BY <1>15 DEF DeleteCheckpoint
  <2>2. store' \in SUBSET Allocation
    BY <1>5, <1>15 DEF DeleteCheckpoint
  <2>3. agent' \in AgentType
    BY <1>1, <1>5, <1>15, AgentGoing, StepNames DEF DeleteCheckpoint, AgentStops, AgentGoes
  <2> QED  BY <1>3, <1>4, <1>5, <2>1, <2>2, <2>3
<1>16. CASE ReportReleaseComplete
  <2>1. UNCHANGED <<ledgerVars, cdi, store>> /\ agent' = AgentIdle
    BY <1>16 DEF ReportReleaseComplete, diskVars, AgentStops
  <2>2. [agent.copy EXCEPT !.phase = "Released", !.n = 0, !.card = NoCard] \in Object
    BY <1>5, ObjectTyped, PhaseNames
  <2>3. obj' \in [Slice -> Object]
    BY <1>5, <1>16, <2>2, WritesTyped DEF ReportReleaseComplete
  <2> QED  BY <1>3, <1>4, <1>5, <2>1, <2>3
<1> QED  BY <1>6, <1>7, <1>8, <1>9, <1>10, <1>11, <1>12, <1>13, <1>14, <1>15, <1>16
     DEF AgentStep

LEMMA TypeReads ==
    ASSUME TypeOK, NEW s \in Slice, AgentRead(s) \/ CtlRead(s)
    PROVE  TypeOK'
<1>1. obj[s] \in Object /\ obj[s].n \in Nat
  BY DEF TypeOK, Object
<1>2. CASE AgentRead(s)
  <2>1. agent' \in AgentType
    BY <1>1, <1>2, StepNames DEF AgentRead, AgentType
  <2>2. UNCHANGED <<ledgerVars, obj, cdi, store, halfBound, boot, todo, drift, corrupt, ctl,
                  faults>>
    BY <1>2 DEF AgentRead, AgentFrame, diskVars, bootVars, Works
  <2> QED  BY <2>1, <2>2 DEF TypeOK, LedgerTypeOK, ledgerVars, AgentType
<1>3. CASE CtlRead(s)
  <2>1. ctl' \in CtlType
    BY <1>1, <1>3 DEF CtlRead, CtlType
  <2>2. UNCHANGED <<ledgerVars, obj, cdi, store, halfBound, boot, todo, drift, corrupt, agent,
                  faults>>
    BY <1>3 DEF CtlRead, CtlFrame, diskVars, bootVars, Works
  <2> QED  BY <2>1, <2>2 DEF TypeOK, LedgerTypeOK, ledgerVars, CtlType
<1> QED  BY <1>2, <1>3

LEMMA TypeCtl ==
    ASSUME TypeOK, CtlStep
    PROVE  TypeOK'
<1>1. /\ UNCHANGED <<ledgerVars, cdi, store, halfBound, boot, todo, drift, corrupt, agent>>
      /\ ctl' = CtlIdle
  BY DEF CtlStep, ExpirePreemption, PatchReleasing, RemoveFinalizer, EnsureFinalizer, CtlFrame,
     diskVars, bootVars
<1>2. ctl.s \in Slice /\ ctl.copy \in Object /\ obj[ctl.s] \in Object
  <2>1. ctl.pc # "idle"
    BY DEF CtlStep, ExpirePreemption, PatchReleasing, RemoveFinalizer, EnsureFinalizer
  <2> QED  BY <2>1, CtlBusy DEF TypeOK, CtlType
<1>3. faults' \in 0..MaxFaults
  <2>1. Works \/ Fails("apiError")
    BY DEF CtlStep, ExpirePreemption, PatchReleasing, RemoveFinalizer, EnsureFinalizer, Update,
       Refused, Patch, NotPatched
  <2> QED  BY <2>1, FaultCounted DEF TypeOK
<1>4. obj' \in [Slice -> Object]
  <2>1. obj \in [Slice -> Object]
    BY DEF TypeOK
  <2>2. CASE ExpirePreemption
    <3>1. [ctl.copy EXCEPT !.phase = "Releasing"] \in Object
      BY <1>2, ObjectTyped, PhaseNames
    <3> QED  BY <1>2, <2>1, <2>2, <3>1, WritesTyped DEF ExpirePreemption
  <2>3. CASE PatchReleasing
    <3>1. [obj[ctl.s] EXCEPT !.phase = "Releasing"] \in Object
      BY <1>2, ObjectTyped, PhaseNames
    <3> QED  BY <1>2, <2>1, <2>3, <3>1, WritesTyped DEF PatchReleasing
  <2>4. CASE RemoveFinalizer
    <3>1. [obj[ctl.s] EXCEPT !.finalizer = FALSE, !.phase = "Gone"] \in Object
      BY <1>2, ObjectTyped, PhaseNames
    <3> QED  BY <1>2, <2>1, <2>4, <3>1, WritesTyped DEF RemoveFinalizer
  <2>5. CASE EnsureFinalizer
    <3>1. [obj[ctl.s] EXCEPT !.finalizer = TRUE] \in Object
      BY <1>2, ObjectTyped
    <3> QED  BY <1>2, <2>1, <2>5, <3>1, WritesTyped DEF EnsureFinalizer
  <2> QED  BY <2>2, <2>3, <2>4, <2>5 DEF CtlStep
<1> QED  BY <1>1, <1>3, <1>4 DEF TypeOK, LedgerTypeOK, ledgerVars, CtlType

LEMMA TypeBoot ==
    ASSUME TypeOK, Boot \/ (\E a \in drift.left : HealDrift(a)) \/ Crash
    PROVE  TypeOK'
<1>1. CASE Start
  <2>1. faults' \in 0..MaxFaults
    BY <1>1, FaultCounted DEF TypeOK, Start
  <2>2. todo' \in SUBSET Allocation
    BY <1>1 DEF TypeOK, Start
  <2> QED  BY <1>1, <2>1, <2>2 DEF TypeOK, LedgerTypeOK, Start, ledgerVars, diskVars
<1>2. CASE Restore
  <2>1. LedgerTypeOK'
    BY <1>2, LedgerTyped DEF TypeOK, LedgerTypeOK, Restore, ledgerVars
  <2>2. todo' \in SUBSET Allocation
    BY <1>2 DEF TypeOK, Restore
  <2>3. boot' \in {"restoring", "up", "down"} /\ drift' \in DriftType
    <3>1. [loaded |-> FALSE, left |-> {}] \in DriftType
      BY DEF DriftType
    <3>2. drift \in DriftType /\ boot \in {"restoring", "up", "down"}
      BY DEF TypeOK, DriftType
    <3> QED  BY <1>2, <3>1, <3>2 DEF Restore
  <2> QED  BY <1>2, <2>1, <2>2, <2>3 DEF TypeOK, Restore, diskVars, DriftType
<1>3. CASE LoadDrift
  <2>1. drift' \in DriftType
    BY <1>3 DEF TypeOK, LoadDrift, DriftType
  <2> QED  BY <1>3, <2>1 DEF TypeOK, LedgerTypeOK, LoadDrift, ledgerVars, diskVars, DriftType
<1>4. ASSUME NEW a \in drift.left, HealDrift(a)
      PROVE  TypeOK'
  <2>1. drift' \in DriftType
    BY <1>4 DEF TypeOK, HealDrift, DriftType
  <2>2. store' \in SUBSET Allocation
    BY <1>4 DEF TypeOK, HealDrift
  <2>3. faults' \in 0..MaxFaults
    BY <1>4, FaultCounted DEF TypeOK, HealDrift, StoreFails
  <2> QED  BY <1>4, <2>1, <2>2, <2>3 DEF TypeOK, LedgerTypeOK, HealDrift, ledgerVars, DriftType
<1>5. CASE Crash
  <2>1. faults' \in 0..MaxFaults
    BY <1>5, FaultCounted DEF TypeOK, Crash
  <2>2. LedgerTypeOK'
    BY <1>5 DEF TypeOK, LedgerTypeOK, Crash
  <2>3. drift' \in DriftType
    BY <1>5 DEF Crash, DriftType
  <2> QED  BY <1>5, <2>1, <2>2, <2>3 DEF TypeOK, Crash, diskVars, DriftType
<1> QED  BY <1>1, <1>2, <1>3, <1>4, <1>5 DEF Boot

LEMMA TypeEnvironment ==
    ASSUME TypeOK, NEW s \in Slice,
           \/ CreateSlice(s) \/ BindNode(s) \/ BindPhase(s) \/ FailOrphan(s)
           \/ Preempt(s) \/ RollBackPreemption(s) \/ DeleteSlice(s)
    PROVE  TypeOK'
<1>1. UNCHANGED <<ledgerVars, cdi, store, boot, todo, drift, corrupt, agent, ctl>>
  BY DEF CreateSlice, BindNode, BindPhase, FailOrphan, Preempt, RollBackPreemption, DeleteSlice,
     Others, diskVars, bootVars
<1>2. faults' \in 0..MaxFaults
  <2>1. Works \/ Fails("apiError")
    BY DEF CreateSlice, BindNode, BindPhase, FailOrphan, Preempt, RollBackPreemption,
       DeleteSlice, Others, Works
  <2> QED  BY <2>1, FaultCounted DEF TypeOK
<1>3. halfBound' \in SUBSET Slice
  BY DEF TypeOK, CreateSlice, BindNode, BindPhase, FailOrphan, Preempt, RollBackPreemption,
     DeleteSlice
<1>4. obj[s] \in Object /\ obj \in [Slice -> Object]
  BY DEF TypeOK
<1>5. obj' \in [Slice -> Object]
  <2>1. ASSUME NEW p \in ObjectPhase
        PROVE  [obj EXCEPT ![s].phase = p] \in [Slice -> Object]
    BY <1>4, ObjectTyped
  <2>2. CASE CreateSlice(s)
    BY <1>4, <2>2, ObjectTyped DEF CreateSlice
  <2>3. CASE BindNode(s)
    BY <1>4, <2>3, ObjectTyped DEF BindNode
  <2>4. CASE BindPhase(s)
    BY <1>4, <2>1, <2>4, PhaseNames DEF BindPhase
  <2>5. CASE FailOrphan(s) \/ Preempt(s) \/ RollBackPreemption(s)
    BY <1>4, <2>1, <2>5, PhaseNames DEF FailOrphan, Preempt, RollBackPreemption
  <2>6. CASE DeleteSlice(s)
    <3>1. obj[s].phase \in ObjectPhase /\ "Gone" \in ObjectPhase
      BY <1>4, PhaseNames DEF Object, ObjectPhase
    <3>2. [obj[s] EXCEPT !.deleting = TRUE,
                         !.phase = IF obj[s].finalizer THEN @ ELSE "Gone"] \in Object
      BY <1>4, <3>1, ObjectTyped
    <3> QED  BY <1>4, <2>6, <3>2 DEF DeleteSlice
  <2> QED  BY <2>2, <2>3, <2>4, <2>5, <2>6
<1> QED  BY <1>1, <1>2, <1>3, <1>5 DEF TypeOK, LedgerTypeOK, ledgerVars, bootVars

LEMMA TypeStep ==
    ASSUME TypeOK, [Next]_vars
    PROVE  TypeOK'
<1>1. CASE UNCHANGED vars
  BY <1>1 DEF vars, TypeOK, LedgerTypeOK, ledgerVars
<1>2. CASE CorruptCheckpoint
  <2>1. faults' \in 0..MaxFaults /\ "unreadable" \in Faults
    BY <1>2, FaultCounted DEF TypeOK, CorruptCheckpoint, Fails
  <2> QED  BY <1>2, <2>1 DEF TypeOK, LedgerTypeOK, CorruptCheckpoint, ledgerVars, diskVars
<1> QED  BY <1>1, <1>2, TypeAgent, TypeReads, TypeCtl, TypeBoot, TypeEnvironment
     DEF Next, Environment

-----------------------------------------------------------------------------
(* What a step makes of an object.                                         *)

Kept(s) == obj'[s].n = obj[s].n /\ obj'[s].card = obj[s].card

(* A phase follows a phase, and nothing else that matters changes. *)
Follows(s, from, to) ==
    /\ Kept(s)
    /\ obj'[s].deleting = obj[s].deleting /\ obj'[s].bound = obj[s].bound
    /\ obj[s].phase \in from /\ obj'[s].phase \in to

OthersMove(s) ==
    \/ obj[s] = Absent /\ obj'[s] = NewObject
    \/ obj[s].deleting /\ Follows(s, Phase, {"Scheduled", "Releasing", "Gone"})
    \/ s \in halfBound \ halfBound' /\ Follows(s, Phase, {"Scheduled"})
    \/ ~obj[s].bound /\ Follows(s, {"Pending"}, {"Failed"})
    \/ Follows(s, {"Ready"}, {"Preempting"})
    \/ Follows(s, {"Preempting"}, {"Ready", "Releasing"})
    \/ /\ Kept(s) /\ ~obj[s].bound /\ obj'[s].bound
       /\ obj[s].phase = "Pending" /\ obj'[s].phase = "Pending"
       /\ obj'[s].deleting = obj[s].deleting
    \/ /\ Kept(s) /\ obj'[s].bound = obj[s].bound /\ obj'[s].deleting
       /\ obj[s].phase \in Phase /\ obj'[s].phase \in {obj[s].phase, "Gone"}
    \/ /\ Kept(s) /\ obj'[s].bound = obj[s].bound /\ obj'[s].deleting = obj[s].deleting
       /\ obj[s].phase \in Phase /\ obj'[s].phase = obj[s].phase

AgentMoves(s) ==
    /\ s = agent.s
    /\ obj'[s].deleting = obj[s].deleting /\ obj'[s].bound = obj[s].bound
    /\ agent.pc # "announce" => agent' = AgentIdle
    /\ \/ /\ agent.pc = "announce" /\ Kept(s) /\ ~obj[s].deleting
          /\ obj[s].phase \in Unallocated /\ obj'[s].phase = "Allocating"
       \/ /\ agent.pc = "ready" /\ ~obj[s].deleting
          /\ obj[s].phase \in Unallocated /\ obj'[s].phase = "Ready"
          /\ \E a \in byAlloc : /\ a.s = s /\ a.n = agent.n
                                /\ obj'[s].n = a.n /\ obj'[s].card = a.card
       \/ /\ agent.pc = "fail" /\ Kept(s) /\ ~obj[s].deleting
          /\ obj[s].phase \in Unallocated /\ obj'[s].phase = "Failed"
       \/ /\ agent.pc = "report"
          /\ obj'[s].phase = "Released" /\ obj'[s].n = 0

Moves(s) == obj'[s] = obj[s] \/ OthersMove(s) \/ AgentMoves(s)

LEMMA MovesAgent ==
    ASSUME TypeOK, AgentSane, AgentStep, NEW s \in Slice
    PROVE  obj'[s] = obj[s] \/ AgentMoves(s)
<1>1. obj \in [Slice -> Object] /\ byAlloc \in SUBSET Allocation
  BY DEF TypeOK, LedgerTypeOK
<1>2. agent.s \in Slice /\ agent.copy \in Object
  <2>1. agent.pc # "idle"
    BY DEF AgentStep, Agent, TransitionToAllocating, AllocateCard, GenerateFirewall,
       SaveCheckpoint, ReportAllocationReady, ReportAllocationFailed, RecoverWedged,
       TeardownFirewall, ReleaseCard, DeleteCheckpoint, ReportReleaseComplete
  <2> QED  BY <2>1, AgentBusy DEF TypeOK, AgentType
<1>3. ASSUME NEW new, agent.copy \in Object,
             Update(agent.s, agent.copy, new) \/ Refused(agent.s, agent.copy),
             obj'[s] # obj[s]
      PROVE  s = agent.s /\ obj[s] = agent.copy /\ obj'[s] = new
  BY <1>1, <1>2, <1>3 DEF Update, Refused
<1>4. CASE TransitionToAllocating
  <2> DEFINE new == [agent.copy EXCEPT !.phase = "Allocating"]
  <2>1. agent.pc = "announce" /\ (Update(agent.s, agent.copy, new) \/ Refused(agent.s, agent.copy))
    BY <1>4 DEF TransitionToAllocating, Agent
  <2>2. /\ new.phase = "Allocating" /\ new.n = agent.copy.n /\ new.card = agent.copy.card
        /\ new.deleting = agent.copy.deleting /\ new.bound = agent.copy.bound
    BY <1>2 DEF Object
  <2> HIDE DEF new
  <2> QED  BY <1>2, <1>3, <2>1, <2>2 DEF AgentMoves, Kept, AgentSane, GrantingSteps
<1>5. CASE ReportAllocationReady
  <2>1. PICK a \in Numbered(agent.s, agent.n) :
           \/ Update(agent.s, agent.copy,
                     [agent.copy EXCEPT !.phase = "Ready", !.n = a.n, !.card = a.card])
           \/ Refused(agent.s, agent.copy)
    BY <1>5 DEF ReportAllocationReady
  <2>2. /\ agent.pc = "ready" /\ agent' = AgentIdle
        /\ a \in byAlloc /\ a.s = agent.s /\ a.n = agent.n
    BY <1>5 DEF ReportAllocationReady, Agent, AgentStops, Numbered
  <2> DEFINE new == [agent.copy EXCEPT !.phase = "Ready", !.n = a.n, !.card = a.card]
  <2>3. /\ new.phase = "Ready" /\ new.n = a.n /\ new.card = a.card
        /\ new.deleting = agent.copy.deleting /\ new.bound = agent.copy.bound
    BY <1>2 DEF Object
  <2>4. Update(agent.s, agent.copy, new) \/ Refused(agent.s, agent.copy)
    BY <2>1
  <2> HIDE DEF new
  <2> QED  BY <1>2, <1>3, <2>2, <2>3, <2>4 DEF AgentMoves, AgentSane, GrantingSteps
<1>6. CASE ReportAllocationFailed
  <2> DEFINE new == [agent.copy EXCEPT !.phase = "Failed"]
  <2>1. /\ agent.pc = "fail" /\ agent' = AgentIdle
        /\ Update(agent.s, agent.copy, new) \/ Refused(agent.s, agent.copy)
    BY <1>6 DEF ReportAllocationFailed, Agent, AgentStops
  <2>2. /\ new.phase = "Failed" /\ new.n = agent.copy.n /\ new.card = agent.copy.card
        /\ new.deleting = agent.copy.deleting /\ new.bound = agent.copy.bound
    BY <1>2 DEF Object
  <2> HIDE DEF new
  <2> QED  BY <1>2, <1>3, <2>1, <2>2 DEF AgentMoves, Kept, AgentSane, GrantingSteps
<1>7. CASE ReportReleaseComplete
  <2> DEFINE new == [agent.copy EXCEPT !.phase = "Released", !.n = 0, !.card = NoCard]
  <2>1. /\ agent.pc = "report" /\ agent' = AgentIdle
        /\ UNCHANGED obj \/ Update(agent.s, agent.copy, new) \/ Refused(agent.s, agent.copy)
    BY <1>7 DEF ReportReleaseComplete, Agent, AgentStops
  <2>2. /\ new.phase = "Released" /\ new.n = 0
        /\ new.deleting = agent.copy.deleting /\ new.bound = agent.copy.bound
    BY <1>2 DEF Object
  <2> HIDE DEF new
  <2> QED  BY <1>2, <1>3, <2>1, <2>2 DEF AgentMoves
<1>8. CASE UNCHANGED obj
  BY <1>8
<1> QED  BY <1>4, <1>5, <1>6, <1>7, <1>8 DEF AgentStep, AllocateCard, GenerateFirewall,
     SaveCheckpoint, RecoverWedged, TeardownFirewall, ReleaseCard, DeleteCheckpoint

LEMMA MovesCtl ==
    ASSUME TypeOK, CtlSane, CtlStep, NEW s \in Slice
    PROVE  obj'[s] = obj[s] \/ OthersMove(s)
<1>1. obj \in [Slice -> Object] /\ UNCHANGED halfBound
  BY DEF TypeOK, CtlStep, ExpirePreemption, PatchReleasing, RemoveFinalizer, EnsureFinalizer,
     CtlFrame
<1>2. ctl.s \in Slice /\ ctl.copy \in Object
  <2>1. ctl.pc # "idle"
    BY DEF CtlStep, ExpirePreemption, PatchReleasing, RemoveFinalizer, EnsureFinalizer
  <2> QED  BY <2>1, CtlBusy DEF TypeOK, CtlType
<1>3. SUFFICES ASSUME s = ctl.s, obj'[s] # obj[s]
               PROVE  OthersMove(s)
  BY <1>1, <1>2 DEF CtlStep, ExpirePreemption, PatchReleasing, RemoveFinalizer, EnsureFinalizer,
     Update, Refused, Patch, NotPatched
<1>4. obj[s] \in Object
  BY <1>1
<1>5. CASE ExpirePreemption
  <2>1. obj[s] = ctl.copy /\ obj'[s] = [ctl.copy EXCEPT !.phase = "Releasing"]
    BY <1>1, <1>3, <1>5 DEF ExpirePreemption, Update, Refused
  <2>2. ctl.copy.phase = "Preempting"
    BY <1>5 DEF ExpirePreemption, CtlSane
  <2>3. Follows(s, {"Preempting"}, {"Ready", "Releasing"})
    BY <1>4, <2>1, <2>2 DEF Follows, Kept, Object
  <2> QED  BY <2>3 DEF OthersMove
<1>6. CASE PatchReleasing
  <2>1. obj'[s] = [obj[s] EXCEPT !.phase = "Releasing"] /\ obj[s].phase \in Phase
    BY <1>1, <1>3, <1>6 DEF PatchReleasing, Patch, NotPatched, Live
  <2>2. obj[s].deleting
    BY <1>3, <1>6 DEF PatchReleasing, CtlSane
  <2>3. Follows(s, Phase, {"Scheduled", "Releasing", "Gone"})
    BY <1>4, <2>1 DEF Follows, Kept, Object
  <2> QED  BY <2>2, <2>3 DEF OthersMove
<1>7. CASE RemoveFinalizer
  <2>1. obj'[s] = [obj[s] EXCEPT !.finalizer = FALSE, !.phase = "Gone"] /\ obj[s].phase \in Phase
    BY <1>1, <1>3, <1>7 DEF RemoveFinalizer, Patch, NotPatched, Live
  <2>2. obj[s].deleting
    BY <1>3, <1>7 DEF RemoveFinalizer, CtlSane
  <2>3. Follows(s, Phase, {"Scheduled", "Releasing", "Gone"})
    BY <1>4, <2>1 DEF Follows, Kept, Object
  <2> QED  BY <2>2, <2>3 DEF OthersMove
<1>8. CASE EnsureFinalizer
  <2>1. obj'[s] = [obj[s] EXCEPT !.finalizer = TRUE] /\ obj[s].phase \in Phase
    BY <1>1, <1>3, <1>8 DEF EnsureFinalizer, Patch, NotPatched, Live
  <2> QED  BY <1>4, <2>1 DEF OthersMove, Kept, Object
<1> QED  BY <1>5, <1>6, <1>7, <1>8 DEF CtlStep

LEMMA MovesEnvironment ==
    ASSUME TypeOK, NEW t \in Slice,
           \/ CreateSlice(t) \/ BindNode(t) \/ BindPhase(t) \/ FailOrphan(t)
           \/ Preempt(t) \/ RollBackPreemption(t) \/ DeleteSlice(t),
           NEW s \in Slice
    PROVE  obj'[s] = obj[s] \/ OthersMove(s)
<1>1. obj \in [Slice -> Object]
  BY DEF TypeOK
<1>2. SUFFICES ASSUME s = t, obj'[s] # obj[s]
               PROVE  OthersMove(s)
  BY <1>1 DEF CreateSlice, BindNode, BindPhase, FailOrphan, Preempt, RollBackPreemption,
     DeleteSlice
<1>3. obj[s] \in Object
  BY <1>1
<1>4. CASE CreateSlice(s)
  BY <1>1, <1>4 DEF CreateSlice, OthersMove
<1>5. CASE BindNode(s)
  <2>1. obj'[s] = [obj[s] EXCEPT !.bound = TRUE] /\ obj[s].phase = "Pending" /\ ~obj[s].bound
    BY <1>1, <1>5 DEF BindNode
  <2> QED  BY <1>3, <2>1 DEF OthersMove, Kept, Object
<1>6. CASE BindPhase(s)
  <2>1. /\ obj'[s] = [obj[s] EXCEPT !.phase = "Scheduled"]
        /\ obj[s].phase \in Phase /\ s \in halfBound \ halfBound'
    BY <1>1, <1>2, <1>6 DEF BindPhase, Live
  <2>2. Follows(s, Phase, {"Scheduled"})
    BY <1>3, <2>1 DEF Follows, Kept, Object
  <2> QED  BY <2>1, <2>2 DEF OthersMove
<1>7. CASE FailOrphan(s)
  <2>1. /\ obj'[s] = [obj[s] EXCEPT !.phase = "Failed"]
        /\ obj[s].phase = "Pending" /\ ~obj[s].bound
    BY <1>1, <1>7 DEF FailOrphan
  <2>2. Follows(s, {"Pending"}, {"Failed"})
    BY <1>3, <2>1 DEF Follows, Kept, Object
  <2> QED  BY <2>1, <2>2 DEF OthersMove
<1>8. CASE Preempt(s)
  <2>1. obj'[s] = [obj[s] EXCEPT !.phase = "Preempting"] /\ obj[s].phase = "Ready"
    BY <1>1, <1>8 DEF Preempt
  <2>2. Follows(s, {"Ready"}, {"Preempting"})
    BY <1>3, <2>1 DEF Follows, Kept, Object
  <2> QED  BY <2>2 DEF OthersMove
<1>9. CASE RollBackPreemption(s)
  <2>1. obj'[s] = [obj[s] EXCEPT !.phase = "Ready"] /\ obj[s].phase = "Preempting"
    BY <1>1, <1>9 DEF RollBackPreemption
  <2>2. Follows(s, {"Preempting"}, {"Ready", "Releasing"})
    BY <1>3, <2>1 DEF Follows, Kept, Object
  <2> QED  BY <2>2 DEF OthersMove
<1>10. CASE DeleteSlice(s)
  <2>1. /\ obj[s].phase \in Phase
        /\ obj'[s] = [obj[s] EXCEPT !.deleting = TRUE,
                                    !.phase = IF obj[s].finalizer THEN @ ELSE "Gone"]
    BY <1>1, <1>10 DEF DeleteSlice, Live
  <2>2. /\ Kept(s) /\ obj'[s].bound = obj[s].bound /\ obj'[s].deleting
        /\ obj'[s].phase \in {obj[s].phase, "Gone"}
    BY <1>3, <2>1 DEF Kept, Object
  <2> QED  BY <2>1, <2>2 DEF OthersMove
<1> QED  BY <1>2, <1>4, <1>5, <1>6, <1>7, <1>8, <1>9, <1>10

LEMMA ObjectMoves ==
    ASSUME TypeOK, CtlSane, AgentSane, [Next]_vars
    PROVE  \A s \in Slice : Moves(s)
<1>1. CASE UNCHANGED obj
  BY <1>1 DEF Moves
<1>2. CASE AgentStep
  BY <1>2, MovesAgent DEF Moves
<1>3. CASE CtlStep
  BY <1>3, MovesCtl DEF Moves
<1>4. CASE Environment
  BY <1>4, MovesEnvironment DEF Moves, Environment
<1> QED  BY <1>1, <1>2, <1>3, <1>4 DEF Next, vars, AgentRead, CtlRead, Boot, Start, Restore,
     LoadDrift, HealDrift, Crash, CorruptCheckpoint

(* What is given up stays so, and an object that was created stays created. *)
NowGivenUp(s) ==
    obj'[s].deleting \/ obj'[s].phase \in {"Releasing", "Released", "Failed", "Gone"}

LEMMA GivenUpStays ==
    ASSUME TypeOK, ObjectsSane, NEW s \in Slice, Moves(s)
    PROVE  /\ GivenUp(s) => GivenUp(s)' /\ NowGivenUp(s)
           /\ obj[s].deleting => obj'[s].deleting
           /\ obj[s].phase # "Absent" => obj'[s].phase # "Absent"
<1>1. CASE obj'[s] = obj[s]
  BY <1>1 DEF GivenUp, NowGivenUp
<1>2. CASE OthersMove(s)
  <2>1. /\ obj[s] = Absent => ~GivenUp(s) /\ ~obj[s].deleting /\ obj[s].phase = "Absent"
        /\ s \in halfBound => obj[s].deleting \/ obj[s].phase = "Pending"
    BY DEF ObjectsSane, Absent, NewObject, GivenUp
  <2>2. "Absent" \notin Phase
    BY DEF Phase
  <2> QED  BY <1>2, <2>1, <2>2 DEF OthersMove, Follows, GivenUp, NowGivenUp
<1>3. CASE AgentMoves(s)
  BY <1>3 DEF AgentMoves, GivenUp, NowGivenUp, Unallocated
<1> QED  BY <1>1, <1>2, <1>3 DEF Moves

(* A slice is granted by the agent's worker, and otherwise it was before,    *)
(* and has what it had. A status shows an allocation only from then on.      *)
LEMMA GrantedByAgent ==
    ASSUME TypeOK, ObjectsSane, NEW s \in Slice, Moves(s)
    PROVE  /\ Granted(s)' => \/ Granted(s) /\ Kept(s)
                             \/ AgentMoves(s) /\ agent.pc = "ready"
           /\ obj[s].n = 0 => obj'[s].n = 0 \/ (AgentMoves(s) /\ agent.pc = "ready")
           /\ obj'[s].phase = "Released" =>
                 obj[s].phase = "Released" \/ (s = agent.s /\ agent.pc = "report")
           /\ obj'[s].n # 0 => Kept(s) \/ (AgentMoves(s) /\ agent.pc = "ready")
<1>1. CASE obj'[s] = obj[s]
  BY <1>1 DEF Granted, Kept
<1>2. CASE OthersMove(s)
  <2>1. /\ NewObject.n = 0 /\ NewObject.phase = "Pending"
    BY DEF NewObject
  <2>2. s \in halfBound => obj[s].deleting \/ obj[s].phase = "Pending"
    BY DEF ObjectsSane
  <2> QED  BY <1>2, <2>1, <2>2 DEF OthersMove, Follows, Granted, Kept
<1>3. CASE AgentMoves(s)
  BY <1>3 DEF AgentMoves, Granted, Kept
<1> QED  BY <1>1, <1>2, <1>3 DEF Moves

LEMMA HalfBoundGrows ==
    ASSUME TypeOK, [Next]_vars
    PROVE  \A s \in halfBound' : \/ s \in halfBound
                                 \/ s \in Slice /\ obj'[s].bound /\ obj'[s].phase = "Pending"
<1>1. CASE UNCHANGED halfBound
  BY <1>1
<1>2. ASSUME NEW t \in Slice, BindNode(t)
      PROVE  \A s \in halfBound' : \/ s \in halfBound
                                   \/ s \in Slice /\ obj'[s].bound /\ obj'[s].phase = "Pending"
  <2>1. obj'[t] = [obj[t] EXCEPT !.bound = TRUE] /\ obj[t] \in Object /\ obj[t].phase = "Pending"
    BY <1>2 DEF BindNode, TypeOK
  <2>2. obj'[t].bound /\ obj'[t].phase = "Pending"
    BY <2>1 DEF Object
  <2> QED  BY <1>2, <2>2 DEF BindNode
<1>3. ASSUME NEW t \in Slice, BindPhase(t)
      PROVE  \A s \in halfBound' : s \in halfBound
  BY <1>3 DEF BindPhase
<1>4. CASE Environment
  BY <1>1, <1>2, <1>3, <1>4 DEF Environment, CreateSlice, FailOrphan, Preempt,
     RollBackPreemption, DeleteSlice
<1>5. CASE AgentStep \/ CtlStep
  BY <1>1, <1>5 DEF AgentStep, CtlStep, AgentFrame, CtlFrame, TransitionToAllocating,
     AllocateCard, GenerateFirewall, SaveCheckpoint, ReportAllocationReady,
     ReportAllocationFailed, RecoverWedged, TeardownFirewall, ReleaseCard, DeleteCheckpoint,
     ReportReleaseComplete, ExpirePreemption, PatchReleasing, RemoveFinalizer, EnsureFinalizer
<1> QED  BY <1>1, <1>4, <1>5 DEF Next, vars, AgentRead, CtlRead, AgentFrame, CtlFrame, Boot,
     Start, Restore, LoadDrift, HealDrift, Crash, CorruptCheckpoint

LEMMA ObjectsStep ==
    ASSUME TypeOK, ObjectsSane, AgentSane, \A s \in Slice : Moves(s), [Next]_vars
    PROVE  ObjectsSane'
<1>1. ASSUME NEW s \in Slice
      PROVE  /\ obj'[s].phase = "Absent" => obj'[s] = Absent
             /\ obj'[s].phase = "Gone" => obj'[s].deleting
             /\ s \in halfBound' =>
                   obj'[s].bound /\ (obj'[s].deleting \/ obj'[s].phase = "Pending")
             /\ obj'[s].n # 0 => GivenUp(s)' \/ obj'[s].phase \in {"Ready", "Preempting"}
  <2>1. /\ obj[s].phase = "Absent" => obj[s] = Absent
        /\ obj[s].phase = "Gone" => obj[s].deleting
        /\ s \in halfBound => obj[s].bound /\ (obj[s].deleting \/ obj[s].phase = "Pending")
        /\ obj[s].n # 0 => GivenUp(s) \/ obj[s].phase \in {"Ready", "Preempting"}
    BY DEF ObjectsSane
  <2>2. GivenUp(s) => GivenUp(s)'
    BY GivenUpStays
  <2>3. s \in halfBound' => s \in halfBound \/ (obj'[s].bound /\ obj'[s].phase = "Pending")
    BY HalfBoundGrows
  <2>4. /\ NewObject.phase = "Pending" /\ NewObject.n = 0
        /\ ~Absent.bound
        /\ "Absent" \notin Phase /\ "Gone" \notin Phase
    BY DEF NewObject, Absent, Phase
  <2>5. CASE obj'[s] = obj[s]
    BY <2>1, <2>2, <2>3, <2>5
  <2>6. CASE OthersMove(s)
    <3>1. CASE obj[s] = Absent /\ obj'[s] = NewObject
      BY <2>1, <2>3, <2>4, <3>1
    <3>2. CASE obj[s].deleting /\ Follows(s, Phase, {"Scheduled", "Releasing", "Gone"})
      BY <2>1, <2>3, <2>4, <3>2 DEF Follows, GivenUp
    <3>3. CASE s \in halfBound \ halfBound' /\ Follows(s, Phase, {"Scheduled"})
      BY <2>1, <2>2, <3>3 DEF Follows, Kept, GivenUp
    <3>4. CASE ~obj[s].bound /\ Follows(s, {"Pending"}, {"Failed"})
      BY <2>1, <2>3, <3>4 DEF Follows, GivenUp
    <3>5. CASE Follows(s, {"Ready"}, {"Preempting"})
      BY <2>1, <2>3, <3>5 DEF Follows
    <3>6. CASE Follows(s, {"Preempting"}, {"Ready", "Releasing"})
      BY <2>1, <2>3, <3>6 DEF Follows, GivenUp
    <3>7. CASE /\ Kept(s) /\ ~obj[s].bound /\ obj'[s].bound
               /\ obj[s].phase = "Pending" /\ obj'[s].phase = "Pending"
               /\ obj'[s].deleting = obj[s].deleting
      BY <2>1, <2>2, <3>7 DEF Kept
    <3>8. CASE /\ Kept(s) /\ obj'[s].bound = obj[s].bound /\ obj'[s].deleting
               /\ obj[s].phase \in Phase /\ obj'[s].phase \in {obj[s].phase, "Gone"}
      BY <2>1, <2>3, <2>4, <3>8 DEF GivenUp
    <3>9. CASE /\ Kept(s) /\ obj'[s].bound = obj[s].bound /\ obj'[s].deleting = obj[s].deleting
               /\ obj[s].phase \in Phase /\ obj'[s].phase = obj[s].phase
      BY <2>1, <2>2, <2>3, <2>4, <3>9 DEF Kept
    <3> QED  BY <2>6, <3>1, <3>2, <3>3, <3>4, <3>5, <3>6, <3>7, <3>8, <3>9 DEF OthersMove
  <2>7. CASE AgentMoves(s)
    <3>1. CASE agent.pc = "announce"
      <4>1. obj[s].n = 0 /\ s \notin halfBound
        BY <2>1, <2>7, <3>1 DEF AgentMoves, Unallocated, GivenUp
      <4> QED  BY <2>3, <2>7, <3>1, <4>1 DEF AgentMoves, Kept
    <3>2. CASE agent.pc = "ready"
      <4>1. s \notin halfBound
        BY <2>1, <2>7, <3>2 DEF AgentMoves, Unallocated
      <4> QED  BY <2>3, <2>7, <3>2, <4>1 DEF AgentMoves
    <3>3. CASE agent.pc = "fail"
      <4>1. s \notin halfBound
        BY <2>1, <2>7, <3>3 DEF AgentMoves, Unallocated
      <4> QED  BY <2>3, <2>7, <3>3, <4>1 DEF AgentMoves, GivenUp
    <3>4. CASE agent.pc = "report"
      <4>1. GivenUp(s)
        BY <2>7, <3>4 DEF AgentMoves, AgentSane, ReleasingSteps
      <4>2. s \in halfBound => obj[s].deleting
        BY <2>1, <4>1 DEF GivenUp
      <4> QED  BY <2>1, <2>3, <2>7, <3>4, <4>2 DEF AgentMoves
    <3> QED  BY <2>7, <3>1, <3>2, <3>3, <3>4 DEF AgentMoves
  <2> QED  BY <2>5, <2>6, <2>7 DEF Moves
<1>2. halfBound' \subseteq Slice
  BY HalfBoundGrows DEF TypeOK
<1> QED  BY <1>1, <1>2 DEF ObjectsSane

LEMMA CtlStays ==
    ASSUME TypeOK, ObjectsSane, CtlSane, \A s \in Slice : Moves(s), [Next]_vars
    PROVE  CtlSane'
<1>1. CASE ctl' = CtlIdle
  BY <1>1 DEF CtlSane, CtlIdle
<1>2. CASE UNCHANGED ctl
  <2>1. ctl.pc \in {"patch", "unfinalize"} => ctl.s \in Slice
    BY CtlBusy DEF TypeOK, CtlType
  <2>2. ctl.pc \in {"patch", "unfinalize"} => obj'[ctl.s].deleting
    BY <2>1, GivenUpStays DEF CtlSane
  <2> QED  BY <1>2, <2>2 DEF CtlSane
<1>3. ASSUME NEW s \in Slice, CtlRead(s)
      PROVE  CtlSane'
  <2>1. PICK pc \in CtlSteps :
           /\ pc = "expire" => obj[s].phase = "Preempting"
           /\ pc \in {"patch", "unfinalize"} => obj[s].deleting
           /\ ctl' = [pc |-> pc, s |-> s, copy |-> obj[s]]
    BY <1>3 DEF CtlRead, CtlSteps
  <2>2. ctl'.pc = pc /\ ctl'.s = s /\ ctl'.copy = obj[s] /\ UNCHANGED obj
    BY <1>3, <2>1 DEF CtlRead
  <2> QED  BY <2>1, <2>2 DEF CtlSane
<1>4. CASE CtlStep
  BY <1>1, <1>4 DEF CtlStep, ExpirePreemption, PatchReleasing, RemoveFinalizer, EnsureFinalizer
<1>5. CASE AgentStep
  BY <1>2, <1>5 DEF AgentStep, AgentFrame, TransitionToAllocating,
     AllocateCard, GenerateFirewall, SaveCheckpoint, ReportAllocationReady,
     ReportAllocationFailed, RecoverWedged, TeardownFirewall, ReleaseCard, DeleteCheckpoint,
     ReportReleaseComplete
<1>6. CASE Environment
  BY <1>2, <1>6 DEF Environment, Others, CreateSlice, BindNode, BindPhase, FailOrphan, Preempt,
     RollBackPreemption, DeleteSlice
<1> QED  BY <1>2, <1>3, <1>4, <1>5, <1>6 DEF Next, vars, AgentRead, AgentFrame, Boot, Start,
     Restore, LoadDrift, HealDrift, Crash, CorruptCheckpoint

-----------------------------------------------------------------------------
(* What a step makes of the worker, the ledger, the disk and the boot.     *)

(* The worker keeps to its slice until it is done. *)
AgentGoesOn ==
    \/ agent' = AgentIdle
    \/ /\ agent'.s = agent.s
       /\ \/ agent.pc \in GrantingSteps /\ agent'.pc \in GrantingSteps
          \/ agent.pc \in ReleasingSteps /\ agent'.pc \in ReleasingSteps
       /\ agent'.copy.deleting = agent.copy.deleting
       /\ agent'.copy.phase \in {agent.copy.phase, "Allocating"}

AgentReads(s) ==
    /\ boot = "up" /\ obj[s].phase # "Absent"
    /\ agent'.s = s /\ agent'.copy = obj[s] /\ agent'.n = obj[s].n
    /\ \/ agent'.pc = "announce" /\ ~obj[s].deleting /\ obj[s].phase \in Unallocated
       \/ agent'.pc = "teardown" /\ GivenUp(s) /\ obj[s].n # 0
       \/ agent'.pc = "recover" /\ GivenUp(s) /\ obj[s].n = 0

(* The worker's next step, and the number of the allocation it is about. *)
AgentNext ==
    \/ agent'.pc = "allocate" /\ agent.pc = "announce"
    \/ agent'.pc = "cdi" /\ agent.pc = "allocate" /\ agent'.n # 0 /\ bySlice'[agent.s] = agent'.n
    \/ agent'.pc = "fail" /\ agent.pc = "allocate"
    \/ agent'.pc = "save" /\ agent.pc = "cdi" /\ agent'.n = agent.n
       /\ cdi' = cdi \cup {<<agent.s, agent.n>>}
    \/ agent'.pc = "ready" /\ agent.pc = "save" /\ agent'.n = agent.n
       /\ store' = store \cup Numbered(agent.s, agent.n)

(* A release: what the ledger has for the slice, or what the status shows. *)
Releases ==
    /\ agent.pc \in {"recover", "release"} /\ agent'.pc \in {"teardown", "delete"}
    /\ \E n \in Nat : Release(agent.s, n)

LedgerMoves ==
    \/ UNCHANGED ledgerVars
    \/ /\ agent.pc = "allocate" /\ bySlice[agent.s] = 0 /\ boot = "up"
       /\ \E c \in Card : Req[agent.s] <= Available(c) /\ Allocate(agent.s, c)
       /\ UNCHANGED <<obj, store>>
    \/ Releases /\ boot = "up" /\ UNCHANGED <<obj, store>>
    \/ boot = "restoring" /\ (\E a \in todo : RestoreAllocation(a)) /\ UNCHANGED <<obj, store>>
    \/ /\ committed' = [c \in Card |-> 0] /\ byAlloc' = {} /\ bySlice' = [s \in Slice |-> 0]
       /\ boot' = "down" /\ UNCHANGED <<attempts, obj, store>>

DiskMoves ==
    /\ \/ UNCHANGED store
       \/ agent.pc = "save" /\ store' = store \cup Numbered(agent.s, agent.n)
          /\ UNCHANGED <<ledgerVars, obj>>
       \/ agent.pc = "delete" /\ store' = {a \in store : ~(a.s = agent.s /\ a.n = agent.n)}
          /\ UNCHANGED <<ledgerVars, obj>>
       \/ \E a \in drift.left : ~Live(a.s) /\ store' = store \ {a}
          /\ UNCHANGED <<ledgerVars, obj, agent>>
    /\ \/ cdi \subseteq cdi'
       \/ agent.pc = "teardown" /\ cdi' = cdi \ {<<agent.s, agent.n>>}
          /\ UNCHANGED <<ledgerVars, obj, store>>

BootMoves ==
    \/ UNCHANGED <<boot, todo, drift>>
    \/ boot' = "down" /\ todo' = {} /\ drift'.left = {} /\ agent' = AgentIdle
       /\ byAlloc' = {} /\ UNCHANGED store
    \/ boot = "down" /\ boot' = "restoring" /\ todo' = store
       /\ UNCHANGED <<ledgerVars, store, agent, drift>>
    \/ \E a \in todo : boot = "restoring" /\ RestoreAllocation(a) /\ todo' = todo \ {a}
       /\ UNCHANGED <<boot, store, agent, drift>>
    \/ boot = "restoring" /\ todo = {} /\ boot' = "up" /\ todo' = {} /\ drift'.left = {}
       /\ UNCHANGED <<ledgerVars, store, agent, obj>>
    \/ UNCHANGED <<boot, todo>> /\ (boot = "up" \/ drift'.left \subseteq drift.left)

AgentTurns ==
    \/ UNCHANGED agent /\ (boot = "up" => boot' = "up")
    \/ agent' = AgentIdle
    \/ AgentGoesOn /\ (agent'.pc \in GrantingSteps => AgentNext) /\ boot = "up" /\ boot' = "up"
    \/ \E s \in Slice : AgentReads(s) /\ UNCHANGED <<ledgerVars, obj, cdi, store, boot>>

LEMMA AgentIsBusy ==
    ASSUME TypeOK, AgentStep
    PROVE  /\ boot = "up" /\ boot' = "up"
           /\ agent \in [pc : AgentSteps, s : Slice, copy : Object, n : Nat]
           /\ agent.s \in Slice /\ agent.copy \in Object /\ agent.n \in Nat
           /\ UNCHANGED <<halfBound, boot, todo, drift, ctl>>
<1>1. boot = "up" /\ agent.pc # "idle"
  BY DEF AgentStep, Agent, TransitionToAllocating, AllocateCard, GenerateFirewall,
     SaveCheckpoint, ReportAllocationReady, ReportAllocationFailed, RecoverWedged,
     TeardownFirewall, ReleaseCard, DeleteCheckpoint, ReportReleaseComplete
<1>2. UNCHANGED <<halfBound, bootVars, ctl>>
  BY DEF AgentStep, AgentFrame, TransitionToAllocating, AllocateCard, GenerateFirewall,
     SaveCheckpoint, ReportAllocationReady, ReportAllocationFailed, RecoverWedged,
     TeardownFirewall, ReleaseCard, DeleteCheckpoint, ReportReleaseComplete
<1> QED  BY <1>1, <1>2, AgentBusy DEF TypeOK, AgentType, bootVars

(* The fields of the worker's record after a step. *)
LEMMA AgentFields ==
    ASSUME agent \in [pc : AgentSteps, s : Slice, copy : Object, n : Nat]
    PROVE  /\ \A pc : LET b == [agent EXCEPT !.pc = pc] IN
                 b.pc = pc /\ b.s = agent.s /\ b.copy = agent.copy /\ b.n = agent.n
           /\ \A pc, n : LET b == [agent EXCEPT !.pc = pc, !.n = n] IN
                 b.pc = pc /\ b.s = agent.s /\ b.copy = agent.copy /\ b.n = n
           /\ \A pc, o : LET b == [agent EXCEPT !.pc = pc, !.copy = o] IN
                 b.pc = pc /\ b.s = agent.s /\ b.copy = o /\ b.n = agent.n
  OBVIOUS

LEMMA AgentMovesOn ==
    ASSUME TypeOK, AgentStep
    PROVE  AgentGoesOn /\ (agent'.pc \in GrantingSteps => AgentNext)
<1>1. agent \in [pc : AgentSteps, s : Slice, copy : Object, n : Nat]
  BY AgentIsBusy
<1>2. agent' = AgentIdle => AgentGoesOn /\ agent'.pc \notin GrantingSteps
  BY DEF AgentGoesOn, AgentIdle, GrantingSteps
<1>3. CASE TransitionToAllocating
  <2> DEFINE new == [agent.copy EXCEPT !.phase = "Allocating"]
  <2>1. SUFFICES ASSUME agent' = [agent EXCEPT !.pc = "allocate", !.copy = new]
                 PROVE  AgentGoesOn /\ AgentNext
    BY <1>2, <1>3 DEF TransitionToAllocating, AgentStops
  <2>2. new.phase = "Allocating" /\ new.deleting = agent.copy.deleting
    BY <1>1 DEF Object
  <2> HIDE DEF new
  <2>3. agent'.pc = "allocate" /\ agent'.s = agent.s /\ agent'.copy = new
    BY <1>1, <2>1, AgentFields
  <2>4. agent.pc = "announce"
    BY <1>3 DEF TransitionToAllocating, Agent
  <2> QED  BY <2>2, <2>3, <2>4 DEF AgentGoesOn, AgentNext, GrantingSteps
<1>4. CASE AllocateCard
  <2>1. agent.pc = "allocate"
    BY <1>4 DEF AllocateCard, Agent
  <2>2. CASE bySlice[agent.s] # 0 /\ UNCHANGED ledgerVars
             /\ agent' = [agent EXCEPT !.pc = "cdi", !.n = bySlice[agent.s]]
    <3>1. /\ agent'.pc = "cdi" /\ agent'.s = agent.s /\ agent'.copy = agent.copy
          /\ agent'.n = bySlice[agent.s]
      BY <1>1, <2>2, AgentFields
    <3> QED  BY <2>1, <2>2, <3>1 DEF AgentGoesOn, AgentNext, GrantingSteps, ledgerVars
  <2>3. ASSUME NEW c \in Card, Allocate(agent.s, c),
               agent' = [agent EXCEPT !.pc = "cdi", !.n = attempts[agent.s] + 1]
        PROVE  AgentGoesOn /\ AgentNext
    <3>1. /\ agent'.pc = "cdi" /\ agent'.s = agent.s /\ agent'.copy = agent.copy
          /\ agent'.n = attempts[agent.s] + 1
      BY <1>1, <2>3, AgentFields
    <3>2. attempts[agent.s] \in Nat /\ bySlice \in [Slice -> Nat] /\ agent.s \in Slice
      BY <1>1 DEF TypeOK, LedgerTypeOK
    <3>3. bySlice'[agent.s] = attempts[agent.s] + 1
      BY <2>3, <3>2 DEF Allocate, Commit
    <3> QED  BY <2>1, <3>1, <3>2, <3>3 DEF AgentGoesOn, AgentNext, GrantingSteps
  <2>4. CASE agent' = [agent EXCEPT !.pc = "fail"]
    <3>1. agent'.pc = "fail" /\ agent'.s = agent.s /\ agent'.copy = agent.copy
      BY <1>1, <2>4, AgentFields
    <3> QED  BY <2>1, <3>1 DEF AgentGoesOn, AgentNext, GrantingSteps
  <2> QED  BY <1>2, <1>4, <2>2, <2>3, <2>4
           DEF AllocateCard, AgentStops, AgentGoes, BestFit, Fitting
<1>5. CASE GenerateFirewall
  <2>1. agent.pc = "cdi"
    BY <1>5 DEF GenerateFirewall, Agent
  <2>2. CASE agent' = [agent EXCEPT !.pc = "save"] /\ cdi' = cdi \cup {<<agent.s, agent.n>>}
    <3>1. /\ agent'.pc = "save" /\ agent'.s = agent.s /\ agent'.copy = agent.copy
          /\ agent'.n = agent.n
      BY <1>1, <2>2, AgentFields
    <3> QED  BY <2>1, <2>2, <3>1 DEF AgentGoesOn, AgentNext, GrantingSteps
  <2> QED  BY <1>2, <1>5, <2>2 DEF GenerateFirewall, AgentStops, AgentGoes
<1>6. CASE SaveCheckpoint
  <2>1. agent.pc = "save"
    BY <1>6 DEF SaveCheckpoint, Agent
  <2>2. CASE /\ agent' = [agent EXCEPT !.pc = "ready"]
             /\ store' = store \cup Numbered(agent.s, agent.n)
    <3>1. /\ agent'.pc = "ready" /\ agent'.s = agent.s /\ agent'.copy = agent.copy
          /\ agent'.n = agent.n
      BY <1>1, <2>2, AgentFields
    <3> QED  BY <2>1, <2>2, <3>1 DEF AgentGoesOn, AgentNext, GrantingSteps
  <2> QED  BY <1>2, <1>6, <2>2 DEF SaveCheckpoint, AgentStops, AgentGoes
<1>7. CASE ReportAllocationReady \/ ReportAllocationFailed \/ ReportReleaseComplete
  BY <1>2, <1>7 DEF ReportAllocationReady, ReportAllocationFailed, ReportReleaseComplete,
     AgentStops
<1>8. ASSUME agent.pc \in ReleasingSteps, NEW pc \in ReleasingSteps, NEW n,
             \/ agent' = [agent EXCEPT !.pc = pc]
             \/ agent' = [agent EXCEPT !.pc = pc, !.n = n]
      PROVE  AgentGoesOn /\ agent'.pc \notin GrantingSteps
  <2>1. agent'.pc = pc /\ agent'.s = agent.s /\ agent'.copy = agent.copy
    BY <1>1, <1>8, AgentFields
  <2> QED  BY <1>8, <2>1 DEF AgentGoesOn, ReleasingSteps, GrantingSteps
<1>9. {"recover", "teardown", "release", "delete", "report"} \subseteq ReleasingSteps
  BY DEF ReleasingSteps
<1>10. CASE RecoverWedged
  BY <1>8, <1>9, <1>10 DEF RecoverWedged, Agent, AgentGoes
<1>11. CASE TeardownFirewall
  BY <1>2, <1>8, <1>9, <1>11 DEF TeardownFirewall, Agent, AgentGoes, AgentStops
<1>12. CASE ReleaseCard
  BY <1>8, <1>9, <1>12 DEF ReleaseCard, Agent, AgentGoes
<1>13. CASE DeleteCheckpoint
  BY <1>2, <1>8, <1>9, <1>13 DEF DeleteCheckpoint, Agent, AgentGoes, AgentStops
<1> QED  BY <1>3, <1>4, <1>5, <1>6, <1>7, <1>10, <1>11, <1>12, <1>13 DEF AgentStep

LEMMA AgentReading ==
    ASSUME TypeOK, NEW s \in Slice, AgentRead(s)
    PROVE  AgentReads(s)
<1>1. PICK pc \in {"announce", "teardown", "recover"} :
         /\ pc = "announce" => ~obj[s].deleting /\ obj[s].phase \in Unallocated
         /\ pc = "teardown" => (obj[s].deleting \/ obj[s].phase = "Releasing") /\ obj[s].n # 0
         /\ pc = "recover" => (obj[s].deleting \/ obj[s].phase = "Releasing") /\ obj[s].n = 0
         /\ agent' = [pc |-> pc, s |-> s, copy |-> obj[s], n |-> obj[s].n]
  BY DEF AgentRead
<1>2. agent'.pc = pc /\ agent'.s = s /\ agent'.copy = obj[s] /\ agent'.n = obj[s].n
  BY <1>1
<1>3. boot = "up" /\ obj[s].phase # "Absent"
  BY DEF AgentRead, Agent, Live, Phase
<1> QED  BY <1>1, <1>2, <1>3 DEF AgentReads, GivenUp

LEMMA AgentTurning ==
    ASSUME TypeOK, [Next]_vars
    PROVE  AgentTurns
<1>1. CASE AgentStep
  BY <1>1, AgentIsBusy, AgentMovesOn DEF AgentTurns
<1>2. ASSUME NEW s \in Slice, AgentRead(s)
      PROVE  AgentTurns
  <2>1. UNCHANGED <<ledgerVars, obj, cdi, store, boot>>
    BY <1>2 DEF AgentRead, AgentFrame, diskVars, bootVars
  <2> QED  BY <1>2, <2>1, AgentReading DEF AgentTurns
<1>3. CASE \/ UNCHANGED vars \/ CtlStep \/ (\E s \in Slice : CtlRead(s)) \/ Environment
           \/ LoadDrift \/ (\E a \in drift.left : HealDrift(a)) \/ CorruptCheckpoint
  <2>1. UNCHANGED <<agent, boot>>
    BY <1>3 DEF vars, CtlStep, ExpirePreemption, PatchReleasing, RemoveFinalizer,
       EnsureFinalizer, CtlRead, CtlFrame, Environment, Others, CreateSlice, BindNode,
       BindPhase, FailOrphan, Preempt, RollBackPreemption, DeleteSlice, LoadDrift, HealDrift,
       CorruptCheckpoint, bootVars
  <2> QED  BY <2>1 DEF AgentTurns
<1>4. CASE Start \/ Restore
  BY <1>4 DEF Start, Restore, AgentTurns
<1>5. CASE Crash
  BY <1>5 DEF Crash, AgentTurns
<1> QED  BY <1>1, <1>2, <1>3, <1>4, <1>5 DEF Next, Boot

LEMMA LedgerMoving ==
    ASSUME TypeOK, [Next]_vars
    PROVE  LedgerMoves
<1>1. CASE \/ UNCHANGED vars \/ CtlStep \/ (\E s \in Slice : AgentRead(s) \/ CtlRead(s))
           \/ Environment \/ LoadDrift \/ Start \/ (\E a \in drift.left : HealDrift(a))
           \/ CorruptCheckpoint
  <2>1. UNCHANGED ledgerVars
    BY <1>1 DEF vars, CtlStep, ExpirePreemption, PatchReleasing, RemoveFinalizer,
       EnsureFinalizer, AgentRead, CtlRead, CtlFrame, Environment, Others, CreateSlice, BindNode,
       BindPhase, FailOrphan, Preempt, RollBackPreemption, DeleteSlice, LoadDrift, HealDrift,
       Start, CorruptCheckpoint
  <2> QED  BY <2>1 DEF LedgerMoves
<1>2. CASE Restore
  BY <1>2 DEF Restore, LedgerMoves, diskVars
<1>3. CASE Crash
  BY <1>3 DEF Crash, LedgerMoves, diskVars
<1>4. CASE AllocateCard
  <2>1. agent.pc = "allocate" /\ boot = "up" /\ UNCHANGED <<obj, store>>
    BY <1>4 DEF AllocateCard, Agent, diskVars
  <2>2. UNCHANGED ledgerVars \/ (/\ bySlice[agent.s] = 0
           /\ \E visible \in SUBSET Card : \E c \in BestFit(agent.s, visible) :
                 Allocate(agent.s, c))
    BY <1>4 DEF AllocateCard
  <2> QED  BY <2>1, <2>2 DEF LedgerMoves, BestFit, Fitting
<1>5. CASE RecoverWedged
  <2>1. agent.pc = "recover" /\ boot = "up" /\ UNCHANGED <<obj, store>>
    BY <1>5 DEF RecoverWedged, Agent, diskVars
  <2>2. agent.s \in Slice /\ bySlice[agent.s] \in Nat
    BY <1>5, AgentIsBusy DEF AgentStep, TypeOK, LedgerTypeOK
  <2>3. UNCHANGED ledgerVars \/ agent'.pc = "teardown"
    BY <1>5, AgentIsBusy, AgentFields DEF AgentStep, RecoverWedged
  <2>4. UNCHANGED ledgerVars \/ Releases
    BY <1>5, <2>1, <2>2, <2>3 DEF RecoverWedged, Releases
  <2> QED  BY <2>1, <2>4 DEF LedgerMoves
<1>6. CASE ReleaseCard
  <2>1. agent.pc = "release" /\ boot = "up" /\ UNCHANGED <<obj, store>>
    BY <1>6 DEF ReleaseCard, Agent, diskVars
  <2>2. agent.n \in Nat /\ agent'.pc = "delete"
    BY <1>6, AgentIsBusy, AgentFields DEF AgentStep, ReleaseCard, AgentGoes
  <2>3. Releases
    BY <1>6, <2>1, <2>2 DEF ReleaseCard, Releases
  <2> QED  BY <2>1, <2>3 DEF LedgerMoves
<1>7. CASE AgentStep
  BY <1>4, <1>5, <1>6, <1>7 DEF AgentStep, TransitionToAllocating, GenerateFirewall,
     SaveCheckpoint, ReportAllocationReady, ReportAllocationFailed, TeardownFirewall,
     DeleteCheckpoint, ReportReleaseComplete, LedgerMoves
<1> QED  BY <1>1, <1>2, <1>3, <1>7 DEF Next, Boot

LEMMA DiskMoving ==
    ASSUME TypeOK, [Next]_vars
    PROVE  DiskMoves
<1>1. CASE UNCHANGED <<cdi, store>>
  BY <1>1 DEF DiskMoves
<1>2. CASE GenerateFirewall
  BY <1>2 DEF GenerateFirewall, DiskMoves
<1>3. CASE TeardownFirewall
  BY <1>3 DEF TeardownFirewall, Agent, DiskMoves
<1>4. CASE SaveCheckpoint
  BY <1>4 DEF SaveCheckpoint, Agent, DiskMoves
<1>5. CASE DeleteCheckpoint
  BY <1>5 DEF DeleteCheckpoint, Agent, DiskMoves
<1>6. ASSUME NEW a \in drift.left, HealDrift(a)
      PROVE  DiskMoves
  BY <1>6 DEF HealDrift, DiskMoves
<1>7. CASE AgentStep
  BY <1>1, <1>2, <1>3, <1>4, <1>5, <1>7 DEF AgentStep, TransitionToAllocating, AllocateCard,
     ReportAllocationReady, ReportAllocationFailed, RecoverWedged, ReleaseCard,
     ReportReleaseComplete, diskVars
<1>8. CASE \/ UNCHANGED vars \/ CtlStep \/ (\E s \in Slice : AgentRead(s) \/ CtlRead(s))
           \/ Environment \/ Boot \/ Crash \/ CorruptCheckpoint
  <2>1. UNCHANGED <<cdi, store>>
    BY <1>8 DEF vars, CtlStep, ExpirePreemption, PatchReleasing, RemoveFinalizer,
       EnsureFinalizer, AgentRead, CtlRead, CtlFrame, Environment, Others, CreateSlice, BindNode,
       BindPhase, FailOrphan, Preempt, RollBackPreemption, DeleteSlice, Boot, LoadDrift,
       Start, Restore, Crash, CorruptCheckpoint, diskVars
  <2> QED  BY <1>1, <2>1
<1> QED  BY <1>6, <1>7, <1>8 DEF Next

(* That the ledger is loaded from the disk is assumed here: "unreadable" is   *)
(* not among the faults.                                                     *)
LEMMA BootMoving ==
    ASSUME TypeOK, "unreadable" \notin Faults, [Next]_vars
    PROVE  BootMoves
<1>1. CASE UNCHANGED <<boot, todo, drift>>
  BY <1>1 DEF BootMoves
<1>2. CASE Start
  <2>1. boot = "down" /\ boot' = "restoring" /\ todo' = store
    BY <1>2 DEF Start, Fails, TypeOK
  <2> QED  BY <1>2, <2>1 DEF Start, BootMoves, diskVars
<1>3. CASE Restore
  <2>1. CASE \E a \in todo : /\ RestoreAllocation(a) /\ todo' = todo \ {a}
                             /\ UNCHANGED <<boot, drift>>
    BY <1>3, <2>1 DEF Restore, BootMoves, diskVars
  <2>2. CASE /\ todo = {} /\ boot' = "up" /\ drift' = [loaded |-> FALSE, left |-> {}]
             /\ UNCHANGED <<ledgerVars, todo>>
    BY <1>3, <2>2 DEF Restore, BootMoves, diskVars
  <2> QED  BY <1>3, <2>1, <2>2 DEF Restore
<1>4. CASE LoadDrift \/ (\E a \in drift.left : HealDrift(a))
  <2>1. CASE LoadDrift
    BY <2>1 DEF LoadDrift, BootMoves
  <2>2. ASSUME NEW a \in drift.left, HealDrift(a)
        PROVE  UNCHANGED <<boot, todo>> /\ drift'.left \subseteq drift.left
    BY <2>2 DEF HealDrift, TypeOK
  <2> QED  BY <1>4, <2>1, <2>2 DEF BootMoves
<1>5. CASE Crash
  BY <1>5 DEF Crash, BootMoves, diskVars
<1>6. CASE \/ UNCHANGED vars \/ CtlStep \/ (\E s \in Slice : AgentRead(s) \/ CtlRead(s))
           \/ Environment \/ CorruptCheckpoint
  <2>1. UNCHANGED <<boot, todo, drift>>
    BY <1>6 DEF vars, CtlStep, ExpirePreemption, PatchReleasing, RemoveFinalizer,
       EnsureFinalizer, AgentRead, AgentFrame, CtlRead, CtlFrame, Environment, Others,
       CreateSlice, BindNode, BindPhase, FailOrphan, Preempt, RollBackPreemption, DeleteSlice,
       CorruptCheckpoint, bootVars
  <2> QED  BY <1>1, <2>1
<1> QED  BY <1>1, <1>2, <1>3, <1>4, <1>5, <1>6, AgentIsBusy DEF Next, Boot

LEMMA AgentStays ==
    ASSUME TypeOK, ObjectsSane, AgentSane, BootSane, AgentTurns, \A s \in Slice : Moves(s)
    PROVE  AgentSane'
<1>1. ASSUME agent.pc # "idle"
      PROVE  /\ agent.s \in Slice
             /\ obj[agent.s].phase # "Absent" /\ obj'[agent.s].phase # "Absent"
             /\ boot = "up"
             /\ GivenUp(agent.s) => NowGivenUp(agent.s)
  <2>1. agent.s \in Slice
    BY <1>1, AgentBusy DEF TypeOK, AgentType
  <2>2. boot = "up" /\ obj[agent.s].phase # "Absent"
    BY <1>1 DEF AgentSane
  <2> QED  BY <2>1, <2>2, GivenUpStays
<1>2. ASSUME agent.pc \in GrantingSteps, agent'.pc \in GrantingSteps,
             agent' = agent \/ agent.pc # "ready"
      PROVE  obj'[agent.s].n = 0 /\ obj'[agent.s].phase # "Released"
  <2>1. agent.pc \notin {"idle", "report"} /\ agent'.pc # "idle"
    BY <1>2 DEF GrantingSteps
  <2>2. agent.s \in Slice /\ Moves(agent.s)
    BY <1>1, <2>1
  <2>3. AgentMoves(agent.s) => agent.pc # "ready"
    BY <1>2, <2>1 DEF AgentMoves, AgentIdle
  <2> QED  BY <1>2, <2>1, <2>2, <2>3, GrantedByAgent DEF AgentSane
<1>3. AgentIdle.pc = "idle" /\ "idle" \notin GrantingSteps /\ "idle" \notin ReleasingSteps
  BY DEF AgentIdle, GrantingSteps, ReleasingSteps
<1>4. CASE agent' = AgentIdle
  BY <1>3, <1>4 DEF AgentSane
<1>5. CASE UNCHANGED agent /\ (boot = "up" => boot' = "up")
  <2>1. agent.pc # "idle" => boot' = "up" /\ obj'[agent.s].phase # "Absent"
    BY <1>1, <1>5
  <2>2. agent.pc \in ReleasingSteps => NowGivenUp(agent.s)
    BY <1>1, <1>3 DEF AgentSane
  <2>3. agent.pc \in GrantingSteps => obj'[agent.s].n = 0 /\ obj'[agent.s].phase # "Released"
    BY <1>2, <1>5
  <2> QED  BY <1>5, <2>1, <2>2, <2>3 DEF AgentSane, GivenUp, NowGivenUp
<1>6. CASE AgentGoesOn /\ (agent'.pc \in GrantingSteps => AgentNext) /\ boot' = "up"
  <2>1. SUFFICES ASSUME agent' # AgentIdle
                 PROVE  AgentSane'
    BY <1>4
  <2>2. /\ agent'.s = agent.s /\ agent'.copy.deleting = agent.copy.deleting
        /\ agent'.copy.phase \in {agent.copy.phase, "Allocating"}
        /\ \/ agent.pc \in GrantingSteps /\ agent'.pc \in GrantingSteps
           \/ agent.pc \in ReleasingSteps /\ agent'.pc \in ReleasingSteps
    BY <1>6, <2>1 DEF AgentGoesOn
  <2>3. "idle" # agent.pc
    BY <1>3, <2>2
  <2>4. agent.pc \in ReleasingSteps => NowGivenUp(agent.s)
    BY <1>1, <2>3 DEF AgentSane
  <2>5. GrantingSteps \cap ReleasingSteps = {}
    BY DEF GrantingSteps, ReleasingSteps
  <2>6. agent'.pc \in GrantingSteps =>
           /\ agent.pc \in GrantingSteps /\ agent.pc # "ready"
           /\ obj'[agent.s].n = 0 /\ obj'[agent.s].phase # "Released"
    BY <1>2, <1>6, <2>2, <2>5 DEF AgentNext
  <2>7. agent'.pc \in GrantingSteps =>
           ~agent'.copy.deleting /\ agent'.copy.phase \in Unallocated
    BY <2>2, <2>6 DEF AgentSane, Unallocated
  <2>8. agent'.pc \in ReleasingSteps => NowGivenUp(agent'.s)
    BY <2>2, <2>4, <2>5 DEF NowGivenUp
  <2> QED  BY <1>1, <1>6, <2>2, <2>3, <2>6, <2>7, <2>8 DEF AgentSane, GivenUp, NowGivenUp
<1>7. ASSUME NEW s \in Slice, AgentReads(s), UNCHANGED <<obj, boot>>
      PROVE  AgentSane'
  <2>1. CASE agent'.pc = "announce"
    <3>1. ~obj[s].deleting /\ obj[s].phase \in Unallocated
      BY <1>7, <2>1 DEF AgentReads
    <3>2. obj[s].n = 0
      BY <3>1 DEF ObjectsSane, GivenUp, Unallocated
    <3> QED  BY <1>7, <2>1, <3>1, <3>2 DEF AgentReads, AgentSane, ReleasingSteps, Unallocated
  <2>2. CASE agent'.pc \in {"teardown", "recover"}
    BY <1>7, <2>2 DEF AgentReads, AgentSane, GrantingSteps, GivenUp
  <2> QED  BY <1>7, <2>1, <2>2 DEF AgentReads
<1> QED  BY <1>4, <1>5, <1>6, <1>7 DEF AgentTurns

-----------------------------------------------------------------------------
(* The records.                                                            *)

(* The critical sections of the allocator, for a ledger of one record for    *)
(* each slice: a slice without a number has none, and a release removes the   *)
(* only one.                                                                 *)
LEMMA Committing ==
    ASSUME LedgerTypeOK, NEW a \in Allocation, Commit(a)
    PROVE  /\ byAlloc' = byAlloc \cup {a}
           /\ bySlice'[a.s] = a.n
           /\ \A t \in Slice \ {a.s} : bySlice'[t] = bySlice[t]
           /\ committed'[a.card] = committed[a.card] + Req[a.s]
           /\ \A c \in Card \ {a.card} : committed'[c] = committed[c]
  BY DEF LedgerTypeOK, Allocation, Commit

LEMMA Releasing ==
    ASSUME LedgerTypeOK, NEW s \in Slice, NEW n \in Nat, Release(s, n),
           \A a, b \in byAlloc : a.s = b.s => a = b,
           \A a \in byAlloc : bySlice[a.s] = a.n
    PROVE  \/ UNCHANGED ledgerVars
           \/ \E a \in byAlloc :
                 /\ a.s = s /\ a.n = n
                 /\ byAlloc' = byAlloc \ {a} /\ \A b \in byAlloc' : b.s # s
                 /\ bySlice'[s] = 0
                 /\ \A t \in Slice \ {s} : bySlice'[t] = bySlice[t]
                 /\ Req[s] <= committed[a.card] =>
                       committed'[a.card] = committed[a.card] - Req[s]
                 /\ \A c \in Card \ {a.card} : committed'[c] = committed[c]
                 /\ UNCHANGED attempts
<1>1. SUFFICES ASSUME NEW a \in Numbered(s, n),
                      committed' = [committed EXCEPT ![a.card] =
                                       IF Req[s] <= @ THEN @ - Req[s] ELSE 0],
                      byAlloc' = byAlloc \ {a},
                      bySlice' = [bySlice EXCEPT ![s] = 0],
                      UNCHANGED attempts
               PROVE  \E b \in byAlloc :
                 /\ b.s = s /\ b.n = n
                 /\ byAlloc' = byAlloc \ {b} /\ \A d \in byAlloc' : d.s # s
                 /\ bySlice'[s] = 0
                 /\ \A t \in Slice \ {s} : bySlice'[t] = bySlice[t]
                 /\ Req[s] <= committed[b.card] =>
                       committed'[b.card] = committed[b.card] - Req[s]
                 /\ \A c \in Card \ {b.card} : committed'[c] = committed[c]
                 /\ UNCHANGED attempts
  BY DEF Release, ledgerVars
<1>2. a \in byAlloc /\ a.s = s /\ a.n = n /\ a.card \in Card
  BY DEF Numbered, LedgerTypeOK, Allocation
<1>3. \A d \in byAlloc' : d.s # s
  BY <1>1, <1>2
<1>4. bySlice'[s] = 0 /\ \A t \in Slice \ {s} : bySlice'[t] = bySlice[t]
  BY <1>1 DEF LedgerTypeOK
<1>5. /\ Req[s] <= committed[a.card] => committed'[a.card] = committed[a.card] - Req[s]
      /\ \A c \in Card \ {a.card} : committed'[c] = committed[c]
  BY <1>1, <1>2 DEF LedgerTypeOK
<1> QED  BY <1>1, <1>2, <1>3, <1>4, <1>5

LEMMA Allocating ==
    ASSUME LedgerTypeOK, NEW s \in Slice, NEW c \in Card, Allocate(s, c)
    PROVE  \E a \in Allocation :
              /\ a.s = s /\ a.card = c /\ a.n = attempts[s] + 1 /\ a.n # 0
              /\ Commit(a)
              /\ attempts'[s] = a.n
              /\ \A t \in Slice \ {s} : attempts'[t] = attempts[t]
<1> DEFINE a == [s |-> s, n |-> attempts[s] + 1, card |-> c]
<1>1. attempts \in [Slice -> Nat] /\ attempts[s] \in Nat
  BY DEF LedgerTypeOK
<1>2. a \in Allocation /\ a.s = s /\ a.card = c /\ a.n = attempts[s] + 1
  BY <1>1 DEF Allocation
<1>3. Commit(a)
  BY DEF Allocate
<1>4. attempts'[s] = attempts[s] + 1 /\ \A t \in Slice \ {s} : attempts'[t] = attempts[t]
  BY <1>1 DEF Allocate
<1> HIDE DEF a
<1> QED  BY <1>1, <1>2, <1>3, <1>4

(* No number is taken back. *)
LEMMA AttemptsGrow ==
    ASSUME TypeOK, LedgerMoves
    PROVE  \A s \in Slice : attempts'[s] >= attempts[s] /\ attempts[s] \in Nat
<1>1. LedgerTypeOK /\ \A s \in Slice : attempts[s] \in Nat
  BY DEF TypeOK, LedgerTypeOK
<1>2. CASE UNCHANGED attempts
  BY <1>1, <1>2
<1>3. ASSUME NEW c \in Card, agent.pc = "allocate", Allocate(agent.s, c)
      PROVE  \A s \in Slice : attempts'[s] >= attempts[s]
  <2>1. agent.s \in Slice
    BY <1>3, AgentBusy DEF TypeOK, AgentType
  <2>2. \A s \in Slice : attempts'[s] = attempts[s] \/ attempts'[s] = attempts[s] + 1
    BY <1>1, <1>3, <2>1, Allocating
  <2> QED  BY <1>1, <2>2
<1>4. ASSUME NEW n \in Nat, Release(agent.s, n)
      PROVE  UNCHANGED attempts
  BY <1>4 DEF Release
<1>5. ASSUME NEW a \in todo, RestoreAllocation(a)
      PROVE  UNCHANGED attempts
  BY <1>5 DEF RestoreAllocation
<1> QED  BY <1>1, <1>2, <1>3, <1>4, <1>5 DEF LedgerMoves, Releases, ledgerVars

(* What a step does to the records: a new one has a number of its own, and     *)
(* belongs to a slice that had none.                                         *)
LEMMA RecordsMove ==
    ASSUME TypeOK, RecordsSane, BootSane, AllocationUnderWay, LedgerMoves, DiskMoves
    PROVE  /\ store' \subseteq Records
           /\ \A a \in byAlloc' :
                 \/ a \in Records
                 \/ /\ a.s = agent.s /\ agent.pc = "allocate" /\ a \in Allocation
                    /\ a.n = attempts'[a.s]
                    /\ byAlloc' = byAlloc \cup {a} /\ UNCHANGED <<obj, store>>
                    /\ Req[a.s] <= Available(a.card)
                    /\ \A b \in Records : b.s # a.s
<1>1. store' \subseteq Records
  BY DEF DiskMoves, Records, Numbered
<1>2. LedgerTypeOK /\ todo \subseteq store
  BY DEF TypeOK, BootSane
<1>3. CASE byAlloc' \subseteq Records
  BY <1>1, <1>3
<1>4. ASSUME NEW c \in Card, agent.pc = "allocate", bySlice[agent.s] = 0, Allocate(agent.s, c),
             Req[agent.s] <= Available(c), UNCHANGED <<obj, store>>
      PROVE  \A a \in byAlloc' :
                 \/ a \in Records
                 \/ /\ a.s = agent.s /\ agent.pc = "allocate" /\ a \in Allocation
                    /\ a.n = attempts'[a.s]
                    /\ byAlloc' = byAlloc \cup {a} /\ UNCHANGED <<obj, store>>
                    /\ Req[a.s] <= Available(a.card)
                    /\ \A b \in Records : b.s # a.s
  <2>1. agent.s \in Slice
    BY <1>4, AgentBusy DEF TypeOK, AgentType
  <2>2. PICK a \in Allocation : /\ a.s = agent.s /\ a.card = c /\ Commit(a)
                                /\ attempts'[agent.s] = a.n
    BY <1>2, <1>4, <2>1, Allocating
  <2>3. byAlloc' = byAlloc \cup {a}
    BY <2>2 DEF Commit
  <2>4. \A b \in byAlloc : b.s # agent.s
    BY <1>2, <1>4 DEF RecordsSane, LedgerTypeOK, Allocation
  <2>5. \A b \in Records : b.s # agent.s
    BY <1>4, <2>4 DEF AllocationUnderWay, Records
  <2> QED  BY <1>4, <2>2, <2>3, <2>5 DEF Records
<1>5. ASSUME NEW n \in Nat, Release(agent.s, n)
      PROVE  byAlloc' \subseteq Records
  BY <1>5 DEF Release, Records
<1>6. ASSUME NEW a \in todo, RestoreAllocation(a)
      PROVE  byAlloc' \subseteq Records
  BY <1>2, <1>6 DEF RestoreAllocation, Commit, Records
<1> QED  BY <1>1, <1>3, <1>4, <1>5, <1>6 DEF LedgerMoves, Releases, Records, ledgerVars

LEMMA RecordsStep ==
    ASSUME TypeOK, ObjectsSane, AgentSane, RecordsSane, BootSane, AllocationUnderWay,
           LedgerMoves, DiskMoves, \A s \in Slice : Moves(s)
    PROVE  RecordsSane'
<1>1. LedgerTypeOK /\ Records \subseteq Allocation /\ \A a \in Allocation : a.s \in Slice
  BY DEF TypeOK, LedgerTypeOK, Records, Allocation
<1>2. \A a \in Records : a.n \in Nat /\ a.n <= attempts'[a.s] /\ obj'[a.s].phase # "Absent"
  <2>1. SUFFICES ASSUME NEW a \in Records
                 PROVE  a.n \in Nat /\ a.n <= attempts'[a.s] /\ obj'[a.s].phase # "Absent"
    OBVIOUS
  <2>2. /\ a.s \in Slice /\ a.n \in Nat
        /\ a.n <= attempts[a.s] /\ obj[a.s].phase # "Absent"
    BY <1>1 DEF RecordsSane, Allocation
  <2>3. obj'[a.s].phase # "Absent"
    <3>1. ASSUME NEW s \in Slice, obj[s].phase # "Absent"
          PROVE  obj'[s].phase # "Absent"
      BY <3>1, GivenUpStays
    <3> QED  BY <2>2, <3>1
  <2>4. attempts'[a.s] \in Nat /\ attempts'[a.s] >= attempts[a.s] /\ attempts[a.s] \in Nat
    <3>1. attempts' \in [Slice -> Nat]
      <4>1. agent.pc \in {"allocate", "recover", "release"} => agent.s \in Slice
        BY AgentBusy DEF TypeOK, AgentType
      <4>2. todo \subseteq Allocation
        BY DEF TypeOK
      <4>3. UNCHANGED ledgerVars => attempts' \in [Slice -> Nat]
        BY <1>1 DEF LedgerTypeOK, ledgerVars
      <4> QED  BY <1>1, <4>1, <4>2, <4>3, LedgerTyped DEF LedgerMoves, Releases, LedgerTypeOK
    <3> QED  BY <2>2, <3>1, AttemptsGrow
  <2> QED  BY <2>2, <2>3, <2>4
<1>3. /\ \A a \in Records' : a.n <= attempts'[a.s] /\ obj'[a.s].phase # "Absent"
      /\ \A a, b \in Records' : a.s = b.s => a = b
  <2>1. /\ store' \subseteq Records
        /\ \A a, b \in Records : a.s = b.s => a = b
    BY RecordsMove DEF RecordsSane
  <2>2. CASE byAlloc' \subseteq Records
    BY <1>2, <2>1, <2>2 DEF Records
  <2>3. ASSUME NEW a \in byAlloc', a \notin Records
        PROVE  /\ \A b \in Records' : b.n <= attempts'[b.s] /\ obj'[b.s].phase # "Absent"
               /\ \A b, d \in Records' : b.s = d.s => b = d
    <3>1. /\ a.s = agent.s /\ agent.pc = "allocate" /\ a \in Allocation
          /\ a.n = attempts'[a.s] /\ byAlloc' = byAlloc \cup {a} /\ UNCHANGED <<obj, store>>
          /\ \A b \in Records : b.s # a.s
      BY <2>3, RecordsMove
    <3>2. a.n <= attempts'[a.s] /\ obj'[a.s].phase # "Absent"
      BY <3>1 DEF Allocation, AgentSane
    <3>3. Records' = Records \cup {a}
      BY <3>1 DEF Records
    <3> QED  BY <1>2, <2>1, <3>1, <3>2, <3>3
  <2> QED  BY <2>2, <2>3
<1>4. /\ \A a \in byAlloc' : bySlice'[a.s] = a.n
      /\ \A s \in Slice : bySlice'[s] # 0 => \E a \in byAlloc' : a.s = s
  <2>1. /\ \A a \in byAlloc : bySlice[a.s] = a.n /\ a.s \in Slice
        /\ \A s \in Slice : bySlice[s] # 0 => \E a \in byAlloc : a.s = s
        /\ \A a, b \in Records : a.s = b.s => a = b
        /\ byAlloc \subseteq Records
    BY <1>1 DEF RecordsSane, Records
  <2>2. CASE UNCHANGED ledgerVars
    BY <2>1, <2>2 DEF ledgerVars
  <2>3. ASSUME NEW a \in Allocation, Commit(a), \A b \in byAlloc : b.s # a.s
        PROVE  /\ \A b \in byAlloc' : bySlice'[b.s] = b.n
               /\ \A s \in Slice : bySlice'[s] # 0 => \E b \in byAlloc' : b.s = s
    BY <1>1, <2>1, <2>3, Committing
  <2>4. ASSUME NEW c \in Card, agent.pc = "allocate", bySlice[agent.s] = 0, Allocate(agent.s, c)
        PROVE  /\ \A b \in byAlloc' : bySlice'[b.s] = b.n
               /\ \A s \in Slice : bySlice'[s] # 0 => \E b \in byAlloc' : b.s = s
    <3>1. agent.s \in Slice
      BY <2>4, AgentBusy DEF TypeOK, AgentType
    <3>2. PICK a \in Allocation : a.s = agent.s /\ Commit(a)
      BY <1>1, <2>4, <3>1, Allocating
    <3>3. \A b \in byAlloc : b.s # a.s
      BY <1>1, <2>1, <2>4, <3>2 DEF LedgerTypeOK, Allocation
    <3> QED  BY <2>3, <3>2, <3>3
  <2>5. CASE Releases
    <3>1. agent.s \in Slice
      BY <2>5, AgentBusy DEF TypeOK, AgentType, Releases
    <3>2. PICK n \in Nat : Release(agent.s, n)
      BY <2>5 DEF Releases
    <3> QED  BY <1>1, <2>1, <2>2, <3>1, <3>2, Releasing
  <2>6. ASSUME NEW a \in todo, RestoreAllocation(a)
        PROVE  /\ \A b \in byAlloc' : bySlice'[b.s] = b.n
               /\ \A s \in Slice : bySlice'[s] # 0 => \E b \in byAlloc' : b.s = s
    <3>1. a \in Records /\ a \in Allocation
      BY <1>1 DEF BootSane, Records
    <3>2. CASE Numbered(a.s, a.n) # {}
      BY <2>2, <2>6, <3>2 DEF RestoreAllocation, ledgerVars
    <3>3. CASE Numbered(a.s, a.n) = {}
      <4>1. \A b \in byAlloc : b.s # a.s
        BY <2>1, <3>1, <3>3 DEF Numbered
      <4> QED  BY <2>3, <2>6, <3>1, <3>3, <4>1 DEF RestoreAllocation
    <3> QED  BY <3>2, <3>3
  <2>7. CASE byAlloc' = {} /\ bySlice' = [s \in Slice |-> 0]
    BY <2>7
  <2> QED  BY <2>2, <2>4, <2>5, <2>6, <2>7 DEF LedgerMoves
<1> QED  BY <1>3, <1>4 DEF RecordsSane

LEMMA StoreBacked ==
    ASSUME TypeOK, ObjectsSane, AgentSane, RecordsSane, BootSane, AllocationUnderWay,
           LedgerMoves, DiskMoves, \A s \in Slice : Moves(s), boot = "up", boot' = "up"
    PROVE  \A a \in store' : a \in byAlloc' \/ GivenUp(a.s)'
<1>1. SUFFICES ASSUME NEW a \in store', a \notin byAlloc'
               PROVE  GivenUp(a.s)'
  OBVIOUS
<1>2. LedgerTypeOK /\ a \in Records /\ a.s \in Slice
  BY RecordsMove DEF TypeOK, LedgerTypeOK, Records, Allocation
<1>3. GivenUp(a.s) => GivenUp(a.s)'
  <2>1. ASSUME NEW s \in Slice, GivenUp(s)
        PROVE  NowGivenUp(s)
    BY <2>1, GivenUpStays
  <2> QED  BY <1>2, <2>1 DEF GivenUp, NowGivenUp
<1>4. a \in byAlloc \/ GivenUp(a.s)
  BY <1>2 DEF Records, BootSane
<1>5. CASE a \in byAlloc
  <2>1. Releases
    BY <1>1, <1>5, Committing DEF LedgerMoves, ledgerVars, RestoreAllocation, Allocate, Commit
  <2>2. agent.s \in Slice /\ GivenUp(agent.s)
    BY <2>1, AgentBusy DEF TypeOK, AgentType, Releases, AgentSane, ReleasingSteps
  <2>3. PICK n \in Nat : Release(agent.s, n)
    BY <2>1 DEF Releases
  <2>4. a.s = agent.s
    BY <1>1, <1>5, <2>3 DEF Release, Numbered
  <2> QED  BY <1>3, <2>2, <2>4
<1> QED  BY <1>3, <1>4, <1>5

LEMMA BootStep ==
    ASSUME TypeOK, ObjectsSane, AgentSane, RecordsSane, BootSane, AllocationUnderWay,
           AgentTurns, LedgerMoves, DiskMoves, BootMoves, \A s \in Slice : Moves(s)
    PROVE  BootSane'
<1>1. AgentIdle.pc = "idle" /\ "idle" \notin GrantingSteps /\ "idle" \notin ReleasingSteps
  BY DEF AgentIdle, GrantingSteps, ReleasingSteps
<1>2. boot = "up" /\ boot' = "up" => \A a \in store' : a \in byAlloc' \/ GivenUp(a.s)'
  BY StoreBacked
<1>3. boot # "up" => agent' = AgentIdle /\ UNCHANGED store
  BY <1>1 DEF BootSane, AgentTurns, AgentGoesOn, AgentReads, DiskMoves
<1>4. ASSUME boot # "up", boot' = boot
      PROVE  byAlloc \subseteq byAlloc' \/ (byAlloc' = {} /\ boot = "down")
  BY <1>1, <1>4 DEF BootSane, LedgerMoves, ledgerVars, RestoreAllocation, Commit
<1>5. ASSUME UNCHANGED <<boot, todo>>, drift'.left \subseteq drift.left
      PROVE  BootSane'
  <2>1. CASE boot = "up"
    BY <1>2, <1>5, <2>1 DEF BootSane
  <2>2. CASE boot # "up"
    <3>1. agent' = AgentIdle /\ UNCHANGED store /\ drift'.left = {}
      BY <1>3, <1>5, <2>2 DEF BootSane
    <3>2. boot = "down" => byAlloc' = {}
      <4>1. boot = "down" => byAlloc' = byAlloc \/ byAlloc' = {}
        BY <1>1, <2>2 DEF BootSane, LedgerMoves, ledgerVars, Releases
      <4> QED  BY <4>1 DEF BootSane
    <3>3. boot = "restoring" => store' \subseteq byAlloc' \cup todo'
      BY <1>4, <1>5, <2>2, <3>1 DEF BootSane
    <3> QED  BY <1>5, <2>2, <3>1, <3>2, <3>3 DEF BootSane
  <2> QED  BY <2>1, <2>2
<1>6. CASE UNCHANGED <<boot, todo>> /\ boot = "up"
  BY <1>2, <1>6 DEF BootSane
<1>7. CASE /\ boot' = "down" /\ todo' = {} /\ drift'.left = {} /\ agent' = AgentIdle
           /\ byAlloc' = {} /\ UNCHANGED store
  BY <1>7 DEF BootSane
<1>8. CASE /\ boot = "down" /\ boot' = "restoring" /\ todo' = store
           /\ UNCHANGED <<ledgerVars, store, agent, drift>>
  BY <1>8 DEF BootSane
<1>9. ASSUME NEW a \in todo, boot = "restoring", RestoreAllocation(a), todo' = todo \ {a},
             UNCHANGED <<boot, store, agent, drift>>
      PROVE  BootSane'
  <2>1. byAlloc \subseteq byAlloc'
    BY <1>9 DEF RestoreAllocation, Commit
  <2>2. a \in byAlloc'
    <3>1. CASE Numbered(a.s, a.n) # {}
      <4>1. PICK b \in byAlloc : b.s = a.s
        BY <3>1 DEF Numbered
      <4>2. a \in Records /\ b \in Records
        BY <4>1 DEF BootSane, Records
      <4> QED  BY <2>1, <4>1, <4>2 DEF RecordsSane
    <3>2. CASE Numbered(a.s, a.n) = {}
      BY <1>9, <3>2 DEF RestoreAllocation, Commit
    <3> QED  BY <3>1, <3>2
  <2> QED  BY <1>9, <2>1, <2>2 DEF BootSane
<1>10. CASE /\ boot = "restoring" /\ todo = {} /\ boot' = "up" /\ todo' = {} /\ drift'.left = {}
            /\ UNCHANGED <<ledgerVars, store, agent, obj>>
  BY <1>10 DEF BootSane, ledgerVars
<1>11. UNCHANGED drift => drift'.left \subseteq drift.left
  OBVIOUS
<1> QED  BY <1>5, <1>6, <1>7, <1>8, <1>9, <1>10, <1>11 DEF BootMoves

(* Between the steps of an allocation nobody else touches what they made. *)
LEMMA Undisturbed ==
    ASSUME TypeOK, ObjectsSane, AgentSane, RecordsSane, BootSane, AllocationUnderWay,
           LedgerMoves, DiskMoves, \A s \in Slice : Moves(s),
           agent.pc \in GrantingSteps, boot' = "up"
    PROVE  /\ agent.pc # "allocate" => UNCHANGED ledgerVars
           /\ byAlloc \subseteq byAlloc'
           /\ cdi \subseteq cdi'
           /\ agent.pc # "save" => store' \subseteq store
           /\ \A a \in store : a \in store' \/ GivenUp(a.s)'
<1>1. boot = "up" /\ agent.pc \notin {"recover", "release", "teardown", "delete"}
  BY DEF AgentSane, GrantingSteps
<1>2. agent.pc # "allocate" => UNCHANGED ledgerVars
  BY <1>1 DEF LedgerMoves, Releases
<1>3. byAlloc \subseteq byAlloc'
  BY <1>1 DEF LedgerMoves, Releases, ledgerVars, Allocate, Commit
<1>4. cdi \subseteq cdi'
  BY <1>1 DEF DiskMoves
<1>5. agent.pc # "save" => store' \subseteq store
  BY <1>1 DEF DiskMoves
<1>6. ASSUME NEW a \in store, a \notin store'
      PROVE  GivenUp(a.s)'
  <2>1. ~Live(a.s) /\ UNCHANGED obj
    BY <1>1, <1>6 DEF DiskMoves
  <2>2. a.s \in Slice /\ obj[a.s].phase # "Absent" /\ obj[a.s] \in Object
    BY DEF TypeOK, Allocation, RecordsSane, Records
  <2>3. obj[a.s].phase = "Gone"
    BY <2>1, <2>2 DEF Live, Object
  <2> QED  BY <2>1, <2>3 DEF GivenUp
<1> QED  BY <1>2, <1>3, <1>4, <1>5, <1>6

LEMMA UnderWayStep ==
    ASSUME TypeOK, ObjectsSane, AgentSane, RecordsSane, BootSane, AllocationUnderWay,
           AgentTurns, LedgerMoves, DiskMoves, \A s \in Slice : Moves(s)
    PROVE  AllocationUnderWay'
<1>1. CASE agent'.pc \notin GrantingSteps
  BY <1>1 DEF AllocationUnderWay, GrantingSteps
<1>2. CASE UNCHANGED agent /\ agent.pc \in GrantingSteps /\ (boot = "up" => boot' = "up")
  <2>1. boot' = "up" /\ agent.pc # "idle"
    BY <1>2 DEF AgentSane, GrantingSteps
  <2>2. agent.pc \in {"announce", "allocate"} =>
           \A a \in store' : a.s = agent.s => a \in byAlloc'
    BY <1>2, <2>1, Undisturbed DEF AllocationUnderWay
  <2>3. agent.pc \in {"cdi", "save", "ready"} => agent.n # 0 /\ bySlice'[agent.s] = agent.n
    BY <1>2, <2>1, Undisturbed DEF AllocationUnderWay, ledgerVars
  <2>4. agent.pc \in {"save", "ready"} => <<agent.s, agent.n>> \in cdi'
    BY <1>2, <2>1, Undisturbed DEF AllocationUnderWay
  <2>5. ASSUME agent.pc = "ready", NEW a \in byAlloc', a.s = agent.s
        PROVE  a \in store' \/ GivenUp(a.s)'
    <3>1. a \in byAlloc
      BY <1>2, <2>1, <2>5, Undisturbed DEF ledgerVars
    <3>2. a.s \in Slice /\ (a \in store \/ GivenUp(a.s))
      BY <2>5, <3>1 DEF AllocationUnderWay, TypeOK, LedgerTypeOK, Allocation
    <3>3. ASSUME NEW s \in Slice, GivenUp(s)
          PROVE  NowGivenUp(s)
      BY <3>3, GivenUpStays
    <3> QED  BY <1>2, <2>1, <3>2, <3>3, Undisturbed DEF GivenUp, NowGivenUp
  <2> QED  BY <1>2, <2>2, <2>3, <2>4, <2>5 DEF AllocationUnderWay
<1>3. CASE AgentGoesOn /\ AgentNext /\ boot' = "up" /\ agent'.pc \in GrantingSteps
  <2>1. agent'.s = agent.s /\ agent.pc \in GrantingSteps
    BY <1>3 DEF AgentGoesOn, AgentIdle, GrantingSteps, ReleasingSteps
  <2>2. CASE agent'.pc = "allocate" /\ agent.pc = "announce"
    BY <1>3, <2>1, <2>2, Undisturbed DEF AllocationUnderWay
  <2>3. CASE agent'.pc = "cdi" /\ agent'.n # 0 /\ bySlice'[agent.s] = agent'.n
    BY <2>1, <2>3 DEF AllocationUnderWay
  <2>4. CASE agent'.pc = "fail"
    BY <2>4 DEF AllocationUnderWay
  <2>5. CASE /\ agent'.pc = "save" /\ agent.pc = "cdi" /\ agent'.n = agent.n
             /\ cdi' = cdi \cup {<<agent.s, agent.n>>}
    BY <1>3, <2>1, <2>5, Undisturbed DEF AllocationUnderWay, ledgerVars
  <2>6. CASE /\ agent'.pc = "ready" /\ agent.pc = "save" /\ agent'.n = agent.n
             /\ store' = store \cup Numbered(agent.s, agent.n)
    <3>1. UNCHANGED ledgerVars /\ cdi \subseteq cdi'
      BY <1>3, <2>1, <2>6, Undisturbed
    <3>2. \A a \in byAlloc : a.s = agent.s => a \in store'
      BY <2>6 DEF RecordsSane, AllocationUnderWay, Numbered
    <3> QED  BY <2>1, <2>6, <3>1, <3>2 DEF AllocationUnderWay, ledgerVars
  <2> QED  BY <1>3, <2>2, <2>3, <2>4, <2>5, <2>6 DEF AgentNext
<1>4. ASSUME NEW s \in Slice, AgentReads(s), UNCHANGED <<ledgerVars, obj, cdi, store, boot>>
      PROVE  AllocationUnderWay'
  <2>1. SUFFICES ASSUME agent'.pc = "announce"
                 PROVE  AllocationUnderWay'
    BY <1>1, <1>4 DEF AgentReads, GrantingSteps
  <2>2. boot = "up" /\ agent'.s = s /\ ~GivenUp(s)
    BY <1>4, <2>1 DEF AgentReads, GivenUp, Unallocated
  <2> QED  BY <1>4, <2>1, <2>2 DEF AllocationUnderWay, BootSane, ledgerVars
<1>5. agent' = AgentIdle => agent'.pc \notin GrantingSteps
  BY DEF AgentIdle, GrantingSteps
<1> QED  BY <1>1, <1>2, <1>3, <1>4, <1>5 DEF AgentTurns

-----------------------------------------------------------------------------
(* The ledger, the grants and the cards.                                   *)

(* The slices with an allocation on a card. *)
SlicesOn(c) == {a.s : a \in {b \in byAlloc : b.card = c}}

LEMMA LedgerStep ==
    ASSUME TypeOK, RecordsSane, BootSane, LedgerExact, LedgerMoves
    PROVE  LedgerExact'
<1>1. LedgerTypeOK /\ \A c \in Card : committed[c] = Bytes[SlicesOn(c)]
  BY DEF TypeOK, LedgerExact, SlicesOn
<1>2. SUFFICES ASSUME NEW c \in Card
               PROVE  committed'[c] = Bytes[SlicesOn(c)']
  BY DEF LedgerExact, SlicesOn
<1>3. /\ \A b \in byAlloc : b.s \in Slice /\ b.card \in Card /\ b.n \in Nat
      /\ SlicesOn(c) \in SUBSET Slice
      /\ committed[c] = Bytes[SlicesOn(c)] /\ committed[c] \in Nat
  BY <1>1 DEF LedgerTypeOK, Allocation, SlicesOn
<1>4. /\ \A a, b \in byAlloc : a.s = b.s => a = b
      /\ \A a \in byAlloc : bySlice[a.s] = a.n
  BY DEF RecordsSane, Records
<1>5. CASE UNCHANGED ledgerVars
  BY <1>3, <1>5 DEF ledgerVars, SlicesOn
<1>6. ASSUME NEW a \in Allocation, Commit(a), \A b \in byAlloc : b.s # a.s
      PROVE  committed'[c] = Bytes[SlicesOn(c)']
  <2>1. a.s \in Slice /\ a.card \in Card /\ byAlloc' = byAlloc \cup {a}
    BY <1>1, <1>6, Committing DEF Allocation
  <2>2. CASE a.card = c
    <3>1. SlicesOn(c)' = SlicesOn(c) \cup {a.s} /\ a.s \notin SlicesOn(c)
      BY <1>6, <2>1, <2>2 DEF SlicesOn
    <3>2. committed'[c] = committed[c] + Req[a.s]
      BY <1>1, <1>6, <2>2, Committing
    <3> QED  BY <1>3, <2>1, <3>1, <3>2, BytesSums
  <2>3. CASE a.card # c
    <3>1. SlicesOn(c)' = SlicesOn(c)
      BY <2>1, <2>3 DEF SlicesOn
    <3> QED  BY <1>1, <1>3, <1>6, <2>3, <3>1, Committing
  <2> QED  BY <2>2, <2>3
<1>7. ASSUME NEW k \in Card, agent.pc = "allocate", bySlice[agent.s] = 0, Allocate(agent.s, k)
      PROVE  committed'[c] = Bytes[SlicesOn(c)']
  <2>1. agent.s \in Slice
    BY <1>7, AgentBusy DEF TypeOK, AgentType
  <2>2. PICK a \in Allocation : a.s = agent.s /\ Commit(a)
    BY <1>1, <1>7, <2>1, Allocating
  <2>3. \A b \in byAlloc : b.s # a.s
    BY <1>1, <1>4, <1>7, <2>2 DEF LedgerTypeOK, Allocation
  <2> QED  BY <1>6, <2>2, <2>3
<1>8. CASE Releases
  <2>1. agent.s \in Slice
    BY <1>8, AgentBusy DEF TypeOK, AgentType, Releases
  <2>2. PICK n \in Nat : Release(agent.s, n)
    BY <1>8 DEF Releases
  <2>3. SUFFICES ASSUME NEW a \in byAlloc, a.s = agent.s, byAlloc' = byAlloc \ {a},
                        Req[a.s] <= committed[a.card] =>
                           committed'[a.card] = committed[a.card] - Req[a.s],
                        \A d \in Card \ {a.card} : committed'[d] = committed[d]
                 PROVE  committed'[c] = Bytes[SlicesOn(c)']
    BY <1>1, <1>4, <1>5, <2>1, <2>2, Releasing
  <2>4. CASE a.card = c
    <3>1. SlicesOn(c)' = SlicesOn(c) \ {a.s} /\ a.s \in SlicesOn(c)
      BY <1>4, <2>3, <2>4 DEF SlicesOn
    <3>2. Bytes[SlicesOn(c) \ {a.s}] = committed[c] - Req[a.s]
      BY <1>3, <3>1, BytesSums, SMTT(30)
    <3>3. Bytes[SlicesOn(c) \ {a.s}] \in Nat /\ Req[a.s] \in Nat
      BY <1>3, BytesSums
    <3>4. Req[a.s] <= committed[c]
      BY <1>3, <3>2, <3>3
    <3> QED  BY <2>3, <2>4, <3>1, <3>2, <3>4
  <2>5. CASE a.card # c
    <3>1. SlicesOn(c)' = SlicesOn(c)
      BY <2>3, <2>5 DEF SlicesOn
    <3> QED  BY <1>3, <2>3, <2>5, <3>1
  <2> QED  BY <2>4, <2>5
<1>9. ASSUME NEW a \in todo, RestoreAllocation(a)
      PROVE  committed'[c] = Bytes[SlicesOn(c)']
  <2>1. a \in Allocation /\ a \in Records /\ byAlloc \subseteq Records
    BY DEF TypeOK, BootSane, Records
  <2>2. CASE Numbered(a.s, a.n) # {}
    BY <1>5, <1>9, <2>2 DEF RestoreAllocation, ledgerVars
  <2>3. CASE Numbered(a.s, a.n) = {}
    <3>1. \A b \in byAlloc : b.s # a.s
      BY <2>1, <2>3 DEF Numbered, RecordsSane
    <3> QED  BY <1>6, <1>9, <2>1, <2>3, <3>1 DEF RestoreAllocation
  <2> QED  BY <2>2, <2>3
<1>10. CASE committed' = [k \in Card |-> 0] /\ byAlloc' = {}
  <2>1. SlicesOn(c)' = {}
    BY <1>10 DEF SlicesOn
  <2> QED  BY <1>10, <2>1, BytesSums
<1> QED  BY <1>5, <1>7, <1>8, <1>9, <1>10 DEF LedgerMoves

LEMMA BackedStep ==
    ASSUME TypeOK, ObjectsSane, AgentSane, RecordsSane, BootSane, AllocationUnderWay,
           GrantBacked, AgentTurns, LedgerMoves, DiskMoves, BootMoves,
           \A s \in Slice : Moves(s)
    PROVE  GrantBacked'
<1>1. SUFFICES ASSUME NEW s \in Slice, Granted(s)'
               PROVE  /\ [s |-> s, n |-> obj'[s].n, card |-> obj'[s].card] \in store'
                      /\ <<s, obj'[s].n>> \in cdi'
                      /\ boot' = "up" =>
                            /\ [s |-> s, n |-> obj'[s].n, card |-> obj'[s].card] \in byAlloc'
                            /\ bySlice'[s] = obj'[s].n
  BY DEF GrantBacked
<1>2. LedgerTypeOK /\ store \subseteq Allocation /\ obj[s] \in Object
  BY DEF TypeOK
<1>3. CASE Granted(s) /\ Kept(s)
  <2> DEFINE a == [s |-> s, n |-> obj[s].n, card |-> obj[s].card]
  <2>1. /\ a \in store /\ <<s, obj[s].n>> \in cdi
        /\ boot = "up" => a \in byAlloc /\ bySlice[s] = obj[s].n
    BY <1>3 DEF GrantBacked
  <2>2. a.s = s /\ a.n = obj[s].n
    OBVIOUS
  <2>3. a.n # 0
    BY <1>2, <2>1 DEF Allocation
  <2>4. ~GivenUp(s) /\ Live(s)
    BY <1>3 DEF Granted, GivenUp, Live, Phase
  <2> HIDE DEF a
  <2>5. agent.pc \in ReleasingSteps => agent.s # s
    BY <2>4 DEF AgentSane
  <2>6. a \in store'
    BY <2>1, <2>2, <2>4, <2>5 DEF DiskMoves, ReleasingSteps
  <2>7. <<s, obj[s].n>> \in cdi'
    BY <2>1, <2>5 DEF DiskMoves, ReleasingSteps
  <2>8. ASSUME boot' = "up"
        PROVE  a \in byAlloc' /\ bySlice'[s] = obj[s].n
    <3>1. CASE boot = "up"
      <4>1. a \in byAlloc /\ bySlice[s] = a.n
        BY <2>1, <2>2, <3>1
      <4>2. CASE UNCHANGED ledgerVars
        BY <2>2, <4>1, <4>2 DEF ledgerVars
      <4>3. ASSUME NEW c \in Card, agent.pc = "allocate", bySlice[agent.s] = 0,
                   Allocate(agent.s, c)
            PROVE  a \in byAlloc' /\ bySlice'[s] = obj[s].n
        <5>1. agent.s # s /\ agent.s \in Slice
          BY <2>3, <4>1, <4>3, AgentBusy DEF TypeOK, AgentType
        <5>2. PICK b \in Allocation : b.s = agent.s /\ Commit(b)
          BY <1>2, <4>3, <5>1, Allocating
        <5> QED  BY <1>2, <2>2, <4>1, <5>1, <5>2, Committing
      <4>4. CASE Releases
        <5>1. agent.s # s /\ agent.s \in Slice
          BY <2>5, <4>4, AgentBusy DEF TypeOK, AgentType, Releases, ReleasingSteps
        <5>2. PICK n \in Nat : Release(agent.s, n)
          BY <4>4 DEF Releases
        <5>3. a \in byAlloc'
          BY <2>2, <4>1, <5>1, <5>2 DEF Release, Numbered
        <5>4. bySlice'[s] = bySlice[s]
          BY <1>2, <5>1, <5>2 DEF Release, LedgerTypeOK
        <5> QED  BY <2>2, <4>1, <5>3, <5>4
      <4> QED  BY <2>8, <3>1, <4>2, <4>3, <4>4 DEF LedgerMoves
    <3>2. CASE boot # "up"
      <4>1. boot = "restoring" /\ todo = {} /\ UNCHANGED ledgerVars
        BY <2>8, <3>2 DEF BootMoves
      <4>2. a \in byAlloc
        BY <2>1, <4>1 DEF BootSane
      <4>3. bySlice[s] = obj[s].n
        BY <2>2, <4>2 DEF RecordsSane
      <4> QED  BY <4>1, <4>2, <4>3 DEF ledgerVars
    <3> QED  BY <3>1, <3>2
  <2> QED  BY <1>3, <2>6, <2>7, <2>8 DEF Kept, a
<1>4. CASE AgentMoves(s) /\ agent.pc = "ready"
  <2>1. PICK a \in byAlloc : /\ a.s = s /\ a.n = agent.n
                             /\ obj'[s].n = a.n /\ obj'[s].card = a.card
    BY <1>4 DEF AgentMoves
  <2>2. /\ s = agent.s /\ ~GivenUp(s) /\ ~GivenUp(s)' /\ agent.pc \in GrantingSteps
        /\ boot = "up"
    BY <1>1, <1>4 DEF AgentMoves, GivenUp, Granted, Unallocated, GrantingSteps, AgentSane
  <2>3. a = [s |-> s, n |-> obj'[s].n, card |-> obj'[s].card]
    BY <1>2, <2>1 DEF LedgerTypeOK, Allocation
  <2>4. a \in store /\ <<s, a.n>> \in cdi /\ bySlice[s] = a.n
    BY <1>4, <2>1, <2>2 DEF AllocationUnderWay
  <2>5. a \in store' /\ <<s, a.n>> \in cdi'
    BY <1>4, <2>1, <2>2, <2>4 DEF DiskMoves, Live, Phase, AgentMoves, Unallocated
  <2>6. boot' = "up" => UNCHANGED ledgerVars
    BY <1>4, <2>2 DEF LedgerMoves, Releases
  <2> QED  BY <2>1, <2>3, <2>4, <2>5, <2>6 DEF ledgerVars
<1> QED  BY <1>1, <1>3, <1>4, GrantedByAgent

(* Only a new allocation entitles a slice, and the card has room for it beside *)
(* all those that the ledger or the disk has for slices not given up.         *)
LEMMA CardsStep ==
    ASSUME TypeOK, ObjectsSane, AgentSane, RecordsSane, BootSane, AllocationUnderWay,
           LedgerExact, CardsFit, LedgerMoves, DiskMoves, \A s \in Slice : Moves(s)
    PROVE  CardsFit'
<1>1. SUFFICES ASSUME NEW c \in Card
               PROVE  Bytes[Entitled(c)'] <= Total[c]
  BY DEF CardsFit
<1>2. /\ LedgerTypeOK /\ \A b \in Records : b.s \in Slice /\ b.card \in Card
      /\ Entitled(c) \in SUBSET Slice /\ SlicesOn(c) \in SUBSET Slice
      /\ Bytes[Entitled(c)] <= Total[c] /\ Total[c] \in Nat
      /\ committed[c] = Bytes[SlicesOn(c)] /\ committed[c] \in Nat
  <2>1. LedgerTypeOK /\ \A b \in Records : b.s \in Slice /\ b.card \in Card
    BY DEF TypeOK, LedgerTypeOK, Records, Allocation
  <2>2. Entitled(c) \in SUBSET Slice /\ SlicesOn(c) \in SUBSET Slice
    BY <2>1 DEF Records, Entitled, SlicesOn
  <2>3. committed[c] = Bytes[SlicesOn(c)] /\ committed[c] \in Nat
    BY <2>1 DEF LedgerExact, SlicesOn, LedgerTypeOK
  <2> QED  BY <2>1, <2>2, <2>3, CardAssumption DEF CardsFit
<1>3. \A b \in Records : ~GivenUp(b.s)' => ~GivenUp(b.s)
  <2>1. \A s \in Slice : GivenUp(s) => NowGivenUp(s)
    BY GivenUpStays
  <2> QED  BY <1>2, <2>1 DEF GivenUp, NowGivenUp
<1>4. Entitled(c)' = {b.s : b \in {d \in Records' : d.card = c /\ ~GivenUp(d.s)'}}
  BY DEF Entitled
<1>5. store' \subseteq Records
  BY RecordsMove
<1>6. CASE byAlloc' \subseteq Records
  <2>1. Entitled(c)' \subseteq Entitled(c)
    BY <1>3, <1>4, <1>5, <1>6 DEF Records, Entitled
  <2>2. Bytes[Entitled(c)'] <= Bytes[Entitled(c)]
    BY <1>2, <2>1, BytesSums
  <2>3. Bytes[Entitled(c)'] \in Nat /\ Bytes[Entitled(c)] \in Nat
    BY <1>2, <2>1, BytesSums
  <2> QED  BY <1>2, <2>2, <2>3
<1>7. ASSUME NEW a \in byAlloc', a \notin Records
      PROVE  Bytes[Entitled(c)'] <= Total[c]
  <2>1. /\ a \in Allocation /\ agent.pc = "allocate"
        /\ byAlloc' = byAlloc \cup {a} /\ UNCHANGED <<obj, store>>
        /\ Req[a.s] <= Available(a.card)
        /\ \A b \in Records : b.s # a.s
    BY <1>7, RecordsMove
  <2>2. Records' = Records \cup {a} /\ a.s \in Slice /\ boot = "up"
    BY <2>1 DEF Records, Allocation, AgentSane
  <2>3. CASE a.card # c
    <3>1. Entitled(c)' \subseteq Entitled(c)
      BY <1>3, <1>4, <2>2, <2>3 DEF Entitled
    <3>2. Bytes[Entitled(c)'] <= Bytes[Entitled(c)]
      BY <1>2, <3>1, BytesSums
    <3>3. Bytes[Entitled(c)'] \in Nat /\ Bytes[Entitled(c)] \in Nat
      BY <1>2, <3>1, BytesSums
    <3> QED  BY <1>2, <3>2, <3>3
  <2>4. CASE a.card = c
    <3>1. \A b \in Records : ~GivenUp(b.s) => b \in byAlloc
      BY <2>2 DEF BootSane, Records
    <3>2. Entitled(c)' \subseteq SlicesOn(c) \cup {a.s}
      BY <1>3, <1>4, <2>2, <3>1 DEF SlicesOn
    <3>3. a.s \notin SlicesOn(c)
      BY <2>1 DEF SlicesOn, Records
    <3>4. Bytes[SlicesOn(c) \cup {a.s}] = committed[c] + Req[a.s]
      BY <1>2, <2>2, <3>3, BytesSums
    <3>5. Req[a.s] \in Nat /\ Req[a.s] > 0
      BY <2>2, BytesSums
    <3>6. committed[c] + Req[a.s] <= Total[c]
      BY <1>2, <2>1, <2>4, <3>5 DEF Available
    <3>7. SlicesOn(c) \cup {a.s} \in SUBSET Slice
      BY <1>2, <2>2
    <3>8. Bytes[Entitled(c)'] <= Bytes[SlicesOn(c) \cup {a.s}] /\ Bytes[Entitled(c)'] \in Nat
      BY <3>2, <3>7, BytesSums
    <3> QED  BY <1>2, <3>4, <3>5, <3>6, <3>8
  <2> QED  BY <2>3, <2>4
<1> QED  BY <1>6, <1>7

-----------------------------------------------------------------------------
(* The theorems.                                                           *)

LEMMA SliceInit ==
    ASSUME Init
    PROVE  SliceInv
<1>1. TypeOK
  BY TypeInit
<1>2. /\ \A s \in Slice : obj[s] = Absent
      /\ byAlloc = {} /\ store = {} /\ todo = {} /\ halfBound = {} /\ boot = "up"
      /\ agent = AgentIdle /\ ctl = CtlIdle /\ \A c \in Card : committed[c] = 0
      /\ \A s \in Slice : bySlice[s] = 0
      /\ drift.left = {}
  BY DEF Init, NewAllocator
<1>3. Absent.phase = "Absent" /\ Absent.n = 0
  BY DEF Absent, NewObject
<1>4. AgentIdle.pc = "idle" /\ CtlIdle.pc = "idle"
  BY DEF AgentIdle, CtlIdle
<1>5. ObjectsSane /\ GrantBacked
  BY <1>2, <1>3 DEF ObjectsSane, GrantBacked, Granted
<1>6. CtlSane /\ AgentSane /\ AllocationUnderWay
  BY <1>2, <1>4 DEF CtlSane, AgentSane, AllocationUnderWay, GrantingSteps, ReleasingSteps
<1>7. RecordsSane /\ BootSane
  BY <1>2 DEF RecordsSane, BootSane, Records
<1>8. \A c \in Card : /\ {a.s : a \in {b \in byAlloc : b.card = c}} = {}
                      /\ Entitled(c) = {}
  BY <1>2 DEF Entitled, Records
<1>9. LedgerExact /\ CardsFit
  BY <1>2, <1>8, BytesSums, CardAssumption DEF LedgerExact, CardsFit
<1> QED  BY <1>1, <1>5, <1>6, <1>7, <1>9 DEF SliceInv

LEMMA SliceStep ==
    ASSUME SliceInv, "unreadable" \notin Faults, [Next]_vars
    PROVE  SliceInv'
<1>1. /\ TypeOK /\ ObjectsSane /\ CtlSane /\ AgentSane /\ RecordsSane /\ BootSane
      /\ AllocationUnderWay /\ LedgerExact /\ GrantBacked /\ CardsFit
  BY DEF SliceInv
<1>2. (\A s \in Slice : Moves(s)) /\ AgentTurns /\ LedgerMoves /\ DiskMoves /\ BootMoves
  BY <1>1, ObjectMoves, AgentTurning, LedgerMoving, DiskMoving, BootMoving
<1>3. TypeOK' /\ ObjectsSane' /\ CtlSane' /\ AgentSane'
  BY <1>1, <1>2, TypeStep, ObjectsStep, CtlStays, AgentStays
<1>4. RecordsSane' /\ BootSane' /\ AllocationUnderWay'
  BY <1>1, <1>2, RecordsStep, BootStep, UnderWayStep
<1>5. LedgerExact' /\ GrantBacked' /\ CardsFit'
  BY <1>1, <1>2, LedgerStep, BackedStep, CardsStep
<1> QED  BY <1>3, <1>4, <1>5 DEF SliceInv

(* Every state is well typed, whatever goes wrong. *)
THEOREM SliceTypeCorrect == Spec => []TypeOK
<1>1. Init => TypeOK
  BY TypeInit
<1>2. TypeOK /\ [Next]_vars => TypeOK'
  BY TypeStep
<1> QED  BY <1>1, <1>2, PTL DEF Spec

(* What is known of every state if the agent can read its checkpoint file at  *)
(* each start.                                                               *)
THEOREM SliceInvariant ==
    ASSUME "unreadable" \notin Faults
    PROVE  Spec => []SliceInv
<1>1. Init => SliceInv
  BY SliceInit
<1>2. SliceInv /\ [Next]_vars => SliceInv'
  BY SliceStep
<1> QED  BY <1>1, <1>2, PTL DEF Spec

(* The allocator's counters are the sums of its records. *)
THEOREM LedgerIsExact ==
    ASSUME "unreadable" \notin Faults
    PROVE  Spec => []LedgerExact
<1>1. SliceInv => LedgerExact
  BY DEF SliceInv
<1> QED  BY <1>1, SliceInvariant, PTL

(* A granted slice has its allocation in the ledger, on disk and in its CDI   *)
(* file, whatever crash, refused write or sick card came between.            *)
THEOREM GrantsAreBacked ==
    ASSUME "unreadable" \notin Faults
    PROVE  Spec => []GrantBacked
<1>1. SliceInv => GrantBacked
  BY DEF SliceInv
<1> QED  BY <1>1, SliceInvariant, PTL

-----------------------------------------------------------------------------
(* The promise.                                                            *)

(* A step writes one object at most. *)
LEMMA OneObject ==
    ASSUME TypeOK, [Next]_vars
    PROVE  UNCHANGED obj \/ \E s \in Slice : \A t \in Slice \ {s} : obj'[t] = obj[t]
<1>1. obj \in [Slice -> Object]
  BY DEF TypeOK
<1>2. CASE AgentStep
  <2>1. agent.s \in Slice
    BY <1>2, AgentIsBusy
  <2>2. UNCHANGED obj \/ \E new : obj' = [obj EXCEPT ![agent.s] = new]
    BY <1>2 DEF AgentStep, TransitionToAllocating, AllocateCard, GenerateFirewall,
       SaveCheckpoint, ReportAllocationReady, ReportAllocationFailed, RecoverWedged,
       TeardownFirewall, ReleaseCard, DeleteCheckpoint, ReportReleaseComplete, Update, Refused
  <2> QED  BY <1>1, <2>1, <2>2
<1>3. CASE CtlStep
  <2>1. ctl.s \in Slice
    <3>1. ctl.pc # "idle"
      BY <1>3 DEF CtlStep, ExpirePreemption, PatchReleasing, RemoveFinalizer, EnsureFinalizer
    <3> QED  BY <3>1, CtlBusy DEF TypeOK, CtlType
  <2>2. UNCHANGED obj \/ \E new : obj' = [obj EXCEPT ![ctl.s] = new]
    BY <1>3 DEF CtlStep, ExpirePreemption, PatchReleasing, RemoveFinalizer, EnsureFinalizer,
       Update, Refused, Patch, NotPatched
  <2> QED  BY <1>1, <2>1, <2>2
<1>4. CASE Environment
  <2>1. PICK s \in Slice : \/ CreateSlice(s) \/ BindNode(s) \/ BindPhase(s) \/ FailOrphan(s)
                           \/ Preempt(s) \/ RollBackPreemption(s) \/ DeleteSlice(s)
    BY <1>4 DEF Environment
  <2>2. UNCHANGED obj \/ \E new : obj' = [obj EXCEPT ![s] = new]
    BY <2>1 DEF CreateSlice, BindNode, BindPhase, FailOrphan, Preempt, RollBackPreemption,
       DeleteSlice
  <2> QED  BY <1>1, <2>2
<1>5. CASE UNCHANGED obj
  BY <1>5
<1> QED  BY <1>2, <1>3, <1>4, <1>5 DEF Next, vars, AgentRead, CtlRead, Boot, Start, Restore,
     LoadDrift, HealDrift, Crash, CorruptCheckpoint

GrantsKnown ==
    \A s \in Slice :
        /\ GivenUp(s) <=> GrantOf(s) = "ended"
        /\ Granted(s) => GrantOf(s) = obj[s].card /\ GrantOf(s) \in Card
        /\ ~Granted(s) => GrantOf(s) \in {"waiting", "ended"}

LEMMA GrantValues == TypeOK /\ GrantBacked => GrantsKnown
<1> SUFFICES ASSUME TypeOK, GrantBacked, NEW s \in Slice
             PROVE  /\ GivenUp(s) <=> GrantOf(s) = "ended"
                    /\ Granted(s) => GrantOf(s) = obj[s].card /\ GrantOf(s) \in Card
                    /\ ~Granted(s) => GrantOf(s) \in {"waiting", "ended"}
  BY DEF GrantsKnown
<1>1. obj[s].phase \in Phase \cup {"Absent", "Gone"}
  BY DEF TypeOK, Object
<1>2. Granted(s) => obj[s].card \in Card
  <2>1. SUFFICES ASSUME Granted(s)
                 PROVE  obj[s].card \in Card
    OBVIOUS
  <2>2. [s |-> s, n |-> obj[s].n, card |-> obj[s].card] \in Allocation
    BY <2>1 DEF TypeOK, GrantBacked
  <2> QED  BY <2>2 DEF Allocation
<1>3. "ended" \notin Card
  BY LifecycleAssumption
<1>4. Granted(s) => ~GivenUp(s)
  BY DEF Granted, GivenUp
<1>5. CASE Granted(s)
  BY <1>2, <1>3, <1>4, <1>5 DEF GrantOf
<1>6. CASE ~Granted(s)
  <2>1. GivenUp(s) <=> \/ obj[s].deleting
                       \/ obj[s].phase \notin {"Absent", "Pending", "Scheduled", "Allocating"}
    BY <1>1, <1>6 DEF GivenUp, Granted, Phase
  <2> QED  BY <1>6, <2>1 DEF GrantOf
<1> QED  BY <1>5, <1>6

LEMMA GrantValuesAfter == TypeOK' /\ GrantBacked' => GrantsKnown'
  BY GrantValues, PTL

(* A grant lasts until the slice is given up. *)
LEMMA GrantLasts ==
    ASSUME TypeOK, ObjectsSane, NEW s \in Slice, Moves(s), Granted(s)
    PROVE  Granted(s)' \/ GivenUp(s)'
<1>1. CASE obj'[s] = obj[s]
  BY <1>1 DEF Granted
<1>2. CASE OthersMove(s)
  <2>1. /\ obj[s] # Absent
        /\ s \notin halfBound
    BY DEF Granted, ObjectsSane, Absent, NewObject
  <2> QED  BY <1>2, <2>1 DEF OthersMove, Follows, Granted, GivenUp
<1>3. CASE AgentMoves(s)
  BY <1>3 DEF AgentMoves, Granted, GivenUp, Unallocated
<1> QED  BY <1>1, <1>2, <1>3 DEF Moves

(* What a step makes of one slice: nothing, its end, or its card, on which it *)
(* fits beside the others.                                                   *)
LEMMA GrantMoves ==
    ASSUME SliceInv, SliceInv', \A t \in Slice : Moves(t), NEW s \in Slice
    PROVE  \/ GrantOf(s)' = GrantOf(s)
           \/ GrantOf(s) # "ended" /\ GrantOf(s)' = "ended"
           \/ /\ GrantOf(s) = "waiting" /\ GrantOf(s)' \in Card
              /\ Bytes[{t \in Slice : GrantOf(t) = GrantOf(s)'} \cup {s}] <= Total[GrantOf(s)']
<1>1. /\ TypeOK /\ ObjectsSane /\ GrantBacked /\ TypeOK' /\ GrantBacked' /\ AgentSane
      /\ RecordsSane /\ CardsFit
  BY DEF SliceInv
<1>2. GivenUp(s) => GivenUp(s)'
  BY <1>1, GivenUpStays
<1>3. /\ GivenUp(s) <=> GrantOf(s) = "ended"
      /\ Granted(s) => GrantOf(s) = obj[s].card
      /\ ~Granted(s) => GrantOf(s) \in {"waiting", "ended"}
  BY <1>1, GrantValues DEF GrantsKnown
<1>4. /\ GivenUp(s)' <=> GrantOf(s)' = "ended"
      /\ Granted(s)' => GrantOf(s)' = obj'[s].card /\ GrantOf(s)' \in Card
      /\ ~Granted(s)' => GrantOf(s)' \in {"waiting", "ended"}
  BY <1>1, GrantValuesAfter DEF GrantsKnown
<1>5. CASE GivenUp(s)'
  BY <1>3, <1>4, <1>5
<1>6. CASE ~GivenUp(s)' /\ ~Granted(s)'
  <2>1. ~Granted(s)
    BY <1>1, <1>6, GrantLasts
  <2> QED  BY <1>2, <1>3, <1>4, <1>6, <2>1
<1>7. CASE ~GivenUp(s)' /\ Granted(s)'
  <2>1. CASE Granted(s) /\ Kept(s)
    BY <1>3, <1>4, <1>7, <2>1 DEF Kept
  <2>2. CASE AgentMoves(s) /\ agent.pc = "ready"
    <3>1. PICK a \in byAlloc : a.s = s /\ obj'[s].card = a.card
      BY <2>2 DEF AgentMoves
    <3>2. ~Granted(s) /\ ~GivenUp(s)
      BY <2>2 DEF AgentMoves, Granted, GivenUp, Unallocated
    <3> DEFINE c == GrantOf(s)'
               S == {t \in Slice : GrantOf(t) = c} \cup {s}
    <3>3. c \in Card /\ c = a.card
      BY <1>4, <1>7, <3>1
    <3>4. s \in Entitled(c)
      BY <3>1, <3>2, <3>3 DEF Entitled, Records
    <3>5. ASSUME NEW t \in Slice, GrantOf(t) = c
          PROVE  t \in Entitled(c)
      <4>1. Granted(t) /\ obj[t].card = c /\ ~GivenUp(t)
        BY <1>1, <3>3, <3>5, GrantValues, LifecycleAssumption DEF GrantsKnown
      <4> DEFINE b == [s |-> t, n |-> obj[t].n, card |-> obj[t].card]
      <4>2. b \in Records /\ b.s = t /\ b.card = c
        BY <1>1, <4>1 DEF GrantBacked, Records
      <4> HIDE DEF b, c
      <4> QED  BY <4>1, <4>2 DEF Entitled
    <3>6. Entitled(c) \in SUBSET Slice
      <4>1. \A b \in Records : b.s \in Slice
        BY <1>1 DEF TypeOK, LedgerTypeOK, Records, Allocation
      <4> QED  BY <4>1 DEF Entitled
    <3>7. S \subseteq Entitled(c)
      BY <3>4, <3>5
    <3>8. Bytes[S] <= Bytes[Entitled(c)] /\ Bytes[S] \in Nat /\ Bytes[Entitled(c)] \in Nat
      BY <3>6, <3>7, BytesSums
    <3>9. Bytes[Entitled(c)] <= Total[c] /\ Total[c] \in Nat
      BY <1>1, <3>3, CardAssumption DEF CardsFit
    <3>10. Bytes[S] <= Total[c]
      BY <3>8, <3>9
    <3> QED  BY <1>3, <3>2, <3>3, <3>10
  <2> QED  BY <1>1, <1>7, <2>1, <2>2, GrantedByAgent
<1> QED  BY <1>5, <1>6, <1>7

LEMMA PromiseInit ==
    ASSUME Init
    PROVE  Promise!Init
<1>1. \A s \in Slice : obj[s].phase = "Absent" /\ ~obj[s].deleting
  BY DEF Init, Absent, NewObject
<1> QED  BY <1>1 DEF Promise!Init, grants, GrantOf, Granted

LEMMA PromiseStep ==
    ASSUME SliceInv, SliceInv', [Next]_vars
    PROVE  Promise!Next \/ grants' = grants
<1>1. TypeOK /\ \A s \in Slice : Moves(s)
  BY ObjectMoves DEF SliceInv
<1>2. CASE UNCHANGED obj
  BY <1>2 DEF grants, GrantOf, Granted
<1>3. ASSUME NEW s \in Slice, \A t \in Slice \ {s} : obj'[t] = obj[t]
      PROVE  Promise!Next \/ grants' = grants
  <2>1. \A t \in Slice \ {s} : GrantOf(t)' = GrantOf(t)
    BY <1>3 DEF GrantOf, Granted
  <2>2. grants' = [grants EXCEPT ![s] = GrantOf(s)']
    BY <2>1 DEF grants
  <2>3. CASE GrantOf(s)' = GrantOf(s)
    BY <2>1, <2>3 DEF grants
  <2>4. CASE GrantOf(s) # "ended" /\ GrantOf(s)' = "ended"
    <3>1. grants[s] # "ended" /\ grants' = [grants EXCEPT ![s] = "ended"]
      BY <2>2, <2>4 DEF grants
    <3>2. Promise!End(s)
      BY <3>1 DEF Promise!End, grants, GrantOf
    <3> QED  BY <3>2 DEF Promise!Next
  <2>5. CASE /\ GrantOf(s) = "waiting" /\ GrantOf(s)' \in Card
             /\ Bytes[{t \in Slice : GrantOf(t) = GrantOf(s)'} \cup {s}] <= Total[GrantOf(s)']
    <3>1. PICK c \in Card : c = GrantOf(s)'
      BY <2>5
    <3>2. /\ grants[s] = "waiting" /\ grants' = [grants EXCEPT ![s] = c]
          /\ Bytes[{t \in Slice : grants[t] = c} \cup {s}] <= Total[c]
      <4>1. {t \in Slice : GrantOf(t) = c} = {t \in Slice : grants[t] = c}
        BY DEF grants
      <4> QED  BY <2>2, <2>5, <3>1, <4>1 DEF grants
    <3>3. Promise!Grant(s, c)
      BY <3>2 DEF Promise!Grant, Promise!GrantedOn, grants, GrantOf
    <3> QED  BY <3>3 DEF Promise!Next
  <2> QED  BY <1>1, <2>3, <2>4, <2>5, GrantMoves
<1> QED  BY <1>1, <1>2, <1>3, OneObject

(* The slices and their agent implement the promise of CardGrants: retries,    *)
(* conflicts, failed writes and the death of the agent neither move a slice to *)
(* another card nor promise a card beyond what it has.                       *)
THEOREM PromiseKept ==
    ASSUME "unreadable" \notin Faults
    PROVE  Spec => KeepsPromise
<1>1. Init => Promise!Init
  BY PromiseInit
<1>2. SliceInv /\ SliceInv' /\ [Next]_vars =>
         [Promise!Next]_grants
  BY PromiseStep
<1> QED  BY <1>1, <1>2, SliceInvariant, PTL DEF Spec, KeepsPromise, Promise!Spec

-----------------------------------------------------------------------------
(* What a release leaves behind.                                           *)

(* The steps of a release that no write to the disk cuts short. *)
ReleaseNext ==
    /\ agent'.s = agent.s /\ agent'.copy = agent.copy
    /\ \/ /\ agent.pc = "recover" /\ agent'.pc = "teardown"
          /\ bySlice[agent.s] # 0 /\ agent'.n = bySlice[agent.s]
          /\ Release(agent.s, bySlice[agent.s]) /\ UNCHANGED store
       \/ /\ agent.pc = "recover" /\ agent'.pc = "report"
          /\ bySlice[agent.s] = 0 /\ UNCHANGED <<ledgerVars, store>>
       \/ /\ agent.pc = "teardown" /\ agent'.n = agent.n
          /\ agent'.pc = IF agent.copy.n # 0 THEN "release" ELSE "delete"
          /\ UNCHANGED <<ledgerVars, store>>
       \/ /\ agent.pc = "release" /\ agent'.pc = "delete" /\ agent'.n = agent.n
          /\ Release(agent.s, agent.n) /\ UNCHANGED store
       \/ /\ agent.pc = "delete" /\ agent'.pc = "report" /\ UNCHANGED ledgerVars
          /\ store' = {a \in store : ~(a.s = agent.s /\ a.n = agent.n)}

ReleaseTurns ==
    \/ UNCHANGED agent
    \/ boot' # "up"
    \/ /\ agent'.pc \notin ReleasingSteps
       /\ agent.pc \notin {"recover", "teardown", "release", "delete"}
    \/ ReleaseNext
    \/ \E s \in Slice : /\ AgentReads(s) /\ agent.pc = "idle"
                        /\ UNCHANGED <<ledgerVars, obj, store, boot>>

LEMMA ReleaseTurning ==
    ASSUME TypeOK, "unreadable" \notin Faults, "diskError" \notin Faults, [Next]_vars
    PROVE  ReleaseTurns
<1>1. CASE AgentStep
  <2>1. agent \in [pc : AgentSteps, s : Slice, copy : Object, n : Nat]
    BY <1>1, AgentIsBusy
  <2>2. ~Fails("diskError") /\ ~StoreFails
    BY DEF Fails, StoreFails, TypeOK
  <2>3. CASE agent.pc \notin {"recover", "teardown", "release", "delete"}
    <3>1. agent.pc \in GrantingSteps \/ agent.pc = "report"
      BY <2>1, <2>3 DEF AgentSteps, GrantingSteps
    <3>2. agent.pc = "report" => agent' = AgentIdle
      BY <1>1 DEF AgentStep, Agent, TransitionToAllocating, AllocateCard, GenerateFirewall,
         SaveCheckpoint, ReportAllocationReady, ReportAllocationFailed, RecoverWedged,
         TeardownFirewall, ReleaseCard, DeleteCheckpoint, ReportReleaseComplete, AgentStops
    <3>3. agent'.pc \notin ReleasingSteps
      BY <1>1, <3>1, <3>2, AgentMovesOn DEF AgentGoesOn, AgentIdle, GrantingSteps, ReleasingSteps
    <3> QED  BY <2>3, <3>3 DEF ReleaseTurns
  <2>4. CASE RecoverWedged
    <3>1. agent.pc = "recover" /\ UNCHANGED store
      BY <2>4 DEF RecoverWedged, Agent, diskVars
    <3>2. CASE bySlice[agent.s] = 0 /\ agent' = [agent EXCEPT !.pc = "report"]
               /\ UNCHANGED ledgerVars
      BY <2>1, <3>1, <3>2, AgentFields DEF ReleaseNext, ReleaseTurns
    <3>3. CASE bySlice[agent.s] # 0 /\ Release(agent.s, bySlice[agent.s])
               /\ agent' = [agent EXCEPT !.pc = "teardown", !.n = bySlice[agent.s]]
      BY <2>1, <3>1, <3>3, AgentFields DEF ReleaseNext, ReleaseTurns
    <3> QED  BY <2>4, <3>2, <3>3 DEF RecoverWedged, AgentGoes
  <2>5. CASE TeardownFirewall
    <3>1. agent.pc = "teardown" /\ UNCHANGED <<ledgerVars, store>>
      BY <2>5 DEF TeardownFirewall, Agent
    <3>2. agent' = [agent EXCEPT !.pc = IF agent.copy.n # 0 THEN "release" ELSE "delete"]
      BY <2>2, <2>5 DEF TeardownFirewall, AgentGoes
    <3> QED  BY <2>1, <3>1, <3>2, AgentFields DEF ReleaseNext, ReleaseTurns
  <2>6. CASE ReleaseCard
    <3>1. /\ agent.pc = "release" /\ Release(agent.s, agent.n) /\ UNCHANGED store
          /\ agent' = [agent EXCEPT !.pc = "delete"]
      BY <2>6 DEF ReleaseCard, Agent, AgentGoes, diskVars
    <3> QED  BY <2>1, <3>1, AgentFields DEF ReleaseNext, ReleaseTurns
  <2>7. CASE DeleteCheckpoint
    <3>1. /\ agent.pc = "delete" /\ UNCHANGED ledgerVars
          /\ store' = {a \in store : ~(a.s = agent.s /\ a.n = agent.n)}
          /\ agent' = [agent EXCEPT !.pc = "report"]
      BY <2>2, <2>7 DEF DeleteCheckpoint, Agent, AgentGoes
    <3> QED  BY <2>1, <3>1, AgentFields DEF ReleaseNext, ReleaseTurns
  <2> QED  BY <1>1, <2>3, <2>4, <2>5, <2>6, <2>7 DEF AgentStep, Agent, TransitionToAllocating,
           AllocateCard, GenerateFirewall, SaveCheckpoint, ReportAllocationReady,
           ReportAllocationFailed, ReportReleaseComplete
<1>2. ASSUME NEW s \in Slice, AgentRead(s)
      PROVE  ReleaseTurns
  <2>1. agent.pc = "idle" /\ UNCHANGED <<ledgerVars, obj, store, boot>>
    BY <1>2 DEF AgentRead, Agent, AgentFrame, diskVars, bootVars
  <2> QED  BY <1>2, <2>1, AgentReading DEF ReleaseTurns
<1>3. CASE Crash
  BY <1>3 DEF Crash, ReleaseTurns
<1>4. CASE \/ UNCHANGED vars \/ CtlStep \/ (\E s \in Slice : CtlRead(s)) \/ Environment
           \/ Boot \/ (\E a \in drift.left : HealDrift(a)) \/ CorruptCheckpoint
  <2>1. UNCHANGED agent
    BY <1>4 DEF vars, CtlStep, ExpirePreemption, PatchReleasing, RemoveFinalizer,
       EnsureFinalizer, CtlRead, CtlFrame, Environment, Others, CreateSlice, BindNode,
       BindPhase, FailOrphan, Preempt, RollBackPreemption, DeleteSlice, Boot, Start, Restore,
       LoadDrift, HealDrift, CorruptCheckpoint
  <2> QED  BY <2>1 DEF ReleaseTurns
<1> QED  BY <1>1, <1>2, <1>3, <1>4 DEF Next

(* While the worker does not allocate, no record is added. *)
LEMMA NoNewRecords ==
    ASSUME SliceInv, LedgerMoves, DiskMoves, agent.pc # "allocate"
    PROVE  Records' \subseteq Records
  BY RecordsMove DEF SliceInv, Records

(* A slice of which the status shows an allocation has no other record. *)
LEMMA StatusNamesRecord ==
    ASSUME SliceInv, CleanInv, LedgerMoves, DiskMoves, NEW s \in Slice, Moves(s)
    PROVE  /\ obj'[s].n # 0 => \A a \in Records' : a.s = s => a.n = obj'[s].n
           /\ obj'[s].phase = "Released" => \A a \in Records' : a.s # s
<1>1. /\ TypeOK /\ ObjectsSane /\ AgentSane /\ RecordsSane /\ BootSane /\ AllocationUnderWay
  BY DEF SliceInv
<1>2. /\ obj[s].n # 0 => \A a \in Records : a.s = s => a.n = obj[s].n
      /\ obj[s].phase = "Released" => \A a \in Records : a.s # s
      /\ agent.pc = "report" => \A a \in Records : a.s # agent.s
  BY DEF CleanInv, ReleaseUnderWay, ReleasedClean, Records
<1>3. CASE Records' \subseteq Records
  <2>1. ASSUME obj'[s].n # 0, NEW a \in Records', a.s = s
        PROVE  a.n = obj'[s].n
    <3>1. CASE Kept(s)
      BY <1>2, <1>3, <2>1, <3>1 DEF Kept
    <3>2. CASE AgentMoves(s) /\ agent.pc = "ready"
      <4>1. PICK b \in byAlloc : b.s = s /\ obj'[s].n = b.n
        BY <3>2 DEF AgentMoves
      <4> QED  BY <1>1, <1>3, <2>1, <4>1 DEF RecordsSane, Records
    <3> QED  BY <1>1, <2>1, <3>1, <3>2, GrantedByAgent
  <2>2. obj'[s].phase = "Released" => \A a \in Records' : a.s # s
    BY <1>1, <1>2, <1>3, GrantedByAgent
  <2> QED  BY <2>1, <2>2
<1>4. ASSUME NEW a \in byAlloc', a \notin Records
      PROVE  /\ obj'[s].n # 0 => \A b \in Records' : b.s = s => b.n = obj'[s].n
             /\ obj'[s].phase = "Released" => \A b \in Records' : b.s # s
  <2>1. /\ a.s = agent.s /\ agent.pc = "allocate" /\ byAlloc' = byAlloc \cup {a}
        /\ UNCHANGED <<obj, store>>
    BY <1>1, <1>4, RecordsMove
  <2>2. Records' = Records \cup {a}
    BY <2>1 DEF Records
  <2>3. s = agent.s => obj'[s].n = 0 /\ obj'[s].phase # "Released"
    BY <1>1, <2>1 DEF AgentSane, GrantingSteps
  <2> QED  BY <1>2, <2>1, <2>2, <2>3
<1>5. Records' \subseteq Records \/ \E a \in byAlloc' : a \notin Records
  BY <1>1, RecordsMove DEF Records
<1> QED  BY <1>3, <1>4, <1>5

(* A release leaves no record of the slice in the ledger. *)
LEMMA ReleasedFromCard ==
    ASSUME SliceInv, NEW s \in Slice, NEW n \in Nat, Release(s, n),
           \A a \in byAlloc : a.s = s => a.n = n
    PROVE  \A a \in byAlloc' : a \in byAlloc /\ a.s # s
<1>1. CASE Numbered(s, n) = {} /\ UNCHANGED byAlloc
  BY <1>1 DEF Numbered
<1>2. ASSUME NEW a \in Numbered(s, n), byAlloc' = byAlloc \ {a}
      PROVE  \A b \in byAlloc' : b \in byAlloc /\ b.s # s
  BY <1>2 DEF Numbered, SliceInv, RecordsSane, Records
<1> QED  BY <1>1, <1>2 DEF Release

LEMMA CleanStep ==
    ASSUME SliceInv, SliceInv', CleanInv, ReleaseTurns, LedgerMoves, DiskMoves, BootMoves,
           \A s \in Slice : Moves(s)
    PROVE  CleanInv'
<1>1. ReleasedClean' /\ \A s \in Slice : obj'[s].n # 0 =>
                           \A a \in Records' : a.s = s => a.n = obj'[s].n
  BY StatusNamesRecord DEF ReleasedClean, Records
<1>2. /\ boot = "up" => \A a \in store : a \in byAlloc \/ (a.s = agent.s /\ CardReleased)
      /\ agent.pc = "recover" => agent.copy.n = 0
      /\ agent.pc \in {"teardown", "release", "delete"} =>
            \A a \in Records : a.s = agent.s => a.n = agent.n
      /\ CardReleased => \A a \in byAlloc : a.s # agent.s
      /\ agent.pc = "report" => \A a \in Records : a.s # agent.s
      /\ \A s \in Slice : obj[s].n # 0 => \A a \in Records : a.s = s => a.n = obj[s].n
  BY DEF CleanInv, ReleaseUnderWay
<1>3. /\ TypeOK /\ AgentSane /\ RecordsSane /\ BootSane /\ AllocationUnderWay
      /\ byAlloc \subseteq Records /\ store \subseteq Records
      /\ \A a \in Records : a.s \in Slice
      /\ boot' # "up" => agent' = AgentIdle
      /\ agent.pc # "idle" => agent.s \in Slice /\ agent.n \in Nat /\ boot = "up"
  <2>1. agent.pc # "idle" => agent.s \in Slice /\ agent.n \in Nat /\ boot = "up"
    BY AgentBusy DEF SliceInv, TypeOK, AgentType, AgentSane
  <2>2. \A a \in Records : a.s \in Slice
    BY DEF SliceInv, TypeOK, LedgerTypeOK, Records, Allocation
  <2> QED  BY <2>1, <2>2 DEF SliceInv, BootSane, Records
<1>4. AgentIdle.pc = "idle"
  BY DEF AgentIdle
<1>5. SUFFICES
        /\ boot' = "up" => \A a \in store' : a \in byAlloc' \/ (a.s = agent'.s /\ CardReleased')
        /\ agent'.pc = "recover" => agent'.copy.n = 0
        /\ agent'.pc \in {"teardown", "release", "delete"} =>
              \A a \in Records' : a.s = agent'.s => a.n = agent'.n
        /\ CardReleased' => \A a \in byAlloc' : a.s # agent'.s
        /\ agent'.pc = "report" => \A a \in Records' : a.s # agent'.s
  BY <1>1 DEF CleanInv, ReleaseUnderWay
<1>6. CASE boot' # "up"
  BY <1>3, <1>4, <1>6 DEF CardReleased
<1>7. CASE boot' = "up" /\ boot # "up"
  <2>1. UNCHANGED <<ledgerVars, store, agent>> /\ store \subseteq byAlloc /\ agent.pc = "idle"
    BY <1>3, <1>4, <1>7 DEF BootMoves, BootSane
  <2> QED  BY <2>1 DEF ledgerVars, CardReleased
(* Nothing that is on disk leaves the ledger but by a release. *)
<1>8. ASSUME boot = "up", boot' = "up", ~Releases, NEW a \in store', a \notin byAlloc'
      PROVE  a.s = agent.s /\ CardReleased /\ a \in store
  <2>1. byAlloc \subseteq byAlloc'
    BY <1>8 DEF LedgerMoves, ledgerVars, Allocate, Commit
  <2>2. a \in store \/ a \in byAlloc
    BY <1>8 DEF DiskMoves, Numbered
  <2> QED  BY <1>2, <1>8, <2>1, <2>2
<1>9. CASE boot = "up" /\ boot' = "up" /\ UNCHANGED agent
  <2>1. ~Releases
    BY <1>9 DEF Releases
  <2>2. \A a \in store' : a \in byAlloc' \/ (a.s = agent'.s /\ CardReleased')
    BY <1>8, <1>9, <2>1 DEF CardReleased
  <2>3. agent.pc # "allocate" => Records' \subseteq Records
    BY NoNewRecords
  <2>4. CardReleased => byAlloc' \subseteq byAlloc
    BY <1>9, <2>1 DEF CardReleased, LedgerMoves, ledgerVars
  <2> QED  BY <1>2, <1>9, <2>2, <2>3, <2>4 DEF CardReleased
<1>10. CASE /\ boot = "up" /\ boot' = "up" /\ agent'.pc \notin ReleasingSteps
            /\ agent.pc \notin {"recover", "teardown", "release", "delete"}
  <2>1. ~Releases /\ ~CardReleased /\ ~CardReleased'
    BY <1>10 DEF Releases, CardReleased, ReleasingSteps
  <2>2. agent'.pc \notin {"recover", "teardown", "release", "delete", "report"}
    BY <1>10 DEF ReleasingSteps
  <2> QED  BY <1>8, <1>10, <2>1, <2>2
<1>11. CASE boot = "up" /\ boot' = "up" /\ ReleaseNext
  <2>1. agent'.s = agent.s /\ agent'.copy = agent.copy
    BY <1>11 DEF ReleaseNext
  <2>2. CASE /\ agent.pc = "recover" /\ agent'.pc = "teardown"
             /\ bySlice[agent.s] # 0 /\ agent'.n = bySlice[agent.s]
             /\ Release(agent.s, bySlice[agent.s]) /\ UNCHANGED store
    <3>1. agent.s \in Slice /\ bySlice[agent.s] \in Nat
      BY <1>3, <2>2 DEF TypeOK, LedgerTypeOK
    <3>2. \A a \in Records : a.s = agent.s => a.n = bySlice[agent.s]
      <4>1. PICK b \in byAlloc : b.s = agent.s /\ b.n = bySlice[agent.s]
        BY <1>3, <2>2, <3>1 DEF RecordsSane
      <4> QED  BY <1>3, <4>1 DEF RecordsSane
    <3>3. \A a \in byAlloc' : a \in byAlloc /\ a.s # agent.s
      BY <1>3, <2>2, <3>1, <3>2, ReleasedFromCard
    <3>4. CardReleased' /\ Records' \subseteq Records
      BY <1>2, <2>1, <2>2, <3>3 DEF CardReleased, Records
    <3>5. \A a \in byAlloc : a.s # agent.s => a \in byAlloc'
      BY <2>2 DEF Release, Numbered
    <3>6. \A a \in store' : a \in byAlloc' \/ (a.s = agent'.s /\ CardReleased')
      BY <1>2, <1>11, <2>1, <2>2, <3>4, <3>5 DEF CardReleased
    <3> QED  BY <2>1, <2>2, <3>2, <3>3, <3>4, <3>6
  <2>3. CASE /\ agent.pc = "recover" /\ agent'.pc = "report"
             /\ bySlice[agent.s] = 0 /\ UNCHANGED <<ledgerVars, store>>
    <3>1. \A a \in byAlloc : a.s # agent.s
      BY <1>3, <2>3 DEF RecordsSane, TypeOK, LedgerTypeOK, Allocation
    <3>2. \A a \in store : a \in byAlloc
      BY <1>2, <1>11, <2>3 DEF CardReleased
    <3>3. Records' = Records /\ ~CardReleased'
      BY <2>3 DEF Records, ledgerVars, CardReleased
    <3> QED  BY <2>1, <2>3, <3>1, <3>2, <3>3 DEF Records, ledgerVars
  <2>4. CASE /\ agent.pc = "teardown" /\ agent'.n = agent.n
             /\ agent'.pc = IF agent.copy.n # 0 THEN "release" ELSE "delete"
             /\ UNCHANGED <<ledgerVars, store>>
    <3>1. Records' = Records /\ (CardReleased' <=> CardReleased)
      BY <2>1, <2>4 DEF Records, ledgerVars, CardReleased
    <3> QED  BY <1>2, <1>11, <2>1, <2>4, <3>1 DEF ledgerVars
  <2>5. CASE /\ agent.pc = "release" /\ agent'.pc = "delete" /\ agent'.n = agent.n
             /\ Release(agent.s, agent.n) /\ UNCHANGED store
    <3>1. agent.s \in Slice /\ agent.n \in Nat
      BY <1>3, <2>5
    <3>2. \A a \in byAlloc' : a \in byAlloc /\ a.s # agent.s
      BY <1>2, <1>3, <2>5, <3>1, ReleasedFromCard
    <3>3. CardReleased' /\ Records' \subseteq Records
      BY <2>5, <3>2 DEF CardReleased, Records
    <3>4. \A a \in byAlloc : a.s # agent.s => a \in byAlloc'
      BY <2>5 DEF Release, Numbered
    <3>5. \A a \in store' : a \in byAlloc' \/ (a.s = agent'.s /\ CardReleased')
      BY <1>2, <1>11, <2>1, <2>5, <3>3, <3>4 DEF CardReleased
    <3> QED  BY <1>2, <2>1, <2>5, <3>2, <3>3, <3>5
  <2>6. CASE /\ agent.pc = "delete" /\ agent'.pc = "report" /\ UNCHANGED ledgerVars
             /\ store' = {a \in store : ~(a.s = agent.s /\ a.n = agent.n)}
    <3>1. \A a \in byAlloc' : a \in byAlloc /\ a.s # agent.s
      BY <1>2, <2>6 DEF CardReleased, ledgerVars
    <3>2. \A a \in store' : a \in store /\ a.s # agent.s
      BY <1>2, <1>3, <2>6
    <3>3. \A a \in store' : a \in byAlloc'
      BY <1>2, <1>11, <2>6, <3>2 DEF ledgerVars
    <3>4. ~CardReleased'
      BY <2>6 DEF CardReleased
    <3> QED  BY <2>1, <2>6, <3>1, <3>2, <3>3, <3>4 DEF Records
  <2> QED  BY <1>11, <2>2, <2>3, <2>4, <2>5, <2>6 DEF ReleaseNext
<1>12. ASSUME boot = "up", boot' = "up", NEW s \in Slice, AgentReads(s), agent.pc = "idle",
              UNCHANGED <<ledgerVars, obj, store, boot>>
       PROVE  /\ \A a \in store' : a \in byAlloc' \/ (a.s = agent'.s /\ CardReleased')
              /\ agent'.pc = "recover" => agent'.copy.n = 0
              /\ agent'.pc \in {"teardown", "release", "delete"} =>
                    \A a \in Records' : a.s = agent'.s => a.n = agent'.n
              /\ CardReleased' => \A a \in byAlloc' : a.s # agent'.s
              /\ agent'.pc = "report" => \A a \in Records' : a.s # agent'.s
  <2>1. Records' = Records /\ store' = store /\ byAlloc' = byAlloc
    BY <1>12 DEF Records, ledgerVars
  <2>2. \A a \in store : a \in byAlloc
    BY <1>2, <1>12 DEF CardReleased
  <2>3. ~CardReleased'
    BY <1>12 DEF AgentReads, CardReleased
  <2> QED  BY <1>2, <1>12, <2>1, <2>2, <2>3 DEF AgentReads
<1> QED  BY <1>6, <1>7, <1>9, <1>10, <1>11, <1>12 DEF ReleaseTurns

LEMMA CleanInit ==
    ASSUME Init
    PROVE  CleanInv
<1>1. /\ \A s \in Slice : obj[s] = Absent
      /\ byAlloc = {} /\ store = {} /\ agent.pc = "idle"
  BY DEF Init, NewAllocator, AgentIdle
<1>2. Absent.phase = "Absent" /\ Absent.n = 0
  BY DEF Absent, NewObject
<1> QED  BY <1>1, <1>2 DEF CleanInv, ReleaseUnderWay, ReleasedClean, CardReleased, Records

(* A slice that was reported Released holds nothing, in the ledger or on disk, *)
(* if no write to the disk fails.                                            *)
THEOREM ReleasedHoldNothing ==
    ASSUME "unreadable" \notin Faults, "diskError" \notin Faults
    PROVE  Spec => []ReleasedClean
<1>1. Init => CleanInv
  BY CleanInit
<1>2. SliceInv /\ SliceInv' /\ CleanInv /\ [Next]_vars => CleanInv'
  BY CleanStep, ObjectMoves, LedgerMoving, DiskMoving, BootMoving, ReleaseTurning DEF SliceInv
<1>3. CleanInv => ReleasedClean
  BY DEF CleanInv
<1> QED  BY <1>1, <1>2, <1>3, SliceInvariant, PTL DEF Spec
=============================================================================
