------------------------------ MODULE VRAMCache ------------------------------
(***************************************************************************)
(* The scheduler's in-memory capacity ledger (internal/scheduler/cache.go).*)
(* One operator per critical section of the VRAMCache mutex: an operator   *)
(* is everything that happens between one Lock and its Unlock, so a method *)
(* that takes the lock several times (ReleaseSliceOnce, FailSliceOnce,     *)
(* ForgetSlice) appears here as several operators, which module Scheduler  *)
(* sequences and interleaves with the other goroutines.                    *)
(*                                                                         *)
(* Bytes: every hold and every allocation of a slice has the size the      *)
(* slice requests (the node agent reports AllocatedBytes equal to          *)
(* RequestedVRAMBytes), so an entry is its slice and its node.             *)
(* FreeVRAMBytes is recomputed after every change of its three terms and   *)
(* is therefore an operator, FreeVRAM.                                     *)
(***************************************************************************)
EXTENDS Naturals

CONSTANTS
    Slice,      \* slice UIDs
    Node,       \* node names
    NoNode,     \* the empty node name
    Req,        \* Req[s]: RequestedVRAMBytes of slice s
    Capacity,   \* Capacity[n]: the VRAM a node advertises
    Bytes       \* Bytes[S]: the VRAM that a set S of slices requests together

ASSUME NodeAssumption == NoNode \notin Node

ASSUME SizeAssumption ==
    /\ Req \in [Slice -> Nat \ {0}]
    /\ Capacity \in [Node -> Nat]

(* Bytes is the sum of Req over a set of slices; stated by its step. *)
ASSUME BytesAssumption ==
    /\ Bytes \in [SUBSET Slice -> Nat]
    /\ Bytes[{}] = 0
    /\ \A S \in SUBSET Slice : \A s \in Slice \ S :
           Bytes[S \cup {s}] = Bytes[S] + Req[s]

VARIABLES
    nodes,                \* names with a NodeState
    reservedVRAM,         \* ReservedVRAMBytes per node (0 without a NodeState)
    allocatedVRAM,        \* AllocatedVRAMBytes per node (0 without a NodeState)
    healthy,              \* nodes whose Healthy flag is set
    assumedBySlice,       \* node of the speculative hold of a slice
    confirmedBySlice,     \* node of the confirmed hold of a slice
    allocatedNodeBySlice, \* node of the allocation of a slice (bytes: Req)
    syncedPhaseBySlice,   \* the once-guard: last phase applied for a slice
    seeded                \* the warm-up gate is open

cacheVars == <<nodes, reservedVRAM, allocatedVRAM, healthy, assumedBySlice,
               confirmedBySlice, allocatedNodeBySlice, syncedPhaseBySlice,
               seeded>>

Place == Node \cup {NoNode}
Synced == {"", "Ready", "Released", "Failed"}

CacheTypeOK ==
    /\ nodes \in SUBSET Node
    /\ reservedVRAM \in [Node -> Nat]
    /\ allocatedVRAM \in [Node -> Nat]
    /\ healthy \in SUBSET Node
    /\ assumedBySlice \in [Slice -> Place]
    /\ confirmedBySlice \in [Slice -> Place]
    /\ allocatedNodeBySlice \in [Slice -> Place]
    /\ syncedPhaseBySlice \in [Slice -> Synced]
    /\ seeded \in BOOLEAN

NewVRAMCache ==
    /\ nodes = {}
    /\ reservedVRAM = [n \in Node |-> 0]
    /\ allocatedVRAM = [n \in Node |-> 0]
    /\ healthy = {}
    /\ assumedBySlice = [s \in Slice |-> NoNode]
    /\ confirmedBySlice = [s \in Slice |-> NoNode]
    /\ allocatedNodeBySlice = [s \in Slice |-> NoNode]
    /\ syncedPhaseBySlice = [s \in Slice |-> ""]
    /\ seeded = FALSE

-----------------------------------------------------------------------------

(* Mutant: a decrement that does not stop at zero. *)
FloorUnchecked(x, b) == x - b

(* Subtraction that floors at zero, as every decrement in the cache does. *)
Floor(x, b) == IF b <= x THEN x - b ELSE 0

FreeVRAM(n) == Floor(Capacity[n], allocatedVRAM[n] + reservedVRAM[n])

(* Mutant: the hold of another slice is not subtracted. *)
CanFitIgnoringHolds(n, s) ==
    n \in nodes /\ n \in healthy /\ Req[s] <= Floor(Capacity[n], allocatedVRAM[n])

CanFit(n, s) == n \in nodes /\ n \in healthy /\ Req[s] <= FreeVRAM(n)

(* The NodeState updates guarded by "if node, ok := c.nodes[name]; ok". *)
Charge(f, n, s)    == IF n \in nodes THEN [f EXCEPT ![n] = @ + Req[s]] ELSE f
Discharge(f, n, s) == IF n \in nodes THEN [f EXCEPT ![n] = Floor(@, Req[s])] ELSE f

(* AssumeSlice succeeds on node n exactly when this holds. *)
CanAssume(s, n) ==
    /\ assumedBySlice[s] = NoNode
    /\ confirmedBySlice[s] = NoNode
    /\ CanFit(n, s)

AssumeSlice(s, n) ==
    /\ CanAssume(s, n)
    /\ assumedBySlice' = [assumedBySlice EXCEPT ![s] = n]
    /\ reservedVRAM' = [reservedVRAM EXCEPT ![n] = @ + Req[s]]
    /\ UNCHANGED <<nodes, allocatedVRAM, healthy, confirmedBySlice,
                   allocatedNodeBySlice, syncedPhaseBySlice, seeded>>

(* Mutant: the hold is dropped and its bytes are not given back. *)
RollbackKeepingBytes(s) ==
    /\ assumedBySlice' = [assumedBySlice EXCEPT ![s] = NoNode]
    /\ UNCHANGED <<nodes, reservedVRAM, allocatedVRAM, healthy, confirmedBySlice,
                   allocatedNodeBySlice, syncedPhaseBySlice, seeded>>

(* A speculative hold is dropped: by its transaction or by the TTL reaper. *)
RollbackAssumedSlice(s) ==
    /\ assumedBySlice' = [assumedBySlice EXCEPT ![s] = NoNode]
    /\ reservedVRAM' = Discharge(reservedVRAM, assumedBySlice[s], s)
    /\ UNCHANGED <<nodes, allocatedVRAM, healthy, confirmedBySlice,
                   allocatedNodeBySlice, syncedPhaseBySlice, seeded>>

(* Mutant: no re-arm; a hold that was reaped during the bind stays gone. *)
ConfirmWithoutRearm(s, n) ==
    /\ confirmedBySlice' = [confirmedBySlice EXCEPT ![s] = assumedBySlice[s]]
    /\ assumedBySlice' = [assumedBySlice EXCEPT ![s] = NoNode]
    /\ UNCHANGED <<nodes, reservedVRAM, allocatedVRAM, healthy, allocatedNodeBySlice,
                   syncedPhaseBySlice, seeded>>

ConfirmSliceOrRearm(s, n) ==
    /\ IF assumedBySlice[s] # NoNode
         THEN /\ confirmedBySlice' = [confirmedBySlice EXCEPT ![s] = assumedBySlice[s]]
              /\ assumedBySlice' = [assumedBySlice EXCEPT ![s] = NoNode]
              /\ UNCHANGED reservedVRAM
         ELSE /\ confirmedBySlice' = [confirmedBySlice EXCEPT ![s] = n]
              /\ reservedVRAM' = Charge(reservedVRAM, n, s)
              /\ UNCHANGED assumedBySlice
    /\ UNCHANGED <<nodes, allocatedVRAM, healthy, allocatedNodeBySlice,
                   syncedPhaseBySlice, seeded>>

(* Mutant: the confirmed hold is dropped and its bytes are not given back. *)
UnconfirmKeepingBytes(s) ==
    /\ confirmedBySlice' = [confirmedBySlice EXCEPT ![s] = NoNode]
    /\ UNCHANGED <<nodes, reservedVRAM, allocatedVRAM, healthy, assumedBySlice,
                   allocatedNodeBySlice, syncedPhaseBySlice, seeded>>

ReleaseConfirmedSlice(s) ==
    /\ confirmedBySlice' = [confirmedBySlice EXCEPT ![s] = NoNode]
    /\ reservedVRAM' = Discharge(reservedVRAM, confirmedBySlice[s], s)
    /\ UNCHANGED <<nodes, allocatedVRAM, healthy, assumedBySlice,
                   allocatedNodeBySlice, syncedPhaseBySlice, seeded>>

-----------------------------------------------------------------------------

(* The promotion body: nothing on a node without a NodeState; otherwise the *)
(* confirmed hold, if any, becomes an allocation. The hold is given back on *)
(* node n, the caller's, not on the node the hold was taken on.             *)
promoteConfirmedToAllocatedLocked(s, n) ==
    IF n \in nodes
      THEN /\ allocatedVRAM' = [allocatedVRAM EXCEPT ![n] = @ + Req[s]]
           /\ reservedVRAM' = IF confirmedBySlice[s] # NoNode
                                THEN Discharge(reservedVRAM, n, s)
                                ELSE reservedVRAM
           /\ confirmedBySlice' = [confirmedBySlice EXCEPT ![s] = NoNode]
      ELSE UNCHANGED <<allocatedVRAM, reservedVRAM, confirmedBySlice>>

PromoteSliceToAllocatedOnce(s, n) ==
    IF syncedPhaseBySlice[s] = "Ready"
      THEN UNCHANGED cacheVars
      ELSE /\ promoteConfirmedToAllocatedLocked(s, n)
           /\ syncedPhaseBySlice' = [syncedPhaseBySlice EXCEPT ![s] = "Ready"]
           /\ allocatedNodeBySlice' = [allocatedNodeBySlice EXCEPT ![s] = n]
           /\ UNCHANGED <<nodes, healthy, assumedBySlice, seeded>>

Allocated(s) == allocatedNodeBySlice[s] # NoNode

(* First critical section of ReleaseSliceOnce: the tombstone. The bytes go *)
(* back to the node in a second one, ReleaseAllocated.                     *)
ReleaseSliceOnce(s) ==
    IF \/ syncedPhaseBySlice[s] = "Released"
       \/ ~Allocated(s) /\ syncedPhaseBySlice[s] = ""
      THEN UNCHANGED cacheVars
      ELSE /\ syncedPhaseBySlice' = [syncedPhaseBySlice EXCEPT ![s] = "Released"]
           /\ allocatedNodeBySlice' = [allocatedNodeBySlice EXCEPT ![s] = NoNode]
           /\ UNCHANGED <<nodes, reservedVRAM, allocatedVRAM, healthy,
                          assumedBySlice, confirmedBySlice, seeded>>

(* FailSliceOnce goes past its early returns. *)
FailApplies(s) ==
    /\ syncedPhaseBySlice[s] \notin {"Failed", "Released"}
    /\ \/ confirmedBySlice[s] # NoNode
       \/ Allocated(s)
       \/ syncedPhaseBySlice[s] # ""

(* First critical section of FailSliceOnce; ReleaseAllocated and           *)
(* ReleaseConfirmedSlice follow in their own.                              *)
FailSliceOnce(s) ==
    IF FailApplies(s)
      THEN /\ syncedPhaseBySlice' = [syncedPhaseBySlice EXCEPT ![s] = "Failed"]
           /\ allocatedNodeBySlice' = [allocatedNodeBySlice EXCEPT ![s] = NoNode]
           /\ UNCHANGED <<nodes, reservedVRAM, allocatedVRAM, healthy,
                          assumedBySlice, confirmedBySlice, seeded>>
      ELSE UNCHANGED cacheVars

ReleaseAllocated(n, s) ==
    /\ allocatedVRAM' = Discharge(allocatedVRAM, n, s)
    /\ UNCHANGED <<nodes, reservedVRAM, healthy, assumedBySlice, confirmedBySlice,
                   allocatedNodeBySlice, syncedPhaseBySlice, seeded>>

(* Last critical section of ForgetSlice. *)
DropTombstone(s) ==
    /\ syncedPhaseBySlice' = [syncedPhaseBySlice EXCEPT ![s] = ""]
    /\ UNCHANGED <<nodes, reservedVRAM, allocatedVRAM, healthy, assumedBySlice,
                   confirmedBySlice, allocatedNodeBySlice, seeded>>

(* The janitor's working set, with the node the cache has for each slice:  *)
(* the allocation wins over the confirmed hold, that over the speculative. *)
TrackedNode(s) == IF Allocated(s) THEN allocatedNodeBySlice[s]
                  ELSE IF confirmedBySlice[s] # NoNode THEN confirmedBySlice[s]
                  ELSE assumedBySlice[s]

(* Mutant: a working set without the allocations. *)
TrackedWithoutAllocated ==
    {s \in Slice : assumedBySlice[s] # NoNode \/ confirmedBySlice[s] # NoNode}

TrackedSliceUIDs == {s \in Slice : TrackedNode(s) # NoNode}

-----------------------------------------------------------------------------

(* A node enters the candidate set healthy and with nothing charged; a known *)
(* one keeps its charges. (The API server reports no vGPU consumption, so    *)
(* the raise of AllocatedVRAMBytes to a reported figure does not occur.)     *)
UpdateNode(n) ==
    /\ nodes' = nodes \cup {n}
    /\ healthy' = IF n \in nodes THEN healthy ELSE healthy \cup {n}
    /\ UNCHANGED <<reservedVRAM, allocatedVRAM, assumedBySlice, confirmedBySlice,
                   allocatedNodeBySlice, syncedPhaseBySlice, seeded>>

Without(f, n) == [s \in Slice |-> IF f[s] = n THEN NoNode ELSE f[s]]

RemoveNode(n) ==
    IF n \in nodes
      THEN /\ nodes' = nodes \ {n}
           /\ healthy' = healthy \ {n}
           /\ reservedVRAM' = [reservedVRAM EXCEPT ![n] = 0]
           /\ allocatedVRAM' = [allocatedVRAM EXCEPT ![n] = 0]
           /\ assumedBySlice' = Without(assumedBySlice, n)
           /\ confirmedBySlice' = Without(confirmedBySlice, n)
           /\ allocatedNodeBySlice' = Without(allocatedNodeBySlice, n)
           /\ syncedPhaseBySlice' = [s \in Slice |->
                  IF allocatedNodeBySlice[s] = n THEN "" ELSE syncedPhaseBySlice[s]]
           /\ UNCHANGED seeded
      ELSE UNCHANGED cacheVars

SetNodeHealth(n, ok) ==
    /\ healthy' = IF n \in nodes /\ ok THEN healthy \cup {n} ELSE healthy \ {n}
    /\ UNCHANGED <<nodes, reservedVRAM, allocatedVRAM, assumedBySlice,
                   confirmedBySlice, allocatedNodeBySlice, syncedPhaseBySlice, seeded>>

MarkSeeded ==
    /\ seeded' = TRUE
    /\ UNCHANGED <<nodes, reservedVRAM, allocatedVRAM, healthy, assumedBySlice,
                   confirmedBySlice, allocatedNodeBySlice, syncedPhaseBySlice>>

-----------------------------------------------------------------------------

(* The slices a node is charged for: speculative and confirmed holds, and  *)
(* allocations.                                                            *)
HeldOn(n) == {s \in Slice : assumedBySlice[s] = n \/ confirmedBySlice[s] = n}
AllocatedOn(n) == {s \in Slice : allocatedNodeBySlice[s] = n}
=============================================================================
