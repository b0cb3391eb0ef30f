----------------------------- MODULE CardLedger -----------------------------
(***************************************************************************)
(* The node agent's record of what each GPU of its node has been promised  *)
(* to (internal/nodeagent/nvml/allocator.go): one operator per critical    *)
(* section of the allocator's mutex. An allocation ID is the slice's UID   *)
(* and a time stamp; here the slice and the number of the attempt.         *)
(***************************************************************************)
EXTENDS Naturals, FiniteSets

CONSTANTS
    Slice,       \* UIDs of the slices the scheduler places on the node
    Card,        \* UUIDs of the GPUs of the node
    NoCard,      \* no GPU
    Req,         \* Req[s]: the VRAM slice s asks for
    Total,       \* Total[c]: what GPU c has, less the driver's reserve
    Bytes        \* Bytes[S]: the VRAM that a set S of slices asks for together

ASSUME CardAssumption ==
    /\ NoCard \notin Card
    /\ Req \in [Slice -> Nat \ {0}]
    /\ Total \in [Card -> Nat]

(* Bytes is the sum of Req over a set of slices: Req for one slice, and      *)
(* additive over sets that share none.                                       *)
ASSUME BytesAssumption ==
    /\ Bytes \in [SUBSET Slice -> Nat]
    /\ \A s \in Slice : Bytes[{s}] = Req[s]
    /\ \A S, T \in SUBSET Slice : S \cap T = {} => Bytes[S \cup T] = Bytes[S] + Bytes[T]

VARIABLES
    committed,   \* committed[c]: bytes of c that are promised to slices
    byAlloc,     \* the allocations
    bySlice,     \* bySlice[s]: the attempt that is the allocation of s, or 0
    attempts     \* attempts[s]: allocations made for s so far

ledgerVars == <<committed, byAlloc, bySlice, attempts>>

Allocation == [s : Slice, n : Nat \ {0}, card : Card]

LedgerTypeOK ==
    /\ committed \in [Card -> Nat]
    /\ byAlloc \in SUBSET Allocation
    /\ bySlice \in [Slice -> Nat]
    /\ attempts \in [Slice -> Nat]

(* The ledger of a new process; time goes on, so no allocation ID comes back. *)
NewAllocator ==
    /\ committed = [c \in Card |-> 0]
    /\ byAlloc = {}
    /\ bySlice = [s \in Slice |-> 0]

Available(c) == IF committed[c] < Total[c] THEN Total[c] - committed[c] ELSE 0

(* Mutant: a card is compared with what it has, not with what is left of it. *)
FittingEmpty(s, visible) == {c \in visible : Req[s] <= Total[c]}

(* The cards, of those the driver shows, that can host the slice, and the  *)
(* ones among them with the least space.                                   *)
Fitting(s, visible) == {c \in visible : Req[s] <= Available(c)}

BestFit(s, visible) ==
    {c \in Fitting(s, visible) : \A d \in Fitting(s, visible) : Available(c) <= Available(d)}

Commit(a) ==
    /\ committed' = [committed EXCEPT ![a.card] = @ + Req[a.s]]
    /\ byAlloc' = byAlloc \cup {a}
    /\ bySlice' = [bySlice EXCEPT ![a.s] = a.n]

Allocate(s, c) ==
    /\ Commit([s |-> s, n |-> attempts[s] + 1, card |-> c])
    /\ attempts' = [attempts EXCEPT ![s] = @ + 1]

Numbered(s, n) == {a \in byAlloc : a.s = s /\ a.n = n}

(* Mutant: the allocation goes, its bytes stay. *)
ReleaseKeepingBytes(s, n) ==
    /\ byAlloc' = byAlloc \ Numbered(s, n)
    /\ bySlice' = [bySlice EXCEPT ![s] = 0]
    /\ UNCHANGED <<committed, attempts>>

(* Mutant: the record stays, so that a retry gives the bytes back twice. *)
ReleaseKeepingRecord(s, n) ==
    /\ \/ Numbered(s, n) = {} /\ UNCHANGED <<committed, bySlice>>
       \/ \E a \in Numbered(s, n) :
             /\ committed' = [committed EXCEPT ![a.card] = @ - Req[s]]
             /\ bySlice' = [bySlice EXCEPT ![s] = 0]
    /\ UNCHANGED <<byAlloc, attempts>>

(* Release an allocation by its ID; one the ledger does not know is no error. *)
Release(s, n) ==
    /\ \/ Numbered(s, n) = {} /\ UNCHANGED <<committed, byAlloc, bySlice>>
       \/ \E a \in Numbered(s, n) :
             /\ committed' = [committed EXCEPT ![a.card] = IF Req[s] <= @ THEN @ - Req[s] ELSE 0]
             /\ byAlloc' = byAlloc \ {a}
             /\ bySlice' = [bySlice EXCEPT ![s] = 0]
    /\ UNCHANGED attempts

(* Mutant: the bytes come back, but not which slice they belong to. *)
RestoreWithoutSlice(a) ==
    /\ committed' = [committed EXCEPT ![a.card] = @ + Req[a.s]]
    /\ byAlloc' = byAlloc \cup {a}
    /\ UNCHANGED <<bySlice, attempts>>

(* A checkpoint record is put back unless its ID is known. *)
RestoreAllocation(a) ==
    /\ \/ Numbered(a.s, a.n) # {} /\ UNCHANGED <<committed, byAlloc, bySlice>>
       \/ Numbered(a.s, a.n) = {} /\ Commit(a)
    /\ UNCHANGED attempts

=============================================================================
