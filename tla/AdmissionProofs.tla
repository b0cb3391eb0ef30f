-------------------------- MODULE AdmissionProofs --------------------------
(***************************************************************************)
(* Theorems about Admission, for any slices, priorities, grace periods and *)
(* settings: types, no second wave of victims, and the quota.              *)
(***************************************************************************)
EXTENDS Admission, SumLemmas

(* How far the informer may be behind.                                       *)
SeenSane ==
    \A s \in Slice :
        /\ fresh[s] => seen[s] = phase[s]
        /\ seen[s] = "none" => phase[s] \in {"none", "Pending"}
        /\ seen[s] = "Pending" => phase[s] \in {"Pending", "Assigned", "Scheduled", "none"}
        /\ seen[s] = "Assigned" => phase[s] \in {"Assigned", "Scheduled", "none"}
        /\ seen[s] = "Released" => phase[s] \in {"Released", "none"}

(* Not bound yet, as far as the phase tells.                                 *)
Early == {"Pending", "Assigned"}

(* What is bound and not yet visible is in the ledger.                       *)
Charged ==
    \A s \in Slice :
        phase[s] \in Bound /\ seen[s] \notin Bound =>
            seen[s] \in Early /\ hold[s] = "confirmed"

Binding == {"bindSpec", "bindStatus"}
Planning == {"own", "select", "mark", "rollback"}

(* The slice that the worker is about to bind is not bound by anybody else,  *)
(* nor created again.                                                        *)
Unbound(s) ==
    \/ phase[s] \in Early /\ seen[s] \in Early
    \/ phase[s] = "none" /\ seen[s] \in Early \cup {"none"}

WorkerSane ==
    /\ w.pc # "idle" => w.slice \in Slice
    /\ w.pc = "idle" => w.slice = Nobody
    /\ w.pc \in Binding => Unbound(w.slice) /\ hold[w.slice] = "assumed"
    /\ w.pc = "quota" => Unbound(w.slice) \/ hold[w.slice] \in {"confirmed", "allocated"}
    /\ w.pc = "mark" => w.todo \subseteq Preemptible
    /\ w.pc \notin {"mark", "rollback"} /\ w.pc # "done" => w.todo = {} /\ w.marked = {}
    /\ w.todo \cap w.marked = {}

(* As long as a victim drains its requester's stamp is there, and as old as  *)
(* the mark; the victims of the plan in hand are those that it has marked.   *)
Drains(u, r) == phase[u] = "Preempting" /\ by[u] = r /\ r # Nobody

PlanSane ==
    /\ \A u \in Slice, r \in Slice :
          Drains(u, r) => /\ u \in Preemptible /\ phase[r] # "none"
                          /\ stamp[r] = since[u] /\ since[u] < Grace[u] + Buffer
    /\ w.pc \in {"select", "mark", "rollback"} =>
          phase[w.slice] = "none" \/ stamp[w.slice] = 0
    /\ w.pc \in {"select", "mark"} =>
          \A u \in Slice : Drains(u, w.slice) => u \in w.marked

AdmissionInv == TypeOK /\ SeenSane /\ Charged /\ WorkerSane /\ PlanSane

-----------------------------------------------------------------------------
(* Types, ages and records.                                                *)

Steps == {"idle", "quota", "own", "select", "mark", "rollback", "bindSpec", "bindStatus", "done"}
Works == [pc : Steps, slice : Slice \cup {Nobody}, used : Nat, counted : SUBSET Slice,
          todo : SUBSET Slice, marked : SUBSET Slice]
LastAge == Max({Grace[v] : v \in Slice}) + Buffer - 1

ApiTypes ==
    /\ phase \in [Slice -> Phase] /\ stamp \in [Slice -> Unset..Window]
    /\ since \in [Slice -> Unset..LastAge]
    /\ \A v \in Slice : (since[v] # Unset) <=> (phase[v] = "Preempting")
    /\ by \in [Slice -> Slice \cup {Nobody}]
SeenTypes == seen \in [Slice -> Phase] /\ fresh \in [Slice -> BOOLEAN]
LedgerTypes == setting \in Settings /\ hold \in [Slice -> Held \cup {"none"}]
QueueTypes == cooled \subseteq Slice /\ heap \subseteq Slice /\ again \subseteq Slice
              /\ timer \subseteq Slice
CountTypes == faults \in 0..MaxFaults

LEMMA Types ==
    TypeOK <=> /\ ApiTypes /\ SeenTypes /\ LedgerTypes /\ QueueTypes /\ CountTypes
               /\ w \in Works /\ w.todo \cap w.marked = {}
               /\ w.pc \in Binding => hold[w.slice] = "assumed"
  BY Zenon DEF TypeOK, ApiTypes, SeenTypes, LedgerTypes, QueueTypes, CountTypes, Works, Steps,
     LastAge, Binding

LEMMA TypesAfter ==
    /\ ApiTypes' /\ SeenTypes' /\ LedgerTypes' /\ QueueTypes' /\ CountTypes' /\ (w \in Works)'
    /\ (w.todo \cap w.marked = {} /\ (w.pc \in Binding => hold[w.slice] = "assumed"))'
    => TypeOK'
  BY Zenon DEF TypeOK, ApiTypes, SeenTypes, LedgerTypes, QueueTypes, CountTypes, Works, Steps,
     LastAge, Binding

LEMMA InvAfter ==
    ASSUME ApiTypes', SeenTypes', LedgerTypes', QueueTypes', CountTypes', (w \in Works)',
           SeenSane', Charged', WorkerSane', PlanSane'
    PROVE  AdmissionInv'
<1>1. (w.todo \cap w.marked = {} /\ (w.pc \in Binding => hold[w.slice] = "assumed"))'
  BY DEF WorkerSane
<1> QED  BY <1>1, TypesAfter DEF AdmissionInv

(* The greatest of finitely many ages. *)
LEMMA MaxIs ==
    ASSUME NEW S, IsFiniteSet(S), S \subseteq Nat, S # {}
    PROVE  Max(S) \in S /\ \A x \in S : x <= Max(S)
<1>1. \E x \in S : \A y \in S : x >= y
  BY HasGreatest
<1>2. Max(S) \in S /\ \A y \in S : Max(S) >= y
  BY <1>1 DEF Max
<1> QED  BY <1>2

(* The window outlasts each grace period, and its buffer.                    *)
LEMMA Ages ==
    /\ Window \in Nat \ {0}
    /\ \A v \in Preemptible : Grace[v] + Buffer <= Window
    /\ \A v \in Slice : LastAge \in Nat /\ Grace[v] + Buffer - 1 <= LastAge
<1> DEFINE G(S) == {Grace[v] : v \in S}
<1>1. IsFiniteSet(Preemptible) /\ IsFiniteSet(Slice) /\ Preemptible \subseteq Slice
      /\ Grace \in [Slice -> Nat \ {0}]
  BY AdmissionAssumption, FS_Subset
<1>2. IsFiniteSet(G(Preemptible)) /\ IsFiniteSet(G(Slice))
  <2>1. ASSUME NEW S, IsFiniteSet(S) PROVE IsFiniteSet(G(S))
    <3> DEFINE f == [v \in S |-> Grace[v]]
    <3>1. f \in Surjection(S, G(S))
      BY DEF Surjection
    <3> QED  BY <2>1, <3>1, FS_Surjection
  <2> QED  BY <1>1, <2>1
<1>3. Max(G(Preemptible) \cup {1}) \in Nat \ {0}
      /\ \A x \in G(Preemptible) : x <= Max(G(Preemptible) \cup {1})
  <2> DEFINE S == G(Preemptible) \cup {1}
  <2>1. IsFiniteSet(S)
    BY <1>2, FS_AddElement
  <2>2. S \subseteq Nat \ {0} /\ S # {}
    BY <1>1
  <2> HIDE DEF S
  <2>3. Max(S) \in S /\ \A x \in S : x <= Max(S)
    BY <2>1, <2>2, MaxIs
  <2>4. Max(S) \in Nat \ {0}
    BY <2>2, <2>3
  <2> QED  BY <2>3, <2>4 DEF S
<1>4. ASSUME NEW v \in Slice
      PROVE  Max(G(Slice)) \in Nat \ {0} /\ Grace[v] <= Max(G(Slice))
  <2> DEFINE S == G(Slice)
  <2>1. S \subseteq Nat \ {0} /\ Grace[v] \in S
    BY <1>1
  <2>2. IsFiniteSet(S)
    BY <1>2
  <2> HIDE DEF S
  <2>3. Max(S) \in S /\ \A x \in S : x <= Max(S)
    BY <2>1, <2>2, MaxIs
  <2> QED  BY <2>1, <2>3 DEF S
<1> DEFINE longest == Max(G(Preemptible) \cup {1})
<1>5. Window = IF longest + Buffer > Floor THEN longest + Buffer ELSE Floor
  BY DEF Window
<1>6. longest \in Nat \ {0} /\ \A v \in Preemptible : Grace[v] <= longest
  BY <1>3
<1> HIDE DEF longest
<1>7. Buffer \in Nat \ {0} /\ Floor \in Nat \ {0}
  BY AdmissionAssumption
<1>8. \A v \in Slice : LastAge \in Nat /\ Grace[v] + Buffer - 1 <= LastAge
  <2> SUFFICES ASSUME NEW v \in Slice PROVE LastAge \in Nat /\ Grace[v] + Buffer - 1 <= LastAge
    OBVIOUS
  <2>1. LastAge = Max(G(Slice)) + Buffer - 1
    BY DEF LastAge
  <2> QED  BY <1>1, <1>4, <1>7, <2>1
<1>9. \A v \in Preemptible : Grace[v] + Buffer <= Window
  BY <1>1, <1>5, <1>6, <1>7
<1> QED  BY <1>5, <1>6, <1>7, <1>8, <1>9

LEMMA Counted ==
    ASSUME CountTypes
    PROVE  /\ UNCHANGED faults => CountTypes'
           /\ \A f : GoesWrong(f) => CountTypes'
           /\ \A x : Fails(x) => CountTypes'
  BY AdmissionAssumption DEF CountTypes, GoesWrong, Fails

LEMMA Adds ==
    ASSUME QueueTypes, NEW s \in Slice, Add(s)
    PROVE  heap' \subseteq Slice /\ again' \subseteq Slice
  BY DEF QueueTypes, Add

(* A worker that goes on is where it was, but for its step.                  *)
LEMMA GoesOn ==
    ASSUME w \in Works, NEW x \in Steps, w' = [w EXCEPT !.pc = x]
    PROVE  /\ w' \in Works /\ w'.pc = x /\ w'.slice = w.slice /\ w'.used = w.used
           /\ w'.counted = w.counted /\ w'.todo = w.todo /\ w'.marked = w.marked
  BY DEF Works

LEMMA Marks ==
    ASSUME w \in Works, NEW v \in Slice, w' = [w EXCEPT !.todo = @ \ {v}, !.marked = @ \cup {v}]
    PROVE  /\ w' \in Works /\ w'.pc = w.pc /\ w'.slice = w.slice
           /\ w'.todo = w.todo \ {v} /\ w'.marked = w.marked \cup {v}
  BY DEF Works

LEMMA Unmarks ==
    ASSUME w \in Works, NEW v, w' = [w EXCEPT !.marked = @ \ {v}]
    PROVE  /\ w' \in Works /\ w'.pc = w.pc /\ w'.slice = w.slice
           /\ w'.todo = w.todo /\ w'.marked = w.marked \ {v}
  BY DEF Works

LEMMA PicksVictims ==
    ASSUME w \in Works, NEW x \in Steps, NEW P \in SUBSET Slice,
           w' = [w EXCEPT !.pc = x, !.todo = P]
    PROVE  /\ w' \in Works /\ w'.pc = x /\ w'.slice = w.slice
           /\ w'.todo = P /\ w'.marked = w.marked
  BY DEF Works

-----------------------------------------------------------------------------
(* What steps leave alone.                                                 *)

LEMMA SeenKept ==
    ASSUME SeenSane, UNCHANGED <<phase, seen, fresh>>
    PROVE  SeenSane'
  BY DEF SeenSane

LEMMA ChargedKept ==
    ASSUME Charged, UNCHANGED <<phase, seen>>,
           \A s \in Slice : seen[s] \in Early /\ hold[s] = "confirmed" => hold'[s] = "confirmed"
    PROVE  Charged'
  BY DEF Charged

LEMMA PlanKept ==
    ASSUME PlanSane, UNCHANGED <<phase, stamp, since, by>>,
           w'.pc \in {"select", "mark", "rollback"} =>
               /\ w'.slice = w.slice /\ w.pc \in {"select", "mark", "rollback"}
               /\ w'.pc \in {"select", "mark"} =>
                      w.pc \in {"select", "mark"} /\ w.marked \subseteq w'.marked
    PROVE  PlanSane'
  BY DEF PlanSane, Drains

LEMMA Requeued ==
    ASSUME w \in Works, Retry, timer \subseteq Slice, w.slice \in Slice
    PROVE  /\ w' \in Works /\ w'.pc = "done" /\ w'.slice = w.slice
           /\ w'.todo = w.todo /\ w'.marked = w.marked /\ timer' \subseteq Slice
  BY GoesOn DEF Retry, Steps

-----------------------------------------------------------------------------
(* The queue and the pass.                                                 *)

LEMMA QuietStep ==
    ASSUME AdmissionInv, (\E s \in Slice : Fire(s)) \/ CleanupCooldown
    PROVE  AdmissionInv'
<1> USE DEF AdmissionInv
<1>1. UNCHANGED <<setting, api, seen, fresh, hold, w, faults>>
  BY DEF Fire, CleanupCooldown
<1>2. cooled' \subseteq Slice /\ heap' \subseteq Slice /\ again' \subseteq Slice
      /\ timer' \subseteq Slice
  BY Types, Adds DEF Fire, CleanupCooldown, QueueTypes, queue
<1>3. ApiTypes' /\ SeenTypes' /\ LedgerTypes' /\ QueueTypes' /\ CountTypes' /\ (w \in Works)'
  BY <1>1, <1>2, Types DEF ApiTypes, SeenTypes, LedgerTypes, QueueTypes, CountTypes, api
<1>4. SeenSane' /\ Charged'
  BY <1>1, SeenKept, ChargedKept DEF api
<1>5. WorkerSane' /\ PlanSane'
  BY <1>1 DEF WorkerSane, PlanSane, Unbound, Drains, api
<1> QED  BY <1>3, <1>4, <1>5, InvAfter

LEMMA DoneStep ==
    ASSUME AdmissionInv, Done
    PROVE  AdmissionInv'
<1> USE DEF AdmissionInv
<1>1. /\ UNCHANGED <<setting, phase, stamp, since, by, seen, fresh, hold, cooled, timer, faults>>
      /\ w' = Idle /\ heap' \subseteq heap \cup again /\ again' \subseteq again
  BY DEF Done, api
<1>2. Idle \in Works /\ Idle.pc = "idle" /\ Idle.slice = Nobody /\ Idle.todo = {}
      /\ Idle.marked = {}
  BY DEF Idle, Works, Steps
<1>3. ApiTypes' /\ SeenTypes' /\ LedgerTypes' /\ QueueTypes' /\ CountTypes' /\ (w \in Works)'
  BY <1>1, <1>2, Types DEF ApiTypes, SeenTypes, LedgerTypes, QueueTypes, CountTypes
<1>4. SeenSane' /\ Charged' /\ PlanSane'
  BY <1>1, <1>2, SeenKept, ChargedKept, PlanKept
<1>5. WorkerSane'
  BY <1>1, <1>2 DEF WorkerSane, Planning, Binding
<1> QED  BY <1>3, <1>4, <1>5, InvAfter

(* A sum over slices is one of the sums of SumLemmas.                        *)
LEMMA BytesIs ==
    ASSUME NEW S
    PROVE  Bytes(S) = SumFunctionOnSet(setting.req, S)
  BY DEF Bytes, Req, MapThenSumSet, SumFunctionOnSet, FoldFunctionOnSet, MapThenFoldSet

LEMMA Requests ==
    ASSUME LedgerTypes, NEW S \in SUBSET Slice
    PROVE  IsFiniteSet(S) /\ (\A s \in Slice : setting.req[s] \in Nat) /\ Bytes(S) \in Nat
<1>1. IsFiniteSet(S)
  BY AdmissionAssumption, FS_Subset
<1>2. \A s \in Slice : setting.req[s] \in Nat
  BY AdmissionAssumption DEF LedgerTypes
<1> QED  BY <1>1, <1>2, BytesIs, SumIsNat

LEMMA ReconcileStep ==
    ASSUME AdmissionInv, Reconcile
    PROVE  AdmissionInv'
<1> USE DEF AdmissionInv
<1> DEFINE others(s) == {u \in Slice : seen[u] \in Bound \cup {"Assigned"}}
                          \ (Gang(s) \cap setting.gang)
<1>1. PICK s \in Slice :
         /\ s \in heap /\ heap' = heap \ {s}
         /\ hold' = CASE seen[s] = "Ready"                -> [hold EXCEPT ![s] = "allocated"]
                      [] seen[s] \in {"Released", "none"} -> [hold EXCEPT ![s] = "none"]
                      [] OTHER                            -> hold
         /\ w' = IF seen[s] # "Pending" THEN [Idle EXCEPT !.pc = "done", !.slice = s]
                 ELSE [Idle EXCEPT !.pc = "quota", !.slice = s, !.used = Bytes(others(s)),
                          !.counted = others(s) \cup (Gang(s) \cap setting.gang)
                                        \cup {u \in Slice : seen[u] = "Released"}]
  BY DEF Reconcile, Get
<1>2. UNCHANGED <<setting, phase, stamp, since, by, seen, fresh, cooled, again, timer, faults>>
  BY DEF Reconcile, api
<1>3. Bytes(others(s)) \in Nat /\ others(s) \subseteq Slice
      /\ Gang(s) \cap setting.gang \subseteq Slice
  <2>1. others(s) \in SUBSET Slice
    OBVIOUS
  <2>2. setting.gang \subseteq Slice
    BY Types, AdmissionAssumption DEF LedgerTypes
  <2> QED  BY <2>1, <2>2, Types, Requests
<1> HIDE DEF others
<1>4. /\ w' \in Works /\ w'.slice = s /\ w'.todo = {} /\ w'.marked = {}
      /\ IF seen[s] = "Pending" THEN w'.pc = "quota" ELSE w'.pc = "done"
  BY <1>1, <1>3 DEF Idle, Works, Steps
<1>5. hold' \in [Slice -> Held \cup {"none"}]
      /\ \A u \in Slice : seen[u] \in Early => hold'[u] = hold[u]
  BY <1>1, Types DEF LedgerTypes, Held, Early
<1>6. ApiTypes' /\ SeenTypes' /\ LedgerTypes' /\ QueueTypes' /\ CountTypes'
  BY <1>1, <1>2, <1>5, Types DEF ApiTypes, SeenTypes, LedgerTypes, QueueTypes, CountTypes
<1>7. SeenSane' /\ Charged' /\ PlanSane'
  BY <1>2, <1>4, <1>5, SeenKept, ChargedKept, PlanKept
<1>8. WorkerSane'
  <2>1. CASE seen[s] = "Pending"
    <3>1. (phase[s] \in Early \cup {"none"} \/ hold'[s] = "confirmed")
      BY <1>5, <2>1 DEF SeenSane, Charged, Bound, Early
    <3> QED  BY <1>2, <1>4, <2>1, <3>1 DEF WorkerSane, Binding, Unbound, Early
  <2>2. CASE seen[s] # "Pending"
    BY <1>4, <2>2 DEF WorkerSane, Planning, Binding
  <2> QED  BY <2>1, <2>2
<1> QED  BY <1>4, <1>6, <1>7, <1>8, InvAfter

LEMMA ScheduleStep ==
    ASSUME AdmissionInv, Schedule
    PROVE  AdmissionInv'
<1> USE DEF AdmissionInv
<1>1. /\ w.pc = "quota"
      /\ UNCHANGED <<setting, phase, stamp, since, by, seen, fresh, cooled, heap, again, faults>>
  BY DEF Schedule, PassFrame, api
<1>2. w \in Works /\ w.slice \in Slice /\ w.todo = {} /\ w.marked = {} /\ timer \subseteq Slice
      /\ (Unbound(w.slice) \/ hold[w.slice] \in {"confirmed", "allocated"})
  BY <1>1, Types DEF WorkerSane, QueueTypes
<1>3. \/ /\ hold[w.slice] \in {"assumed", "none"} /\ hold' = [hold EXCEPT ![w.slice] = "assumed"]
         /\ Continue("bindSpec") \/ Retry
      \/ /\ hold[w.slice] # "assumed" /\ Continue("own") /\ UNCHANGED hold
      \/ Retry /\ UNCHANGED hold
  BY DEF Schedule
<1>4. Continue("bindSpec") \/ Continue("own") \/ Retry
  BY <1>3
<1>5. /\ w' \in Works /\ w'.slice = w.slice /\ w'.todo = {} /\ w'.marked = {}
      /\ timer' \subseteq Slice
      /\ Continue("bindSpec") => w'.pc = "bindSpec"
      /\ Continue("own") => w'.pc = "own"
      /\ Retry => w'.pc = "done"
  <2>1. "bindSpec" \in Steps /\ "own" \in Steps
    BY DEF Steps
  <2> QED  BY <1>2, <1>4, <2>1, Requeued, GoesOn DEF Continue
<1>6. hold' \in [Slice -> Held \cup {"none"}]
      /\ \A u \in Slice : hold[u] = "confirmed" => hold'[u] = "confirmed"
  BY <1>2, <1>3, Types DEF LedgerTypes, Held
<1>7. ApiTypes' /\ SeenTypes' /\ LedgerTypes' /\ QueueTypes' /\ CountTypes'
  BY <1>1, <1>5, <1>6, Types DEF ApiTypes, SeenTypes, LedgerTypes, QueueTypes, CountTypes
<1>8. SeenSane' /\ Charged' /\ PlanSane'
  BY <1>1, <1>3, <1>5, <1>6, SeenKept, ChargedKept, PlanKept
<1>9. WorkerSane'
  <2>1. w'.pc = "bindSpec" => hold'[w.slice] = "assumed"
    BY <1>2, <1>3, <1>5, Types DEF LedgerTypes
  <2>2. w'.pc = "bindSpec" => Unbound(w.slice)
    BY <1>2, <1>3, <1>5
  <2>3. w'.pc \in {"bindSpec", "own", "done"}
    BY <1>4, <1>5
  <2> QED  BY <1>1, <1>2, <1>5, <2>1, <2>2, <2>3 DEF WorkerSane, Planning, Binding, Unbound
<1> QED  BY <1>5, <1>7, <1>8, <1>9, InvAfter

(* A bind that fails leaves the slice as it is, without a hold.               *)
LEMMA NotBoundStep ==
    ASSUME AdmissionInv, w.pc \in Binding, NEW x, NotBound(x),
           UNCHANGED <<stamp, since, by, cooled>>, PassFrame
    PROVE  AdmissionInv'
<1> USE DEF AdmissionInv
<1> DEFINE s == w.slice
<1>1. /\ w \in Works /\ s \in Slice /\ Unbound(s) /\ timer \subseteq Slice
      /\ w.todo = {} /\ w.marked = {}
  BY Types DEF WorkerSane, QueueTypes, Binding
<1>2. /\ w' \in Works /\ w'.pc = "done" /\ w'.slice = s /\ w'.todo = {} /\ w'.marked = {}
      /\ timer' \subseteq Slice
  BY <1>1, Requeued DEF NotBound
<1>3. /\ UNCHANGED <<setting, phase, stamp, since, by, seen, fresh, cooled, heap, again>>
      /\ hold' = [hold EXCEPT ![s] = "none"]
  BY DEF NotBound, PassFrame
<1>4. ApiTypes' /\ SeenTypes' /\ LedgerTypes' /\ QueueTypes' /\ CountTypes'
  BY <1>1, <1>2, <1>3, Counted, Types DEF NotBound, ApiTypes, SeenTypes, LedgerTypes, QueueTypes
<1>5. SeenSane' /\ PlanSane' /\ WorkerSane'
  BY <1>2, <1>3, SeenKept, PlanKept DEF WorkerSane, Planning, Binding
<1>6. Charged'
  BY <1>1, <1>3, Types DEF Charged, Unbound, Early, Bound, LedgerTypes
<1> QED  BY <1>2, <1>4, <1>5, <1>6, InvAfter

LEMMA BindSpecStep ==
    ASSUME AdmissionInv, BindSpec
    PROVE  AdmissionInv'
<1> USE DEF AdmissionInv
<1> DEFINE s == w.slice
<1>1. w.pc = "bindSpec" /\ UNCHANGED <<setting, stamp, since, by, seen, cooled, heap, again>>
  BY DEF BindSpec, PassFrame
<1>2. CASE NotBound(phase[s] = "none")
  BY <1>1, <1>2, NotBoundStep DEF BindSpec, Binding
<1>3. CASE /\ phase[s] \in Early /\ phase' = [phase EXCEPT ![s] = "Assigned"]
           /\ fresh' = [fresh EXCEPT ![s] = @ /\ phase[s] = "Assigned"]
           /\ Continue("bindStatus") /\ UNCHANGED <<hold, faults>>
  <2>1. /\ w \in Works /\ s \in Slice /\ Unbound(s) /\ hold[s] = "assumed"
        /\ w.todo = {} /\ w.marked = {}
    BY <1>1, Types DEF WorkerSane, Binding
  <2>2. /\ w' \in Works /\ w'.pc = "bindStatus" /\ w'.slice = s /\ w'.todo = {}
        /\ w'.marked = {} /\ UNCHANGED timer
    <3>1. "bindStatus" \in Steps
      BY DEF Steps
    <3> QED  BY <1>3, <2>1, <3>1, GoesOn DEF Continue
  <2>3. phase' \in [Slice -> Phase] /\ fresh' \in [Slice -> BOOLEAN]
        /\ \A v \in Slice : phase'[v] = "Preempting" <=> phase[v] = "Preempting"
    BY <1>3, <2>1, Types DEF ApiTypes, SeenTypes, Phase, Bound, Early
  <2>4. ApiTypes' /\ SeenTypes' /\ LedgerTypes' /\ QueueTypes' /\ CountTypes'
    BY <1>1, <1>3, <2>2, <2>3, Types
       DEF ApiTypes, SeenTypes, LedgerTypes, QueueTypes, CountTypes
  <2>5. SeenSane' /\ Charged'
    BY <1>1, <1>3, <2>1, Types DEF SeenSane, Charged, Unbound, Early, Bound, ApiTypes, SeenTypes
  <2>6. WorkerSane'
    BY <1>1, <1>3, <2>1, <2>2, Types
       DEF WorkerSane, Planning, Binding, Unbound, Early, ApiTypes
  <2>7. PlanSane'
    BY <1>1, <1>3, <2>2, <2>3, Types DEF PlanSane, Drains, ApiTypes, Early
  <2> QED  BY <2>2, <2>4, <2>5, <2>6, <2>7, InvAfter
<1> QED  BY <1>2, <1>3 DEF BindSpec, Early

LEMMA BindStatusStep ==
    ASSUME AdmissionInv, BindStatus
    PROVE  AdmissionInv'
<1> USE DEF AdmissionInv
<1> DEFINE s == w.slice
<1>1. w.pc = "bindStatus" /\ UNCHANGED <<setting, stamp, since, by, seen, cooled, heap, again>>
  BY DEF BindStatus, PassFrame
<1>2. CASE NotBound(phase[s] = "none")
  BY <1>1, <1>2, NotBoundStep DEF BindStatus, Binding
<1>3. CASE /\ phase[s] = "Assigned" /\ phase' = [phase EXCEPT ![s] = "Scheduled"]
           /\ fresh' = [fresh EXCEPT ![s] = FALSE] /\ hold' = [hold EXCEPT ![s] = "confirmed"]
           /\ Continue("done") /\ UNCHANGED faults
  <2>1. w \in Works /\ s \in Slice /\ Unbound(s) /\ w.todo = {} /\ w.marked = {}
    BY <1>1, Types DEF WorkerSane, Binding
  <2>2. /\ w' \in Works /\ w'.pc = "done" /\ w'.slice = s /\ w'.todo = {}
        /\ w'.marked = {} /\ UNCHANGED timer
    <3>1. "done" \in Steps
      BY DEF Steps
    <3> QED  BY <1>3, <2>1, <3>1, GoesOn DEF Continue
  <2>3. ApiTypes' /\ SeenTypes' /\ LedgerTypes'
    BY <1>1, <1>3, <2>1, Types DEF ApiTypes, SeenTypes, LedgerTypes, Held, Phase, Bound
  <2>4. QueueTypes' /\ CountTypes' /\ WorkerSane'
    BY <1>1, <1>3, <2>1, <2>2, Types DEF QueueTypes, CountTypes, WorkerSane, Planning, Binding
  <2>5. SeenSane' /\ Charged'
    BY <1>1, <1>3, <2>1, Types
       DEF SeenSane, Charged, Unbound, Early, Bound, ApiTypes, SeenTypes, LedgerTypes
  <2>6. PlanSane'
    BY <1>1, <1>3, <2>2, Types DEF PlanSane, Drains, ApiTypes
  <2> QED  BY <2>2, <2>3, <2>4, <2>5, <2>6, InvAfter
<1> QED  BY <1>2, <1>3 DEF BindStatus

-----------------------------------------------------------------------------
(* The preemptor.                                                          *)

(* A requester whose victims drain has a stamp that is younger than the      *)
(* window.                                                                   *)
LEMMA Stamped ==
    ASSUME AdmissionInv, NEW u \in Slice, NEW r \in Slice, Drains(u, r)
    PROVE  stamp[r] \notin {Unset, Window} /\ phase[r] # "none"
<1> USE DEF AdmissionInv
<1>1. /\ u \in Preemptible /\ phase[r] # "none" /\ stamp[r] = since[u]
      /\ since[u] < Grace[u] + Buffer
  BY DEF PlanSane
<1>2. since[u] # Unset /\ since[u] \in Unset..LastAge
  BY Types DEF ApiTypes, Drains
<1>3. Grace[u] + Buffer <= Window /\ Grace[u] \in Nat /\ Buffer \in Nat /\ Window \in Nat
      /\ LastAge \in Nat
  BY <1>1, Ages, AdmissionAssumption
<1> QED  BY <1>1, <1>2, <1>3 DEF Unset

LEMMA OwnStep ==
    ASSUME AdmissionInv, claimPlanOwnership
    PROVE  AdmissionInv'
<1> USE DEF AdmissionInv
<1> DEFINE s == w.slice
<1>1. w.pc = "own"
      /\ UNCHANGED <<setting, phase, since, by, seen, hold, cooled, heap, again>>
  BY DEF claimPlanOwnership, PassFrame
<1>2. w \in Works /\ s \in Slice /\ timer \subseteq Slice /\ w.todo = {} /\ w.marked = {}
  BY <1>1, Types DEF WorkerSane, QueueTypes
<1>3. /\ w' \in Works /\ w'.slice = s /\ w'.todo = {} /\ w'.marked = {}
      /\ timer' \subseteq Slice /\ w'.pc \in {"select", "done"}
      /\ Retry => w'.pc = "done"
  <2>1. "select" \in Steps
    BY DEF Steps
  <2> QED  BY <1>2, <2>1, Requeued, GoesOn DEF claimPlanOwnership, Continue
<1>4. CountTypes'
  BY Counted, Types DEF claimPlanOwnership
<1>5. WorkerSane'
  BY <1>1, <1>2, <1>3 DEF WorkerSane, Planning, Binding
<1>6. QueueTypes' /\ LedgerTypes'
  BY <1>1, <1>3, Types DEF QueueTypes, LedgerTypes
<1>7. Charged'
  BY <1>1, ChargedKept
<1>8. CASE /\ stamp[s] \in {Unset, Window} /\ stamp' = [stamp EXCEPT ![s] = 0]
           /\ fresh' = [fresh EXCEPT ![s] = FALSE]
  <2>1. 0 \in Unset..Window
    BY Ages DEF Unset
  <2>2. ApiTypes' /\ SeenTypes'
    BY <1>1, <1>8, <2>1, Types DEF ApiTypes, SeenTypes
  <2>3. SeenSane'
    BY <1>1, <1>8, Types DEF SeenSane, SeenTypes
  <2>4. \A u \in Slice : ~Drains(u, s)
    BY <1>2, <1>8, Stamped
  <2>5. stamp'[s] = 0 /\ \A r \in Slice \ {s} : stamp'[r] = stamp[r]
    BY <1>2, <1>8, Types DEF ApiTypes
  <2>6. \A u \in Slice, r \in Slice : Drains(u, r)' <=> Drains(u, r)
    BY <1>1 DEF Drains
  <2>7. PlanSane'
    <3>1. ASSUME NEW u \in Slice, NEW r \in Slice, Drains(u, r)'
          PROVE  (/\ u \in Preemptible /\ phase[r] # "none"
                  /\ stamp[r] = since[u] /\ since[u] < Grace[u] + Buffer)'
      <4>1. Drains(u, r) /\ r # s
        BY <2>4, <2>6, <3>1
      <4>2. /\ u \in Preemptible /\ phase[r] # "none"
            /\ stamp[r] = since[u] /\ since[u] < Grace[u] + Buffer
        BY <4>1 DEF PlanSane
      <4> QED  BY <1>1, <2>5, <4>1, <4>2
    <3>2. \A u \in Slice : ~Drains(u, s)'
      BY <1>2, <1>3, <2>4, <2>6
    <3> QED  BY <1>3, <2>5, <3>1, <3>2 DEF PlanSane
  <2> QED  BY <1>3, <1>4, <1>5, <1>6, <1>7, <2>2, <2>3, <2>7, InvAfter
<1>9. CASE Retry /\ UNCHANGED <<stamp, fresh>>
  <2>1. ApiTypes' /\ SeenTypes'
    BY <1>1, <1>9, Types DEF ApiTypes, SeenTypes
  <2>2. SeenSane' /\ PlanSane'
    BY <1>1, <1>3, <1>9, SeenKept, PlanKept
  <2> QED  BY <1>3, <1>4, <1>5, <1>6, <1>7, <2>1, <2>2, InvAfter
<1> QED  BY <1>8, <1>9 DEF claimPlanOwnership

LEMMA Victims ==
    ASSUME NEW s, NEW P \in Plans(s)
    PROVE  P \subseteq Preemptible \cap Slice
<1>1. Candidates(s) \subseteq Preemptible \cap Slice
  BY DEF Candidates
<1>2. P \subseteq Candidates(s)
  BY DEF Plans
<1> QED  BY <1>1, <1>2

(* Between two marks, and when the plan is made or given up.                 *)
LEMMA PlanningStep ==
    ASSUME AdmissionInv, TryPreempt \/ PlanMade \/ RolledBack
    PROVE  AdmissionInv'
<1> USE DEF AdmissionInv
<1>1. /\ w.pc \in {"select", "mark", "rollback"}
      /\ UNCHANGED <<setting, phase, stamp, since, by, seen, fresh, hold, heap, again, faults>>
  BY DEF TryPreempt, PlanMade, RolledBack, PassFrame, api
<1>2. w \in Works /\ w.slice \in Slice /\ timer \subseteq Slice
      /\ w.todo \cap w.marked = {}
  BY <1>1, Types DEF WorkerSane, QueueTypes
<1>3. CASE Retry
  <2>1. /\ w' \in Works /\ w'.slice = w.slice /\ w'.pc = "done" /\ w'.todo = w.todo
        /\ w'.marked = w.marked /\ timer' \subseteq Slice
    BY <1>2, <1>3, Requeued
  <2>2. cooled' \subseteq Slice
    BY <1>2, Types DEF TryPreempt, PlanMade, RolledBack, QueueTypes, Works
  <2>3. ApiTypes' /\ SeenTypes' /\ LedgerTypes' /\ QueueTypes' /\ CountTypes'
    BY <1>1, <2>1, <2>2, Types DEF ApiTypes, SeenTypes, LedgerTypes, QueueTypes, CountTypes
  <2>4. SeenSane' /\ Charged' /\ PlanSane'
    BY <1>1, <2>1, SeenKept, ChargedKept, PlanKept
  <2>5. WorkerSane'
    BY <1>2, <2>1 DEF WorkerSane, Planning, Binding
  <2> QED  BY <2>1, <2>3, <2>4, <2>5, InvAfter
<1>4. ASSUME TryPreempt, NEW P \in Plans(w.slice),
             w' = [w EXCEPT !.pc = "mark", !.todo = P], UNCHANGED timer
      PROVE  AdmissionInv'
  <2>1. P \subseteq Preemptible /\ P \in SUBSET Slice
    BY Victims
  <2>2. w.pc = "select" /\ UNCHANGED cooled /\ w.marked = {}
    BY <1>4 DEF TryPreempt, WorkerSane
  <2>3. /\ w' \in Works /\ w'.slice = w.slice /\ w'.pc = "mark" /\ w'.todo = P
        /\ w'.marked = {}
    <3>1. "mark" \in Steps
      BY DEF Steps
    <3> QED  BY <1>2, <1>4, <2>1, <2>2, <3>1, PicksVictims
  <2>4. ApiTypes' /\ SeenTypes' /\ LedgerTypes' /\ QueueTypes' /\ CountTypes'
    BY <1>1, <1>4, <2>2, Types DEF ApiTypes, SeenTypes, LedgerTypes, QueueTypes, CountTypes
  <2>5. SeenSane' /\ Charged' /\ PlanSane'
    BY <1>1, <2>2, <2>3, SeenKept, ChargedKept, PlanKept
  <2>6. WorkerSane'
    BY <1>1, <1>2, <2>1, <2>3 DEF WorkerSane, Planning, Binding
  <2> QED  BY <2>3, <2>4, <2>5, <2>6, InvAfter
<1> QED  BY <1>3, <1>4 DEF TryPreempt, PlanMade, RolledBack

(* A mark: the victim is Ready, and drains from now on for the requester.    *)
MarkWritten(v) ==
    /\ seen[v] = "Ready" /\ fresh[v]
    /\ phase' = [phase EXCEPT ![v] = "Preempting"]
    /\ since' = [since EXCEPT ![v] = 0]
    /\ by' = [by EXCEPT ![v] = Requester]
    /\ fresh' = [fresh EXCEPT ![v] = FALSE]

LEMMA MarkStep ==
    ASSUME AdmissionInv, markVictimsPreempting
    PROVE  AdmissionInv'
<1> USE DEF AdmissionInv
<1> DEFINE s == w.slice
<1>1. /\ w.pc = "mark"
      /\ UNCHANGED <<setting, stamp, seen, hold, cooled, heap, again, timer>>
  BY DEF markVictimsPreempting, PassFrame
<1>2. /\ w \in Works /\ s \in Slice /\ w.todo \subseteq Preemptible
      /\ w.todo \cap w.marked = {} /\ w.todo \subseteq Slice /\ s # Nobody
      /\ phase[s] = "none" \/ stamp[s] = 0
  BY <1>1, Types, AdmissionAssumption DEF WorkerSane, PlanSane, Works
<1>3. CountTypes'
  BY Counted, Types DEF markVictimsPreempting
<1>4. QueueTypes' /\ LedgerTypes'
  BY <1>1, Types DEF QueueTypes, LedgerTypes
<1>5. PICK v \in w.todo :
         \/ /\ w' = [w EXCEPT !.todo = @ \ {v}, !.marked = @ \cup {v}]
            /\ MarkWritten(v) \/ UNCHANGED <<phase, since, by, fresh>>
         \/ /\ w' = [w EXCEPT !.pc = "rollback", !.todo = {}]
            /\ UNCHANGED <<phase, since, by, fresh>>
  BY DEF markVictimsPreempting, MarkWritten
<1>6. v \in Slice /\ v \in Preemptible
  BY <1>2, <1>5
<1>7. /\ w' \in Works /\ w'.slice = s
      /\ \/ w'.pc = "mark" /\ w'.todo = w.todo \ {v} /\ w'.marked = w.marked \cup {v}
         \/ w'.pc = "rollback" /\ w'.todo = {} /\ w'.marked = w.marked /\ ~MarkWritten(v)
  <2>1. CASE w' = [w EXCEPT !.todo = @ \ {v}, !.marked = @ \cup {v}]
    BY <1>1, <1>2, <1>6, <2>1, Marks
  <2>2. CASE w' = [w EXCEPT !.pc = "rollback", !.todo = {}] /\ UNCHANGED <<phase, since, by, fresh>>
    <3>1. "rollback" \in Steps /\ {} \in SUBSET Slice
      BY DEF Steps
    <3>2. ~MarkWritten(v)
      BY <1>6, <2>2, Types DEF MarkWritten, SeenTypes
    <3> QED  BY <1>2, <2>2, <3>1, <3>2, PicksVictims
  <2> QED  BY <1>5, <2>1, <2>2
<1>8. CASE UNCHANGED <<phase, since, by, fresh>>
  <2>1. ApiTypes' /\ SeenTypes'
    BY <1>1, <1>8, Types DEF ApiTypes, SeenTypes
  <2>2. SeenSane' /\ Charged' /\ PlanSane'
    BY <1>1, <1>7, <1>8, SeenKept, ChargedKept, PlanKept
  <2>3. WorkerSane'
    BY <1>1, <1>2, <1>7, <1>8 DEF WorkerSane, Planning, Binding
  <2> QED  BY <1>3, <1>4, <1>7, <2>1, <2>2, <2>3, InvAfter
<1>9. CASE MarkWritten(v)
  <2>1. phase[v] = "Ready" /\ seen[v] = "Ready"
    BY <1>2, <1>6, <1>9 DEF MarkWritten, SeenSane
  <2>2. /\ phase'[v] = "Preempting" /\ since'[v] = 0 /\ by'[v] = Requester /\ fresh'[v] = FALSE
        /\ \A u \in Slice \ {v} : /\ phase'[u] = phase[u] /\ since'[u] = since[u]
                                  /\ by'[u] = by[u] /\ fresh'[u] = fresh[u]
    BY <1>6, <1>9, Types DEF MarkWritten, ApiTypes, SeenTypes
  <2>3. Requester \in Slice \cup {Nobody} /\ 0 \in Unset..LastAge
        /\ Grace[v] + Buffer > 0
    BY <1>2, <1>6, Ages, AdmissionAssumption DEF Requester, Unset
  <2>4. /\ phase' \in [Slice -> Phase] /\ since' \in [Slice -> Unset..LastAge]
        /\ by' \in [Slice -> Slice \cup {Nobody}] /\ fresh' \in [Slice -> BOOLEAN]
    BY <1>9, <2>3, Types DEF MarkWritten, ApiTypes, SeenTypes, Phase, Bound
  <2>5. ApiTypes' /\ SeenTypes'
    BY <1>1, <2>2, <2>4, Types DEF ApiTypes, SeenTypes, Unset
  <2>6. SeenSane' /\ Charged'
    BY <1>1, <2>1, <2>2 DEF SeenSane, Charged, Bound
  <2>7. WorkerSane'
    BY <1>1, <1>2, <1>7, <2>1, <2>2, <1>9 DEF WorkerSane, Planning, Binding
  <2>8. \A u \in Slice \ {v}, r \in Slice : Drains(u, r)' <=> Drains(u, r)
    BY <2>2 DEF Drains
  <2>9. \A r \in Slice : Drains(v, r)' => r = s /\ phase[s] # "none"
    BY <1>2, <2>2 DEF Drains, Requester
  <2>10. PlanSane'
    <3>1. ASSUME NEW u \in Slice, NEW r \in Slice, Drains(u, r)'
          PROVE  (/\ u \in Preemptible /\ phase[r] # "none"
                  /\ stamp[r] = since[u] /\ since[u] < Grace[u] + Buffer)'
      <4>1. CASE u = v
        BY <1>1, <1>2, <1>6, <2>1, <2>2, <2>3, <2>9, <3>1, <4>1
      <4>2. CASE u # v
        <5>1. Drains(u, r)
          BY <2>8, <3>1, <4>2
        <5>2. /\ u \in Preemptible /\ phase[r] # "none"
              /\ stamp[r] = since[u] /\ since[u] < Grace[u] + Buffer
          BY <5>1 DEF PlanSane
        <5> QED  BY <1>1, <2>2, <4>2, <5>2
      <4> QED  BY <4>1, <4>2
    <3>2. \A u \in Slice : Drains(u, s)' => u \in w'.marked
      BY <1>1, <1>2, <1>7, <1>9, <2>8 DEF PlanSane
    <3>3. (phase[s] = "none" \/ stamp[s] = 0)'
      BY <1>1, <1>2, <1>7, <2>1, <2>2
    <3> QED  BY <1>7, <3>1, <3>2, <3>3 DEF PlanSane
  <2> QED  BY <1>3, <1>4, <1>7, <2>5, <2>6, <2>7, <2>10, InvAfter
<1> QED  BY <1>5, <1>8, <1>9

(* A mark that is taken back: the victim is Ready again.                     *)
LEMMA RollbackStep ==
    ASSUME AdmissionInv, rollbackPreemptingMarks
    PROVE  AdmissionInv'
<1> USE DEF AdmissionInv
<1> DEFINE s == w.slice
<1>1. /\ w.pc = "rollback"
      /\ UNCHANGED <<setting, stamp, seen, hold, cooled, heap, again, timer>>
  BY DEF rollbackPreemptingMarks, PassFrame
<1>2. /\ w \in Works /\ s \in Slice /\ w.todo \cap w.marked = {}
      /\ w.marked \subseteq Slice
      /\ phase[s] = "none" \/ stamp[s] = 0
  BY <1>1, Types DEF WorkerSane, PlanSane, Works
<1>3. CountTypes'
  BY Counted, Types DEF rollbackPreemptingMarks
<1>4. QueueTypes' /\ LedgerTypes'
  BY <1>1, Types DEF QueueTypes, LedgerTypes
<1>5. PICK v \in w.marked :
         /\ w' = [w EXCEPT !.marked = @ \ {v}]
         /\ \/ /\ seen[v] = "Preempting" /\ fresh[v]
               /\ phase' = [phase EXCEPT ![v] = "Ready"]
               /\ since' = [since EXCEPT ![v] = Unset]
               /\ by' = [by EXCEPT ![v] = Nobody]
               /\ fresh' = [fresh EXCEPT ![v] = FALSE]
            \/ UNCHANGED <<phase, since, by, fresh>>
  BY DEF rollbackPreemptingMarks
<1>6. v \in Slice
  BY <1>2, <1>5
<1>7. /\ w' \in Works /\ w'.pc = "rollback" /\ w'.slice = s /\ w'.todo = w.todo
      /\ w'.marked = w.marked \ {v}
  BY <1>1, <1>2, <1>5, Unmarks
<1>8. CASE UNCHANGED <<phase, since, by, fresh>>
  <2>1. ApiTypes' /\ SeenTypes'
    BY <1>1, <1>8, Types DEF ApiTypes, SeenTypes
  <2>2. SeenSane' /\ Charged' /\ PlanSane'
    BY <1>1, <1>7, <1>8, SeenKept, ChargedKept, PlanKept
  <2>3. WorkerSane'
    BY <1>1, <1>2, <1>7, <1>8 DEF WorkerSane, Planning, Binding
  <2> QED  BY <1>3, <1>4, <1>7, <2>1, <2>2, <2>3, InvAfter
<1>9. CASE /\ seen[v] = "Preempting" /\ fresh[v]
           /\ phase' = [phase EXCEPT ![v] = "Ready"]
           /\ since' = [since EXCEPT ![v] = Unset]
           /\ by' = [by EXCEPT ![v] = Nobody]
           /\ fresh' = [fresh EXCEPT ![v] = FALSE]
  <2>1. phase[v] = "Preempting"
    BY <1>2, <1>6, <1>9 DEF SeenSane
  <2>2. /\ phase'[v] = "Ready" /\ since'[v] = Unset /\ by'[v] = Nobody /\ fresh'[v] = FALSE
        /\ \A u \in Slice \ {v} : /\ phase'[u] = phase[u] /\ since'[u] = since[u]
                                  /\ by'[u] = by[u] /\ fresh'[u] = fresh[u]
    BY <1>6, <1>9, Types DEF ApiTypes, SeenTypes
  <2>3. Unset \in Unset..LastAge
    BY <1>6, Ages DEF Unset
  <2>4. /\ phase' \in [Slice -> Phase] /\ since' \in [Slice -> Unset..LastAge]
        /\ by' \in [Slice -> Slice \cup {Nobody}] /\ fresh' \in [Slice -> BOOLEAN]
    BY <1>9, <2>3, Types DEF ApiTypes, SeenTypes, Phase, Bound
  <2>5. ApiTypes' /\ SeenTypes'
    BY <1>1, <2>2, <2>4, Types DEF ApiTypes, SeenTypes
  <2>6. SeenSane' /\ Charged'
    BY <1>1, <1>9, <2>2 DEF SeenSane, Charged, Bound
  <2>7. WorkerSane'
    BY <1>1, <1>2, <1>7, <2>1, <2>2 DEF WorkerSane, Planning, Binding
  <2>8. PlanSane'
    <3>1. ASSUME NEW u \in Slice, NEW r \in Slice, Drains(u, r)'
          PROVE  (/\ u \in Preemptible /\ phase[r] # "none"
                  /\ stamp[r] = since[u] /\ since[u] < Grace[u] + Buffer)'
      <4>1. Drains(u, r) /\ u # v
        BY <2>2, <3>1 DEF Drains
      <4>2. /\ u \in Preemptible /\ phase[r] # "none"
            /\ stamp[r] = since[u] /\ since[u] < Grace[u] + Buffer
        BY <4>1 DEF PlanSane
      <4> QED  BY <1>1, <2>2, <4>1, <4>2
    <3>2. (phase[s] = "none" \/ stamp[s] = 0)'
      BY <1>1, <1>2, <1>7, <2>1, <2>2
    <3> QED  BY <1>7, <3>1, <3>2 DEF PlanSane
  <2> QED  BY <1>3, <1>4, <1>7, <2>5, <2>6, <2>7, <2>8, InvAfter
<1> QED  BY <1>5, <1>8, <1>9

-----------------------------------------------------------------------------
(* Beside the worker.                                                      *)

LEMMA DeliverStep ==
    ASSUME AdmissionInv, NEW s \in Slice, Deliver(s)
    PROVE  AdmissionInv'
<1> USE DEF AdmissionInv
<1>1. /\ seen' = [seen EXCEPT ![s] = phase[s]] /\ fresh' = [fresh EXCEPT ![s] = TRUE]
      /\ UNCHANGED <<setting, phase, stamp, since, by, hold, cooled, timer, w, faults>>
  BY DEF Deliver, api
<1>2. heap' \subseteq Slice /\ again' \subseteq Slice
  BY Adds, Types DEF Deliver
<1>3. /\ seen'[s] = phase[s] /\ fresh'[s] = TRUE
      /\ \A u \in Slice \ {s} : seen'[u] = seen[u] /\ fresh'[u] = fresh[u]
  BY <1>1, Types DEF SeenTypes
<1>4. ApiTypes' /\ SeenTypes' /\ LedgerTypes' /\ QueueTypes' /\ CountTypes' /\ (w \in Works)'
  BY <1>1, <1>2, Types DEF ApiTypes, SeenTypes, LedgerTypes, QueueTypes, CountTypes
<1>5. SeenSane'
  BY <1>1, <1>3 DEF SeenSane
<1>6. Charged'
  BY <1>1, <1>3 DEF Charged, Early, Bound
<1>7. PlanSane'
  BY <1>1, PlanKept
<1>8. \A u \in Slice : Unbound(u) => Unbound(u)'
  BY <1>1, <1>3 DEF Unbound, Early
<1>9. WorkerSane'
  BY <1>1, <1>8 DEF WorkerSane, Planning, Binding
<1> QED  BY <1>4, <1>5, <1>6, <1>7, <1>9, InvAfter

LEMMA HoldStep ==
    ASSUME AdmissionInv, NodeWalk \/ reapExpiredAssumptions
    PROVE  AdmissionInv'
<1> USE DEF AdmissionInv
<1>1. UNCHANGED <<setting, phase, stamp, since, by, seen, fresh, cooled, heap, again, timer, w>>
  BY DEF NodeWalk, reapExpiredAssumptions, api, queue
<1>2. CountTypes'
  BY Counted, Types DEF NodeWalk, reapExpiredAssumptions
<1>3. hold' \in [Slice -> Held \cup {"none"}]
      /\ \A u \in Slice : \/ hold'[u] = hold[u]
                          \/ seen[u] = "Ready" /\ hold'[u] = "allocated"
                          \/ u # w.slice /\ hold[u] = "assumed"
  <2>1. CASE NodeWalk
    BY <2>1, Types DEF NodeWalk, LedgerTypes, Held
  <2>2. CASE reapExpiredAssumptions
    BY <2>2, Types DEF reapExpiredAssumptions, LedgerTypes
  <2> QED  BY <2>1, <2>2
<1>4. ApiTypes' /\ SeenTypes' /\ LedgerTypes' /\ QueueTypes' /\ (w \in Works)'
  BY <1>1, <1>3, Types DEF ApiTypes, SeenTypes, LedgerTypes, QueueTypes
<1>5. SeenSane' /\ PlanSane'
  BY <1>1, SeenKept, PlanKept
<1>6. Charged'
  BY <1>1, <1>3 DEF Charged, Early
<1>7. WorkerSane'
  BY <1>1, <1>3 DEF WorkerSane, Planning, Binding, Unbound, Early
<1> QED  BY <1>2, <1>4, <1>5, <1>6, <1>7, InvAfter

LEMMA OlderTypes ==
    ASSUME NEW cap \in Nat, NEW age \in Unset..cap
    PROVE  /\ Older(age, cap) \in Unset..cap /\ (Older(age, cap) = Unset <=> age = Unset)
           /\ age \notin {Unset, cap} => Older(age, cap) = age + 1
  BY DEF Older, Unset

(* A stamp and the age of its victims grow together.                         *)
LEMMA TickStep ==
    ASSUME AdmissionInv, Tick
    PROVE  AdmissionInv'
<1> USE DEF AdmissionInv
<1>1. /\ w.pc = "idle" /\ \A v \in Slice : since[v] + 1 < Grace[v] + Buffer
      /\ stamp' = [s \in Slice |-> Older(stamp[s], Window)]
      /\ since' = [s \in Slice |-> Older(since[s], Grace[s] + Buffer - 1)]
      /\ UNCHANGED <<setting, phase, by, seen, fresh, hold, cooled, heap, again, timer, w, faults>>
  BY DEF Tick, queue
<1>2. \A v \in Slice : /\ stamp[v] \in Unset..Window /\ since[v] \in Unset..LastAge
                       /\ LastAge \in Nat /\ Grace[v] \in Nat \ {0} /\ Buffer \in Nat \ {0}
                       /\ Grace[v] + Buffer - 1 <= LastAge /\ Grace[v] + Buffer - 1 \in Nat
  BY Types, Ages, AdmissionAssumption DEF ApiTypes
<1>3. \A v \in Slice : since[v] \in Unset..(Grace[v] + Buffer - 1)
                       /\ since[v] # Grace[v] + Buffer - 1
  BY <1>1, <1>2 DEF Unset
<1>4. \A v \in Slice : /\ since'[v] \in Unset..LastAge /\ (since'[v] = Unset <=> since[v] = Unset)
                       /\ since[v] # Unset => since'[v] = since[v] + 1
  <2> SUFFICES ASSUME NEW v \in Slice
               PROVE  /\ since'[v] \in Unset..LastAge /\ (since'[v] = Unset <=> since[v] = Unset)
                      /\ since[v] # Unset => since'[v] = since[v] + 1
    OBVIOUS
  <2>1. since'[v] = Older(since[v], Grace[v] + Buffer - 1)
    BY <1>1
  <2>2. /\ since'[v] \in Unset..(Grace[v] + Buffer - 1)
        /\ (since'[v] = Unset <=> since[v] = Unset)
        /\ since[v] # Unset => since'[v] = since[v] + 1
    BY <1>2, <1>3, <2>1, OlderTypes
  <2> QED  BY <1>2, <2>2 DEF Unset
<1>5. \A v \in Slice : /\ stamp'[v] \in Unset..Window
                       /\ stamp[v] \notin {Unset, Window} => stamp'[v] = stamp[v] + 1
  BY <1>1, <1>2, Ages, OlderTypes
<1>6. /\ stamp' \in [Slice -> Unset..Window] /\ since' \in [Slice -> Unset..LastAge]
  <2>1. DOMAIN stamp' = Slice /\ DOMAIN since' = Slice
        /\ stamp' = [s \in Slice |-> stamp'[s]] /\ since' = [s \in Slice |-> since'[s]]
    BY <1>1
  <2> QED  BY <1>4, <1>5, <2>1
<1>7. ApiTypes'
  BY <1>1, <1>4, <1>6, Types DEF ApiTypes
<1>8. SeenTypes' /\ LedgerTypes' /\ QueueTypes' /\ CountTypes' /\ (w \in Works)'
  BY <1>1, Types DEF SeenTypes, LedgerTypes, QueueTypes, CountTypes
<1>9. SeenSane' /\ Charged' /\ WorkerSane'
  BY <1>1, SeenKept, ChargedKept DEF WorkerSane, Planning, Binding
<1>10. PlanSane'
  <2>1. ASSUME NEW u \in Slice, NEW r \in Slice, Drains(u, r)'
        PROVE  (/\ u \in Preemptible /\ phase[r] # "none"
                /\ stamp[r] = since[u] /\ since[u] < Grace[u] + Buffer)'
    <3>1. Drains(u, r)
      BY <1>1, <2>1 DEF Drains
    <3>2. stamp[r] \notin {Unset, Window} /\ phase[r] # "none"
      BY <3>1, Stamped
    <3>3. u \in Preemptible /\ stamp[r] = since[u] /\ since[u] # Unset
      BY <3>1, <3>2 DEF PlanSane
    <3>4. since'[u] = since[u] + 1 /\ stamp'[r] = stamp[r] + 1
      BY <1>4, <1>5, <3>2, <3>3
    <3> QED  BY <1>1, <3>2, <3>3, <3>4
  <2> QED  BY <1>1, <2>1 DEF PlanSane
<1> QED  BY <1>7, <1>8, <1>9, <1>10, InvAfter

(* The phases that a slice goes through without the worker.                  *)
Changes == {<<"none", "Pending">>, <<"Scheduled", "Ready">>, <<"Preempting", "Releasing">>,
            <<"Releasing", "Released">>, <<"Ready", "Releasing">>, <<"Pending", "none">>,
            <<"Assigned", "none">>, <<"Released", "none">>}

FaultStep == UNCHANGED faults \/ \E f : GoesWrong(f)

MoveAlone(s, p, q) ==
    /\ <<p, q>> \in Changes /\ phase[s] = p /\ seen[s] = p /\ (p = "none" => w.slice # s)
    /\ phase' = [phase EXCEPT ![s] = q]
    /\ fresh' = [fresh EXCEPT ![s] = FALSE]
    /\ since' = [since EXCEPT ![s] = Unset]
    /\ stamp' = IF q \in {"Pending", "none"} THEN [stamp EXCEPT ![s] = Unset] ELSE stamp
    /\ by' = [v \in Slice |-> IF v = s \/ (q = "none" /\ by[v] = s) THEN Nobody ELSE by[v]]
    /\ UNCHANGED <<setting, seen, hold, cooled, heap, again, timer, w>>
    /\ FaultStep

Lives == Create \/ Allocate \/ GraceOver \/ Release \/ Ends \/ Delete

LEMMA MoveIs ==
    ASSUME NEW s \in Slice, NEW from, NEW q, Moves(s, from, q), FaultStep,
           \A p \in from : <<p, q>> \in Changes, phase[s] = "none" => w.slice # s
    PROVE  \E u \in Slice, p \in Phase, r \in Phase : MoveAlone(u, p, r)
<1>1. phase[s] \in from /\ <<phase[s], q>> \in Changes
  BY DEF Moves
<1>2. phase[s] \in Phase /\ q \in Phase
  BY <1>1 DEF Changes, Phase, Bound
<1>3. MoveAlone(s, phase[s], q)
  BY <1>1 DEF Moves, MoveAlone, queue
<1> QED  BY <1>2, <1>3

LEMMA MovesAre ==
    ASSUME Lives
    PROVE  \E s \in Slice, p \in Phase, q \in Phase : MoveAlone(s, p, q)
<1>1. CASE Create
  <2>1. PICK s \in Slice : w.slice # s /\ Moves(s, {"none"}, "Pending")
    BY <1>1 DEF Create
  <2>2. \A p \in {"none"} : <<p, "Pending">> \in Changes
    BY DEF Changes
  <2>3. FaultStep
    BY <1>1 DEF Create, FaultStep
  <2> QED  BY <2>1, <2>2, <2>3, MoveIs
<1>2. CASE Allocate
  <2>1. PICK s \in Slice : Moves(s, {"Scheduled"}, "Ready") /\ UNCHANGED faults
    BY <1>2 DEF Allocate
  <2>2. phase[s] # "none" /\ \A p \in {"Scheduled"} : <<p, "Ready">> \in Changes
    BY <2>1 DEF Moves, Changes
  <2>3. FaultStep
    BY <2>1 DEF FaultStep
  <2> QED  BY <2>1, <2>2, <2>3, MoveIs
<1>3. CASE GraceOver
  <2>1. PICK s \in Slice : Moves(s, {"Preempting"}, "Releasing") /\ UNCHANGED faults
    BY <1>3 DEF GraceOver
  <2>2. phase[s] # "none" /\ \A p \in {"Preempting"} : <<p, "Releasing">> \in Changes
    BY <2>1 DEF Moves, Changes
  <2>3. FaultStep
    BY <2>1 DEF FaultStep
  <2> QED  BY <2>1, <2>2, <2>3, MoveIs
<1>4. CASE Release
  <2>1. PICK s \in Slice : Moves(s, {"Releasing"}, "Released") /\ UNCHANGED faults
    BY <1>4 DEF Release
  <2>2. phase[s] # "none" /\ \A p \in {"Releasing"} : <<p, "Released">> \in Changes
    BY <2>1 DEF Moves, Changes
  <2>3. FaultStep
    BY <2>1 DEF FaultStep
  <2> QED  BY <2>1, <2>2, <2>3, MoveIs
<1>5. CASE Ends
  <2>1. PICK s \in Slice : Moves(s, {"Ready"}, "Releasing") /\ GoesWrong("release")
    BY <1>5 DEF Ends
  <2>2. phase[s] # "none" /\ \A p \in {"Ready"} : <<p, "Releasing">> \in Changes
    BY <2>1 DEF Moves, Changes
  <2>3. FaultStep
    BY <2>1 DEF FaultStep
  <2> QED  BY <2>1, <2>2, <2>3, MoveIs
<1>6. CASE Delete
  <2>1. PICK s \in Slice : /\ Moves(s, {"Pending", "Assigned", "Released"}, "none")
                           /\ GoesWrong("delete")
    BY <1>6 DEF Delete
  <2>2. /\ phase[s] # "none"
        /\ \A p \in {"Pending", "Assigned", "Released"} : <<p, "none">> \in Changes
    BY <2>1 DEF Moves, Changes
  <2>3. FaultStep
    BY <2>1 DEF FaultStep
  <2> QED  BY <2>1, <2>2, <2>3, MoveIs
<1> QED  BY <1>1, <1>2, <1>3, <1>4, <1>5, <1>6 DEF Lives

LEMMA LivesStep ==
    ASSUME AdmissionInv, Lives
    PROVE  AdmissionInv'
<1> USE DEF AdmissionInv
<1>0. PICK s \in Slice, p \in Phase, q \in Phase : MoveAlone(s, p, q)
  BY MovesAre
<1>1. /\ <<p, q>> \in Changes /\ phase[s] = p /\ seen[s] = p /\ (p = "none" => w.slice # s)
      /\ UNCHANGED <<setting, seen, hold, cooled, heap, again, timer, w>>
  BY <1>0 DEF MoveAlone
<1>2. CountTypes'
  BY <1>0, Counted, Types DEF MoveAlone, FaultStep
<1>3. /\ phase'[s] = q /\ fresh'[s] = FALSE /\ since'[s] = Unset /\ by'[s] = Nobody
      /\ stamp'[s] = IF q \in {"Pending", "none"} THEN Unset ELSE stamp[s]
      /\ \A u \in Slice \ {s} : /\ phase'[u] = phase[u] /\ fresh'[u] = fresh[u]
                                /\ since'[u] = since[u] /\ stamp'[u] = stamp[u]
                                /\ by'[u] = IF q = "none" /\ by[u] = s THEN Nobody ELSE by[u]
  BY <1>0, Types DEF MoveAlone, ApiTypes, SeenTypes
<1>4. Unset \in Unset..LastAge /\ Unset \in Unset..Window
  BY <1>0, Ages DEF Unset
<1>5. /\ phase' \in [Slice -> Phase] /\ fresh' \in [Slice -> BOOLEAN]
      /\ since' \in [Slice -> Unset..LastAge]
  BY <1>0, <1>4, Types DEF MoveAlone, ApiTypes, SeenTypes
<1>6. stamp' \in [Slice -> Unset..Window] /\ by' \in [Slice -> Slice \cup {Nobody}]
  BY <1>0, <1>4, Types DEF MoveAlone, ApiTypes
<1>7. q # "Preempting"
  BY <1>1 DEF Changes
<1>8. ApiTypes' /\ SeenTypes' /\ LedgerTypes' /\ QueueTypes' /\ (w \in Works)'
  <2>1. ApiTypes'
    BY <1>3, <1>5, <1>6, <1>7, Types DEF ApiTypes
  <2> QED  BY <1>1, <1>5, <2>1, Types DEF SeenTypes, LedgerTypes, QueueTypes
<1>9. SeenSane'
  BY <1>1, <1>3 DEF SeenSane, Changes
<1>10. Charged'
  BY <1>1, <1>3 DEF Charged, Changes, Bound, Early
<1>11. \A u \in Slice : u = w.slice /\ Unbound(u) => Unbound(u)'
  BY <1>1, <1>3 DEF Unbound, Changes, Early
<1>12. WorkerSane'
  BY <1>1, <1>11 DEF WorkerSane, Planning, Binding
<1>13. \A u \in Slice, r \in Slice : Drains(u, r)' =>
          Drains(u, r) /\ u # s /\ (r = s => q # "none")
  BY <1>3, <1>7 DEF Drains
<1>14. PlanSane'
  <2>1. ASSUME NEW u \in Slice, NEW r \in Slice, Drains(u, r)'
        PROVE  (/\ u \in Preemptible /\ phase[r] # "none"
                /\ stamp[r] = since[u] /\ since[u] < Grace[u] + Buffer)'
    <3>1. Drains(u, r) /\ u # s /\ (r = s => q # "none")
      BY <1>13, <2>1
    <3>2. /\ u \in Preemptible /\ phase[r] # "none"
          /\ stamp[r] = since[u] /\ since[u] < Grace[u] + Buffer
      BY <3>1 DEF PlanSane
    <3>3. r = s => q # "Pending"
      BY <1>1, <3>2 DEF Changes
    <3> QED  BY <1>3, <3>1, <3>2, <3>3
  <2>2. w.pc \in {"select", "mark", "rollback"} => (phase[w.slice] = "none" \/ stamp[w.slice] = 0)'
    <3> SUFFICES ASSUME w.pc \in {"select", "mark", "rollback"}
                 PROVE  phase'[w.slice] = "none" \/ stamp'[w.slice] = 0
      BY <1>1
    <3>1. w.slice \in Slice /\ (phase[w.slice] = "none" \/ stamp[w.slice] = 0)
      BY DEF WorkerSane, PlanSane
    <3>2. w.slice = s => q # "Pending" /\ phase[s] # "none"
      BY <1>1 DEF Changes
    <3> QED  BY <1>3, <3>1, <3>2
  <2>3. w.pc \in {"select", "mark"} => \A u \in Slice : Drains(u, w.slice)' => u \in w.marked
    BY <1>1, <1>13 DEF PlanSane, WorkerSane
  <2> QED  BY <1>1, <2>1, <2>2, <2>3 DEF PlanSane
<1> QED  BY <1>1, <1>2, <1>8, <1>9, <1>10, <1>12, <1>14, InvAfter

-----------------------------------------------------------------------------
(* Types and waves.                                                        *)

LEMMA AdmissionInit == Init => AdmissionInv
<1> SUFFICES ASSUME Init PROVE AdmissionInv
  OBVIOUS
<1>1. setting \in Settings /\ setting.running \subseteq Slice
  BY AdmissionAssumption DEF Init
<1>2. \A s \in Slice : Unset \in Unset..LastAge /\ Unset \in Unset..Window
  BY Ages DEF Unset
<1>3. Idle \in Works /\ Idle.pc = "idle" /\ Idle.slice = Nobody /\ Idle.todo = {}
      /\ Idle.marked = {}
  BY DEF Idle, Works, Steps
<1>4. ApiTypes
  BY <1>1, <1>2 DEF Init, ApiTypes, Phase, Bound
<1>5. SeenTypes /\ LedgerTypes
  BY <1>1 DEF Init, SeenTypes, LedgerTypes, Phase, Bound, Held
<1>6. QueueTypes /\ CountTypes
  BY AdmissionAssumption DEF Init, QueueTypes, CountTypes
<1>7. SeenSane /\ Charged
  BY DEF Init, SeenSane, Charged, Bound
<1>8. WorkerSane /\ PlanSane
  BY <1>3 DEF Init, WorkerSane, PlanSane, Planning, Binding, Drains
<1>9. w \in Works /\ w.todo \cap w.marked = {} /\ w.pc \notin Binding
  BY <1>3 DEF Init, Binding
<1> QED  BY <1>4, <1>5, <1>6, <1>7, <1>8, <1>9, Types DEF AdmissionInv

LEMMA AdmissionStep == AdmissionInv /\ [Next]_vars => AdmissionInv'
<1> SUFFICES ASSUME AdmissionInv, [Next]_vars PROVE AdmissionInv'
  OBVIOUS
<1>1. CASE UNCHANGED vars
  <2>1. UNCHANGED <<setting, phase, stamp, since, by, seen, fresh, hold, cooled, heap, again,
                    timer, w, faults>>
    BY <1>1 DEF vars, api, queue
  <2>2. ApiTypes' /\ SeenTypes' /\ LedgerTypes' /\ QueueTypes' /\ CountTypes' /\ (w \in Works)'
    BY <2>1, Types DEF AdmissionInv, ApiTypes, SeenTypes, LedgerTypes, QueueTypes, CountTypes
  <2>3. SeenSane' /\ Charged' /\ WorkerSane' /\ PlanSane'
    BY <2>1, SeenKept, ChargedKept DEF AdmissionInv, WorkerSane, PlanSane, Unbound, Drains
  <2> QED  BY <2>2, <2>3, InvAfter
<1>2. CASE Worker
  BY <1>2, ReconcileStep, ScheduleStep, BindSpecStep, BindStatusStep, DoneStep, OwnStep,
     PlanningStep, MarkStep, RollbackStep DEF Worker
<1>3. CASE \E s \in Slice : Fire(s) \/ Deliver(s)
  BY <1>3, QuietStep, DeliverStep
<1> QED  BY <1>1, <1>2, <1>3, QuietStep, HoldStep, TickStep, LivesStep DEF Next, Lives

(* The worker, the informer and the stamps fit to each other in every state.  *)
THEOREM AdmissionInvariant == Spec => []AdmissionInv
  BY AdmissionInit, AdmissionStep, PTL DEF Spec

(* Every state is well typed: a victim has its condition as long as it is     *)
(* Preempting, and only a slice that holds memory is bound.                   *)
THEOREM AdmissionTypeCorrect == Spec => []TypeOK
<1>1. AdmissionInv => TypeOK
  BY DEF AdmissionInv
<1> QED  BY <1>1, AdmissionInvariant, PTL

(* No second wave of victims, whatever the grace periods, and however often   *)
(* writes fail and the informer is behind.                                    *)
THEOREM WavesDoNotOverlap == Spec => NoSecondWave
<1>1. AdmissionInv /\ [Next]_vars =>
        [\A v \in Slice : phase[v] = "Ready" /\ phase'[v] = "Preempting" =>
           \A u \in Slice : phase[u] = "Preempting" /\ by[u] = Requester /\ by[u] # Nobody
                              => u \in w.marked]_vars
  <2> SUFFICES ASSUME AdmissionInv, Next, NEW v \in Slice, phase[v] = "Ready",
                      phase'[v] = "Preempting", NEW u \in Slice, phase[u] = "Preempting",
                      by[u] = Requester, by[u] # Nobody
               PROVE  u \in w.marked
    BY DEF vars, api
  <2>1. w.pc = "mark"
    <3>1. phase \in [Slice -> Phase]
      BY Types DEF AdmissionInv, ApiTypes
    <3>2. ASSUME Lives PROVE FALSE
      <4>1. PICK s \in Slice, p \in Phase, q \in Phase : MoveAlone(s, p, q)
        BY <3>2, MovesAre
      <4>2. q # "Preempting" /\ phase' = [phase EXCEPT ![s] = q]
        BY <4>1 DEF MoveAlone, Changes
      <4> QED  BY <3>1, <4>2
    <3>3. ASSUME BindSpec \/ BindStatus PROVE FALSE
      BY <3>1, <3>3 DEF BindSpec, BindStatus, NotBound
    <3>4. ASSUME rollbackPreemptingMarks PROVE FALSE
      BY <3>1, <3>4 DEF rollbackPreemptingMarks
    <3>5. \/ markVictimsPreempting \/ Lives \/ BindSpec \/ BindStatus \/ rollbackPreemptingMarks
          \/ UNCHANGED phase
      BY DEF Next, Worker, Lives, Reconcile, Schedule, Done, claimPlanOwnership, TryPreempt,
             PlanMade, RolledBack, Fire, Deliver, NodeWalk, reapExpiredAssumptions,
             CleanupCooldown, Tick, api
    <3> QED  BY <3>2, <3>3, <3>4, <3>5 DEF markVictimsPreempting
  <2>2. w.slice \in Slice /\ Drains(u, w.slice)
    BY <2>1 DEF AdmissionInv, WorkerSane, Drains, Requester
  <2> QED  BY <2>1, <2>2 DEF AdmissionInv, PlanSane
<1> QED  BY <1>1, AdmissionInvariant, PTL DEF Spec, NoSecondWave

-----------------------------------------------------------------------------
(* The quota.                                                              *)

Weight(S) == SumFunctionOnSet(setting.req, S)
BoundSlices == {s \in Slice : phase[s] \in Bound}

(* What the check has counted in the informer, and what is to be found in the *)
(* ledger and was not counted, is all that is bound beside the slice's gang.  *)
Listed ==
    \E O \in SUBSET Slice :
        /\ O \subseteq w.counted /\ w.used = Weight(O)
        /\ \A u \in BoundSlices \ Gang(w.slice) :
              u \in O \/ (u \notin w.counted /\ hold[u] = "confirmed")

(* The slice that is about to be bound has its place in the quota.           *)
QuotaInv ==
    /\ Weight(BoundSlices) <= setting.quota
    /\ w.pc = "quota" => Listed
    /\ w.pc \in Binding => Weight(BoundSlices \cup {w.slice}) <= setting.quota

LEMMA Weights ==
    ASSUME LedgerTypes, NEW S \in SUBSET Slice, NEW T \in SUBSET Slice
    PROVE  /\ Weight(S) \in Nat /\ Bytes(S) = Weight(S)
           /\ Weight(S \cup T) <= Weight(S) + Weight(T)
           /\ S \subseteq T => Weight(S) <= Weight(T)
<1>1. IsFiniteSet(S) /\ IsFiniteSet(T) /\ IsFiniteSet(T \ S)
      /\ \A s \in Slice : setting.req[s] \in Nat
  <2>1. T \ S \in SUBSET Slice
    OBVIOUS
  <2> QED  BY <2>1, Requests
<1>2. Weight(S) \in Nat /\ Bytes(S) = Weight(S)
  BY Requests, BytesIs DEF Weight
<1>3. S \subseteq T => Weight(S) <= Weight(T)
  BY <1>1, SumSubset DEF Weight
<1>4. Weight(T) \in Nat /\ Weight(T \ S) \in Nat /\ Weight(T \ S) <= Weight(T)
  <2>1. T \ S \in SUBSET T
    OBVIOUS
  <2> QED  BY <1>1, <2>1, SumSubset, SumIsNat DEF Weight
<1>5. Weight(S \cup T) = Weight(S) + Weight(T \ S)
  <2>1. S \cup T = S \cup (T \ S) /\ S \cap (T \ S) = {}
    OBVIOUS
  <2>2. \A x \in S \cup (T \ S) : setting.req[x] \in Nat
    BY <1>1
  <2> HIDE DEF Weight
  <2>3. Weight(S \cup (T \ S)) = Weight(S) + Weight(T \ S)
    BY <1>1, <2>1, <2>2, SumUnion DEF Weight
  <2> QED  BY <2>1, <2>3
<1> QED  BY <1>2, <1>3, <1>4, <1>5

(* Nothing is bound anew, and a check that has begun goes on.                *)
LEMMA QuotaShrinks ==
    ASSUME AdmissionInv, QuotaInv, UNCHANGED setting, BoundSlices' \subseteq BoundSlices,
           w'.pc \in {"quota"} \cup Binding =>
               w' = w /\ \A u \in Slice : hold[u] = "confirmed" => hold'[u] = "confirmed"
    PROVE  QuotaInv'
<1>1. LedgerTypes
  BY Types DEF AdmissionInv
<1>2. BoundSlices' \in SUBSET Slice /\ BoundSlices \in SUBSET Slice
  BY DEF BoundSlices
<1>3. setting.quota \in Nat
  BY <1>1, AdmissionAssumption DEF LedgerTypes
<1>4. Weight(BoundSlices') <= Weight(BoundSlices) /\ Weight(BoundSlices) \in Nat
      /\ Weight(BoundSlices') \in Nat
  BY <1>1, <1>2, Weights
<1>5. Weight(BoundSlices)' = Weight(BoundSlices')
  BY DEF Weight
<1>6. (Weight(BoundSlices) <= setting.quota)'
  BY <1>3, <1>4, <1>5 DEF QuotaInv
<1>7. ASSUME w'.pc = "quota" PROVE Listed'
  <2>1. w' = w /\ \A u \in Slice : hold[u] = "confirmed" => hold'[u] = "confirmed"
    BY <1>7
  <2>2. PICK O \in SUBSET Slice :
           /\ O \subseteq w.counted /\ w.used = Weight(O)
           /\ \A u \in BoundSlices \ Gang(w.slice) :
                 u \in O \/ (u \notin w.counted /\ hold[u] = "confirmed")
    BY <1>7, <2>1 DEF QuotaInv, Listed
  <2>3. Gang(w.slice)' = Gang(w.slice) /\ \A S : Weight(S)' = Weight(S)
    BY <2>1 DEF Gang, Weight
  <2>4. (/\ O \subseteq w.counted /\ w.used = Weight(O)
         /\ \A u \in BoundSlices \ Gang(w.slice) :
               u \in O \/ (u \notin w.counted /\ hold[u] = "confirmed"))'
    BY <1>2, <2>1, <2>2, <2>3
  <2> QED  BY <2>4 DEF Listed
<1>8. ASSUME w'.pc \in Binding PROVE (Weight(BoundSlices \cup {w.slice}) <= setting.quota)'
  <2>1. w' = w /\ w.slice \in Slice
    BY <1>8 DEF AdmissionInv, WorkerSane, Binding
  <2>2. BoundSlices' \cup {w.slice} \in SUBSET Slice /\ BoundSlices \cup {w.slice} \in SUBSET Slice
        /\ BoundSlices' \cup {w.slice} \subseteq BoundSlices \cup {w.slice}
    BY <1>2, <2>1
  <2>3. Weight(BoundSlices' \cup {w.slice}) <= Weight(BoundSlices \cup {w.slice})
        /\ Weight(BoundSlices \cup {w.slice}) \in Nat /\ Weight(BoundSlices' \cup {w.slice}) \in Nat
    BY <1>1, <2>2, Weights
  <2>4. Weight(BoundSlices \cup {w.slice}) <= setting.quota
    BY <1>8, <2>1 DEF QuotaInv
  <2>5. Weight(BoundSlices \cup {w.slice})' = Weight(BoundSlices' \cup {w.slice})
    BY <2>1 DEF Weight
  <2> QED  BY <1>3, <2>3, <2>4, <2>5
<1> QED  BY <1>6, <1>7, <1>8 DEF QuotaInv

LEMMA QuotaReconcile ==
    ASSUME AdmissionInv, QuotaInv, Reconcile
    PROVE  QuotaInv'
<1> DEFINE others(s) == {u \in Slice : seen[u] \in Bound \cup {"Assigned"}}
                          \ (Gang(s) \cap setting.gang)
           known(s) == others(s) \cup (Gang(s) \cap setting.gang)
                          \cup {u \in Slice : seen[u] = "Released"}
<1>1. PICK s \in Slice :
         /\ hold' = CASE seen[s] = "Ready"                -> [hold EXCEPT ![s] = "allocated"]
                      [] seen[s] \in {"Released", "none"} -> [hold EXCEPT ![s] = "none"]
                      [] OTHER                            -> hold
         /\ w' = IF seen[s] # "Pending" THEN [Idle EXCEPT !.pc = "done", !.slice = s]
                 ELSE [Idle EXCEPT !.pc = "quota", !.slice = s, !.used = Bytes(others(s)),
                          !.counted = known(s)]
  BY DEF Reconcile, Get
<1>2. UNCHANGED <<setting, phase, seen>> /\ BoundSlices' = BoundSlices
  BY DEF Reconcile, api, BoundSlices
<1>3. CASE seen[s] # "Pending"
  <2>1. w'.pc = "done"
    BY <1>1, <1>3 DEF Idle
  <2> QED  BY <1>2, <2>1, QuotaShrinks DEF Binding
<1>4. CASE seen[s] = "Pending"
  <2>1. /\ hold' = hold /\ w'.pc = "quota" /\ w'.slice = s /\ w'.counted = known(s)
        /\ w'.used = Bytes(others(s))
    BY <1>1, <1>4 DEF Idle
  <2>2. others(s) \in SUBSET Slice
    OBVIOUS
  <2>3. w'.used = Weight(others(s))
    BY <2>1, <2>2, Weights, Types DEF AdmissionInv
  <2>4. \A u \in BoundSlices \ Gang(s) :
           u \in others(s) \/ (u \notin known(s) /\ hold[u] = "confirmed")
    BY DEF AdmissionInv, Charged, BoundSlices, Bound, Early
  <2>5. others(s) \subseteq known(s)
    OBVIOUS
  <2>6. Gang(s)' = Gang(s) /\ \A S : Weight(S)' = Weight(S)
    BY <1>2 DEF Gang, Weight
  <2> HIDE DEF others, known
  <2>7. Listed'
    <3>1. PICK O : O = others(s)
      OBVIOUS
    <3>2. Gang(w.slice)' = Gang(s) /\ Weight(O)' = Weight(O)
      BY <1>2, <2>1 DEF Gang, Weight
    <3>3. (/\ O \in SUBSET Slice /\ O \subseteq w.counted /\ w.used = Weight(O)
           /\ \A u \in BoundSlices \ Gang(w.slice) :
                 u \in O \/ (u \notin w.counted /\ hold[u] = "confirmed"))'
      BY <1>2, <2>1, <2>2, <2>3, <2>4, <2>5, <3>1, <3>2
    <3> QED  BY <3>3 DEF Listed
  <2>8. (Weight(BoundSlices) <= setting.quota)'
    BY <1>2 DEF QuotaInv, Weight
  <2> QED  BY <2>1, <2>7, <2>8 DEF QuotaInv, Binding
<1> QED  BY <1>3, <1>4

LEMMA QuotaSchedule ==
    ASSUME AdmissionInv, QuotaInv, Schedule
    PROVE  QuotaInv'
<1>1. w.pc = "quota" /\ UNCHANGED <<setting, phase>> /\ BoundSlices' = BoundSlices
  BY DEF Schedule, PassFrame, api, BoundSlices
<1>2. w \in Works /\ w.slice \in Slice /\ LedgerTypes
  BY <1>1, Types DEF AdmissionInv, WorkerSane
<1>3. (Check /\ Continue("bindSpec")) \/ Continue("own") \/ Retry
  BY DEF Schedule
<1>4. CASE Continue("own") \/ Retry
  <2>1. w'.pc \in {"own", "done"}
    BY <1>2, <1>4 DEF Continue, Retry, Works
  <2> QED  BY <1>1, <2>1, QuotaShrinks DEF Binding
<1>5. CASE Check /\ Continue("bindSpec")
  <2> DEFINE P == {u \in Slice : hold[u] \in {"assumed", "confirmed"} /\ u \notin w.counted}
             G == Gang(w.slice)
  <2>1. w'.pc = "bindSpec" /\ w'.slice = w.slice
    BY <1>2, <1>5 DEF Continue, Works
  <2>2. PICK O \in SUBSET Slice :
           /\ O \subseteq w.counted /\ w.used = Weight(O)
           /\ \A u \in BoundSlices \ Gang(w.slice) :
                 u \in O \/ (u \notin w.counted /\ hold[u] = "confirmed")
    BY <1>1 DEF QuotaInv, Listed
  <2>3. P \in SUBSET Slice /\ G \in SUBSET Slice /\ w.slice \in G
    BY <1>2, AdmissionAssumption DEF Gang, LedgerTypes
  <2>4. BoundSlices \cup {w.slice} \subseteq (O \cup P) \cup G
    BY <2>2, <2>3 DEF BoundSlices
  <2>5. w.used + Bytes(P) + Bytes(G) <= setting.quota
    BY <1>5 DEF Check, PendingNamespaceBytes
  <2> HIDE DEF P, G
  <2>6. Bytes(P) = Weight(P) /\ Bytes(G) = Weight(G)
    BY <1>2, <2>3, Weights
  <2>7. Weight(O \cup P) <= Weight(O) + Weight(P) /\ Weight(O) \in Nat /\ Weight(P) \in Nat
    BY <1>2, <2>3, Weights
  <2>8. Weight((O \cup P) \cup G) <= Weight(O \cup P) + Weight(G)
        /\ Weight(O \cup P) \in Nat /\ Weight(G) \in Nat /\ Weight((O \cup P) \cup G) \in Nat
    <3>1. O \cup P \in SUBSET Slice /\ (O \cup P) \cup G \in SUBSET Slice
      BY <2>3
    <3> QED  BY <1>2, <2>3, <3>1, Weights
  <2>9. Weight(BoundSlices \cup {w.slice}) <= Weight((O \cup P) \cup G)
        /\ Weight(BoundSlices \cup {w.slice}) \in Nat
    <3>1. (O \cup P) \cup G \in SUBSET Slice /\ BoundSlices \cup {w.slice} \in SUBSET Slice
      BY <1>2, <2>3 DEF BoundSlices
    <3> QED  BY <1>2, <2>4, <3>1, Weights
  <2>10. setting.quota \in Nat
    BY <1>2, AdmissionAssumption DEF LedgerTypes
  <2>11. Weight(BoundSlices \cup {w.slice}) <= setting.quota
    BY <2>2, <2>5, <2>6, <2>7, <2>8, <2>9, <2>10
  <2>12. (Weight(BoundSlices) <= setting.quota)'
    BY <1>1 DEF QuotaInv, Weight
  <2>13. (Weight(BoundSlices \cup {w.slice}) <= setting.quota)'
    BY <1>1, <2>1, <2>11 DEF Weight
  <2> QED  BY <2>1, <2>12, <2>13 DEF QuotaInv, Binding
<1> QED  BY <1>3, <1>4, <1>5

LEMMA QuotaBind ==
    ASSUME AdmissionInv, QuotaInv, BindSpec \/ BindStatus
    PROVE  QuotaInv'
<1>1. w.pc \in Binding /\ UNCHANGED setting
  BY DEF BindSpec, BindStatus, PassFrame, Binding
<1>2. w \in Works /\ w.slice \in Slice
  BY <1>1, Types DEF AdmissionInv, WorkerSane, Binding
<1>3. CASE UNCHANGED phase
  <2>1. BoundSlices' = BoundSlices
    BY <1>3 DEF BoundSlices
  <2>2. w'.pc \in {"bindStatus", "done"} /\ w'.slice = w.slice
    BY <1>2 DEF BindSpec, BindStatus, NotBound, Continue, Retry, Works
  <2> QED  BY <1>1, <2>1, <2>2 DEF QuotaInv, Weight, Binding
<1>4. CASE /\ phase' = [phase EXCEPT ![w.slice] = "Assigned"] /\ Continue("bindStatus")
           /\ phase[w.slice] \in Early
  <2>1. BoundSlices' = BoundSlices
    BY <1>2, <1>4, Types DEF AdmissionInv, ApiTypes, BoundSlices, Bound, Early
  <2>2. w'.pc = "bindStatus" /\ w'.slice = w.slice
    BY <1>2, <1>4 DEF Continue, Works
  <2> QED  BY <1>1, <2>1, <2>2 DEF QuotaInv, Weight, Binding
<1>5. CASE phase' = [phase EXCEPT ![w.slice] = "Scheduled"] /\ Continue("done")
  <2>1. BoundSlices' = BoundSlices \cup {w.slice}
    BY <1>2, <1>5, Types DEF AdmissionInv, ApiTypes, BoundSlices, Bound
  <2>2. w'.pc = "done"
    BY <1>2, <1>5 DEF Continue, Works
  <2>3. (Weight(BoundSlices) <= setting.quota)'
    BY <1>1, <2>1 DEF QuotaInv, Weight
  <2> QED  BY <2>2, <2>3 DEF QuotaInv, Binding
<1> QED  BY <1>3, <1>4, <1>5 DEF BindSpec, BindStatus, NotBound, Early

(* The steps that bind nothing.                                              *)
LEMMA QuotaOthers ==
    ASSUME AdmissionInv, QuotaInv, Next, ~Reconcile, ~Schedule, ~BindSpec, ~BindStatus,
           "walk" \notin setting.faults
    PROVE  QuotaInv'
<1>1. phase \in [Slice -> Phase] /\ w \in Works /\ UNCHANGED setting
  <2>1. phase \in [Slice -> Phase] /\ w \in Works
    BY Types DEF AdmissionInv, ApiTypes
  <2>2. ASSUME Lives PROVE UNCHANGED setting
    BY <2>2, MovesAre DEF MoveAlone
  <2>3. Lives \/ UNCHANGED setting
    BY DEF Next, Worker, Lives, Done, claimPlanOwnership, TryPreempt, markVictimsPreempting,
           PlanMade, rollbackPreemptingMarks, RolledBack, Fire, Deliver, NodeWalk,
           reapExpiredAssumptions, CleanupCooldown, Tick, PassFrame
  <2> QED  BY <2>1, <2>2, <2>3
<1>2. CASE Done \/ claimPlanOwnership \/ TryPreempt \/ PlanMade \/ RolledBack
  <2>1. w'.pc \notin {"quota"} \cup Binding
    <3>1. \/ w' = Idle \/ w' = [w EXCEPT !.pc = "select"] \/ w' = [w EXCEPT !.pc = "done"]
          \/ \E P : w' = [w EXCEPT !.pc = "mark", !.todo = P]
      BY <1>2 DEF Done, claimPlanOwnership, TryPreempt, PlanMade, RolledBack, Continue, Retry
    <3>2. Idle.pc = "idle"
      BY DEF Idle
    <3> QED  BY <1>1, <3>1, <3>2 DEF Works, Binding
  <2>2. BoundSlices' = BoundSlices
    BY <1>2 DEF Done, claimPlanOwnership, TryPreempt, PlanMade, RolledBack, api, BoundSlices
  <2> QED  BY <1>1, <2>1, <2>2, QuotaShrinks
<1>3. CASE markVictimsPreempting
  <2>1. w'.pc \notin {"quota"} \cup Binding
    BY <1>1, <1>3 DEF markVictimsPreempting, Works, Binding
  <2>2. BoundSlices' \subseteq BoundSlices
    BY <1>1, <1>3 DEF markVictimsPreempting, AdmissionInv, SeenSane, BoundSlices, Bound, Works
  <2> QED  BY <1>1, <2>1, <2>2, QuotaShrinks
<1>4. CASE rollbackPreemptingMarks
  <2>1. w'.pc \notin {"quota"} \cup Binding
    BY <1>1, <1>4 DEF rollbackPreemptingMarks, Works, Binding
  <2>2. BoundSlices' \subseteq BoundSlices
    BY <1>1, <1>4 DEF rollbackPreemptingMarks, AdmissionInv, SeenSane, BoundSlices, Bound, Works
  <2> QED  BY <1>1, <2>1, <2>2, QuotaShrinks
<1>5. CASE (\E s \in Slice : Fire(s) \/ Deliver(s)) \/ CleanupCooldown \/ Tick
  <2>1. UNCHANGED <<phase, hold, w>>
    BY <1>5 DEF Fire, Deliver, CleanupCooldown, Tick, api
  <2>2. BoundSlices' = BoundSlices
    BY <2>1 DEF BoundSlices
  <2> QED  BY <1>1, <2>1, <2>2, QuotaShrinks
<1>6. CASE Lives
  <2>1. PICK s \in Slice, p \in Phase, q \in Phase : MoveAlone(s, p, q)
    BY <1>6, MovesAre
  <2>2. UNCHANGED <<hold, w>>
    BY <2>1 DEF MoveAlone
  <2>3. BoundSlices' \subseteq BoundSlices
    BY <1>1, <2>1 DEF MoveAlone, Changes, BoundSlices, Bound
  <2> QED  BY <1>1, <2>2, <2>3, QuotaShrinks
<1>7. CASE NodeWalk
  <2>1. w.pc # "quota" /\ UNCHANGED <<phase, w>>
    BY <1>7 DEF NodeWalk, GoesWrong, api
  <2>2. BoundSlices' = BoundSlices
    BY <2>1 DEF BoundSlices
  <2>3. ASSUME w.pc \in Binding PROVE Weight(BoundSlices \cup {w.slice}) <= setting.quota
    BY <2>3 DEF QuotaInv
  <2> QED  BY <1>1, <2>1, <2>2, <2>3 DEF QuotaInv, Weight
<1>8. CASE reapExpiredAssumptions
  <2>1. UNCHANGED <<phase, w>> /\ \A u \in Slice : hold[u] = "confirmed" => hold'[u] = "confirmed"
    BY <1>8, Types DEF reapExpiredAssumptions, api, AdmissionInv, LedgerTypes
  <2>2. BoundSlices' = BoundSlices
    BY <2>1 DEF BoundSlices
  <2> QED  BY <1>1, <2>1, <2>2, QuotaShrinks
<1> QED  BY <1>2, <1>3, <1>4, <1>5, <1>6, <1>7, <1>8 DEF Next, Worker, Lives

(* The quota is kept, whatever fails and however far behind the informer is,  *)
(* if what runs at first is within it and no slice is promoted between the    *)
(* two reads of the check.                                                    *)
THEOREM QuotaHolds ==
    ASSUME \A e \in Settings : /\ "walk" \notin e.faults
                               /\ SumFunctionOnSet(e.req, e.running) <= e.quota
    PROVE  Spec => []QuotaKept
<1>1. Init => QuotaInv
  <2> SUFFICES ASSUME Init PROVE QuotaInv
    OBVIOUS
  <2>1. setting \in Settings /\ w.pc = "idle"
    BY DEF Init, Idle
  <2>2. BoundSlices = setting.running
    BY <2>1, AdmissionAssumption DEF Init, BoundSlices, Bound
  <2> QED  BY <2>1, <2>2 DEF QuotaInv, Weight, Binding
<1>2. AdmissionInv /\ QuotaInv /\ [Next]_vars => QuotaInv'
  <2> SUFFICES ASSUME AdmissionInv, QuotaInv, [Next]_vars PROVE QuotaInv'
    OBVIOUS
  <2>1. "walk" \notin setting.faults
    BY Types DEF AdmissionInv, LedgerTypes
  <2>2. CASE UNCHANGED vars
    <3>1. UNCHANGED <<setting, phase, w, hold>>
      BY <2>2 DEF vars, api
    <3> QED  BY <3>1, QuotaShrinks DEF BoundSlices
  <2> QED  BY <2>1, <2>2, QuotaReconcile, QuotaSchedule, QuotaBind, QuotaOthers
<1>3. AdmissionInv /\ QuotaInv => QuotaKept
  <2> SUFFICES ASSUME AdmissionInv, QuotaInv PROVE QuotaKept
    OBVIOUS
  <2>1. BoundSlices \in SUBSET Slice /\ LedgerTypes
    BY Types DEF BoundSlices, AdmissionInv
  <2>2. Bytes(BoundSlices) = Weight(BoundSlices)
    BY <2>1, Weights
  <2> QED  BY <2>2 DEF QuotaInv, QuotaKept, BoundSlices
<1> QED  BY <1>1, <1>2, <1>3, AdmissionInvariant, PTL DEF Spec

=============================================================================
