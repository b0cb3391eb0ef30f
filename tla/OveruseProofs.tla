--------------------------- MODULE OveruseProofs ---------------------------
(***************************************************************************)
(* Theorems about Overuse, for any pods, thresholds, grace periods, limits *)
(* and faults: types, the limit on evictions, and that every eviction was  *)
(* earned by what each look of the detector has shown since the streak     *)
(* began.                                                                  *)
(***************************************************************************)
EXTENDS Overuse, SumLemmas

Hours == 0..(Window - 1)

(* The pods in hand are those of this cycle's attribution; one that is about *)
(* to be evicted was not exempt, and there is room for it in the window.     *)
QueueSane ==
    /\ pc # "evict" => queue = {}
    /\ gate # {} => ~spared /\ SumFunction(mem.times) < MaxEvictions
    /\ spared => exempt

(* Never more evictions in a window than are allowed. *)
RateKept == SumFunction(mem.times) <= MaxEvictions

(* What the detector remembers fits to where its cycle stands. *)
MemSane ==
    /\ pc \in {"evaluate", "evict"} => usage.here
    /\ mem.start # Unset => mem.mode # "off" /\ mem.streak = StreakThreshold
    /\ pc = "evict" => mem.mode = "evict" /\ mem.start = Deadline
    /\ pc = "down" => mem.streak = 0

(* In this cycle a unit of time has passed that the streak does not have yet. *)
Ahead == IF pc \in {"attribute", "evaluate"} THEN 0 ELSE 1

(* Nothing in this cycle has shown an end of the over-use. *)
Unrefuted ==
    /\ pc = "evaluate" => usage.over
    /\ pc = "prune" => usage.here

(* The streak and the time since the violation began are not longer than the *)
(* looks have shown over-use.                                                *)
StreakEarned ==
    Unrefuted =>
        /\ mem.streak > 0 => sustained >= mem.streak - Ahead
        /\ mem.start # Unset => sustained >= StreakThreshold - 1 + mem.start
        /\ pc = "evaluate" => sustained # Unset

OveruseInv == TypeOK /\ QueueSane /\ RateKept /\ MemSane /\ StreakEarned

-----------------------------------------------------------------------------
(* The window.                                                             *)

LEMMA HoursFinite == IsFiniteSet(Hours) /\ 0 \in Hours
  BY OveruseAssumption, FS_Interval DEF Hours

LEMMA TimesSum ==
    ASSUME NEW f \in [Hours -> Nat]
    PROVE  /\ SumFunction(f) = SumFunctionOnSet(f, Hours)
           /\ SumFunction(f) \in Nat
           /\ \A t \in Hours : f[t] <= SumFunction(f)
<1>1. DOMAIN f = Hours
  OBVIOUS
<1>2. SumFunction(f) = SumFunctionOnSet(f, Hours)
  BY <1>1, Zenon DEF SumFunction
<1>3. SumFunctionOnSet(f, Hours) \in Nat
  BY HoursFinite, SumIsNat
<1>4. ASSUME NEW t \in Hours PROVE f[t] <= SumFunctionOnSet(f, Hours)
  <2>1. SumFunctionOnSet(f, Hours) = f[t] + SumFunctionOnSet(f, Hours \ {t})
    BY HoursFinite, SumRemove
  <2>2. SumFunctionOnSet(f, Hours \ {t}) \in Nat
    BY HoursFinite, FS_RemoveElement, SumIsNat
  <2> QED  BY <2>1, <2>2
<1> QED  BY <1>2, <1>3, <1>4

Later(f) == [t \in Hours |-> IF t = 0 THEN 0 ELSE f[t - 1]]

(* As time passes evictions leave the window, and none enters it.            *)
LEMMA LaterSum ==
    ASSUME NEW f \in [Hours -> Nat]
    PROVE  Later(f) \in [Hours -> Nat] /\ SumFunction(Later(f)) <= SumFunction(f)
<1> DEFINE g == Later(f)
           U(S) == SumFunctionOnSet(f, S)
           L(S) == SumFunctionOnSet(g, S)
           C == {n \in Nat : n \in Hours => L(0..n) = U(0..(n - 1))}
<1>1. g \in [Hours -> Nat]
  BY OveruseAssumption DEF Later, Hours
<1>2. /\ g[0] = 0
      /\ \A n \in Nat : n + 1 \in Hours => g[n + 1] = f[n] /\ n \in Hours
  BY OveruseAssumption DEF Later, Hours
<1> HIDE DEF g
<1>3. \A n \in Hours : 0..n \subseteq Hours /\ 0..(n - 1) \subseteq Hours
                       /\ IsFiniteSet(0..n) /\ IsFiniteSet(0..(n - 1))
  <2> SUFFICES ASSUME NEW n \in Hours
               PROVE  /\ 0..n \subseteq Hours /\ 0..(n - 1) \subseteq Hours
                      /\ IsFiniteSet(0..n) /\ IsFiniteSet(0..(n - 1))
    OBVIOUS
  <2>1. n \in Int /\ n - 1 \in Int /\ 0 \in Int
    BY OveruseAssumption DEF Hours
  <2>2. IsFiniteSet(0..n) /\ IsFiniteSet(0..(n - 1))
    BY <2>1, FS_Interval
  <2> QED  BY <2>2, OveruseAssumption DEF Hours
<1>4. 0 \in C
  <2>1. 0..0 = {} \cup {0} /\ 0..(0 - 1) = {}
    OBVIOUS
  <2>2. L({} \cup {0}) = L({}) + g[0]
    BY <1>1, HoursFinite, FS_EmptySet, SumAdd
  <2>3. L({}) = 0 /\ U({}) = 0
    BY SumOfNone
  <2>4. L(0..0) = 0 /\ U(0..(0 - 1)) = 0
    BY <1>2, <2>1, <2>2, <2>3
  <2> QED  BY <2>4
<1>5. ASSUME NEW n \in Nat, n \in C PROVE n + 1 \in C
  <2> SUFFICES ASSUME n + 1 \in Hours PROVE L(0..(n + 1)) = U(0..((n + 1) - 1))
    OBVIOUS
  <2>1. n \in Hours /\ g[n + 1] = f[n]
    BY <1>2
  <2>2. 0..(n + 1) = (0..n) \cup {n + 1} /\ (n + 1) \notin 0..n
    OBVIOUS
  <2>3. 0..((n + 1) - 1) = (0..(n - 1)) \cup {n} /\ n \notin 0..(n - 1)
    OBVIOUS
  <2>4. L((0..n) \cup {n + 1}) = L(0..n) + g[n + 1]
    <3>1. \A y \in (0..n) \cup {n + 1} : g[y] \in Nat
      BY <1>1, <1>3, <2>1
    <3>2. IsFiniteSet(0..n)
      BY <1>3, <2>1
    <3> DEFINE S == 0..n
               x == n + 1
    <3>3. x \notin S
      BY <2>2
    <3> HIDE DEF S, x
    <3>4. L(S \cup {x}) = L(S) + g[x]
      BY <3>1, <3>2, <3>3, SumAdd DEF S, x
    <3> QED  BY <3>4 DEF S, x
  <2>5. U((0..(n - 1)) \cup {n}) = U(0..(n - 1)) + f[n]
    BY <1>3, <2>1, <2>3, SumAdd
  <2>6. L(0..n) = U(0..(n - 1))
    BY <1>5, <2>1
  <2> HIDE DEF L, U
  <2> QED  BY <2>1, <2>2, <2>3, <2>4, <2>5, <2>6
<1>6. Nat \subseteq C
  <2> HIDE DEF C
  <2> QED  BY <1>4, <1>5, Counting
<1> DEFINE last == Window - 1
<1>7. last \in Nat /\ last \in Hours /\ 0..last = Hours
  BY OveruseAssumption DEF Hours
<1>8. L(Hours) = U(0..(last - 1))
  BY <1>6, <1>7
<1>9. U(0..(last - 1)) <= U(Hours)
  BY <1>3, <1>7, HoursFinite, SumSubset
<1> QED  BY <1>1, <1>8, <1>9, TimesSum DEF g

LEMMA CountSum ==
    ASSUME NEW f \in [Hours -> Nat]
    PROVE  LET g == [f EXCEPT ![0] = @ + 1]
           IN  g \in [Hours -> Nat] /\ SumFunction(g) = SumFunction(f) + 1
<1> DEFINE g == [f EXCEPT ![0] = @ + 1]
<1>1. g \in [Hours -> Nat] /\ g[0] = f[0] + 1 /\ \A t \in Hours \ {0} : g[t] = f[t]
  BY HoursFinite
<1> HIDE DEF g
<1>2. SumFunctionOnSet(g, Hours) = SumFunctionOnSet(f, Hours) - f[0] + g[0]
  BY <1>1, HoursFinite, SumChange
<1>3. SumFunctionOnSet(f, Hours) \in Nat /\ f[0] \in Nat
  BY HoursFinite, SumIsNat
<1>4. SumFunction(g) = SumFunction(f) + 1
  BY <1>1, <1>2, <1>3, TimesSum
<1> QED  BY <1>1, <1>4 DEF g

LEMMA NoTimes ==
    LET f == [t \in Hours |-> 0] IN f \in [Hours -> Nat] /\ SumFunction(f) = 0
<1> DEFINE f == [t \in Hours |-> 0]
           C == {S \in SUBSET Hours : SumFunctionOnSet(f, S) = 0}
<1>1. f \in [Hours -> Nat] /\ \A t \in Hours : f[t] = 0
  OBVIOUS
<1> HIDE DEF f
<1>2. ASSUME NEW S \in SUBSET Hours, \A u \in SUBSET S : u # S => u \in C
      PROVE  S \in C
  <2>1. CASE S = {}
    BY <2>1, SumOfNone
  <2>2. CASE S # {}
    <3>1. PICK t \in S : TRUE
      BY <2>2
    <3>2. IsFiniteSet(S) /\ SumFunctionOnSet(f, S \ {t}) = 0
      BY <1>2, HoursFinite, FS_Subset
    <3>3. SumFunctionOnSet(f, S) = f[t] + SumFunctionOnSet(f, S \ {t})
      BY <1>1, <3>1, <3>2, SumRemove
    <3> QED  BY <1>1, <3>2, <3>3
  <2> QED  BY <2>1, <2>2
<1> HIDE DEF C
<1>3. Hours \in C
  BY <1>2, HoursFinite, SubsetInduction
<1> QED  BY <1>1, <1>3, TimesSum DEF C, f

-----------------------------------------------------------------------------
(* Types.                                                                  *)

Memory == [mode : Modes, streak : 0..StreakThreshold, start : Unset..Deadline,
           enforced : BOOLEAN, stampedPods : SUBSET Pods, handled : SUBSET Pods,
           times : [Hours -> 0..MaxEvictions]]

MemOK(m) == m \in Memory /\ (~m.enforced => m.stampedPods = {})

Steps == {"down", "wait", "attribute", "evaluate", "evict", "prune"}

WorldTypes == bound \in BOOLEAN /\ exempt \in BOOLEAN /\ hog \subseteq Pods
              /\ pod \in [Pods -> {"none", "running", "terminating"}]
ShownTypes == shown \subseteq Surface /\ botched \subseteq shown /\ faults \in 0..MaxFaults
CycleTypes == pc \in Steps /\ usage \in [here : BOOLEAN, over : BOOLEAN, pods : SUBSET Pods]
              /\ queue \subseteq usage.pods /\ gate \subseteq queue
HistoryTypes == spared \in BOOLEAN /\ sustained \in Unset..Cap

LEMMA Types ==
    TypeOK <=> WorldTypes /\ ShownTypes /\ MemOK(mem) /\ CycleTypes /\ HistoryTypes
  BY Zenon DEF TypeOK, WorldTypes, ShownTypes, MemOK, Memory, Hours, CycleTypes, HistoryTypes,
     Steps

LEMMA TypesAfter ==
    WorldTypes' /\ ShownTypes' /\ MemOK(mem') /\ CycleTypes' /\ HistoryTypes' => TypeOK'
  BY Zenon DEF TypeOK, WorldTypes, ShownTypes, MemOK, Memory, Hours, CycleTypes, HistoryTypes,
     Steps

LEMMA Numbers ==
    /\ Deadline \in Nat /\ StreakThreshold \in Nat \ {0} /\ Cap \in Nat
    /\ Cap = StreakThreshold + Deadline
  BY OveruseAssumption DEF Deadline, Cap

LEMMA AgeTypes ==
    /\ \A cap \in Nat : \A age \in Unset..cap : Older(age, cap) \in Unset..cap
    /\ \A a \in Unset..Deadline : \A b \in Unset..Cap :
          a # Unset /\ b >= StreakThreshold - 1 + a =>
             /\ Older(a, Deadline) # Unset
             /\ Older(b, Cap) >= StreakThreshold - 1 + Older(a, Deadline)
    /\ \A k \in 0..StreakThreshold : \A b \in Unset..Cap :
          k > 0 /\ b >= k - 1 => Older(b, Cap) >= k
    /\ \A cap \in Nat : Older(Unset, cap) = Unset
  BY Numbers DEF Older, Unset

LEMMA Counted ==
    ASSUME TypeOK, NEW f, GoesWrong(f)
    PROVE  faults' \in 0..MaxFaults
  BY OveruseAssumption DEF TypeOK, GoesWrong

LEMMA Shows ==
    ASSUME TypeOK, NEW On \in SUBSET Surface, NEW Off, Show(On, Off)
    PROVE  ShownTypes'
<1>1. PICK failing :
         /\ MayGoWrong("write", failing # {})
         /\ shown' = (shown \cup ((On \cap (Present \cup IF bound THEN {V, E} ELSE {})) \ failing))
                         \ (Off \ failing)
         /\ botched' = (botched \cup (failing \cap Off)) \cap shown'
  BY Zenon DEF Show
<1>2. shown' \subseteq Surface
  BY <1>1 DEF TypeOK
<1>3. botched' \subseteq shown'
  BY <1>1
<1>4. faults' \in 0..MaxFaults
  BY <1>1, Counted DEF MayGoWrong, TypeOK
<1> QED  BY <1>2, <1>3, <1>4 DEF ShownTypes

LEMMA InSurface ==
    /\ {} \subseteq Surface /\ {E} \subseteq Surface /\ onset \subseteq Surface
    /\ \A P \in SUBSET Pods : onset \cup {E} \cup P \subseteq Surface
  BY DEF Surface, onset

LEMMA EvaluateType == TypeOK => evaluate \in 0..StreakThreshold
  BY Numbers DEF TypeOK, evaluate, Lesser

(* What updates of the memory are.                                           *)
LEMMA StreakKept ==
    ASSUME NEW m, MemOK(m), NEW k \in 0..StreakThreshold
    PROVE  LET n == [m EXCEPT !.streak = k]
           IN  /\ MemOK(n) /\ n.streak = k /\ n.start = m.start /\ n.mode = m.mode
               /\ n.times = m.times /\ n.enforced = m.enforced
  BY DEF MemOK, Memory

LEMMA StartKept ==
    ASSUME NEW m, MemOK(m), NEW a \in Unset..Deadline
    PROVE  LET n == [m EXCEPT !.start = a]
           IN  /\ MemOK(n) /\ n.streak = m.streak /\ n.start = a /\ n.mode = m.mode
               /\ n.times = m.times /\ n.enforced = m.enforced
  BY DEF MemOK, Memory

LEMMA TimesKept ==
    ASSUME NEW m, MemOK(m), NEW f \in [Hours -> 0..MaxEvictions]
    PROVE  LET n == [m EXCEPT !.times = f]
           IN  /\ MemOK(n) /\ n.streak = m.streak /\ n.start = m.start /\ n.mode = m.mode
               /\ n.times = f
  BY DEF MemOK, Memory

LEMMA HandledKept ==
    ASSUME NEW m, MemOK(m), NEW P \in SUBSET Pods
    PROVE  LET n == [m EXCEPT !.handled = P]
           IN  /\ MemOK(n) /\ n.streak = m.streak /\ n.start = m.start /\ n.mode = m.mode
               /\ n.times = m.times
  BY DEF MemOK, Memory

LEMMA EngageKept ==
    ASSUME NEW m, MemOK(m), usage.pods \subseteq Pods
    PROVE  LET n == engage(m)
           IN  /\ MemOK(n) /\ n.streak = m.streak /\ n.start = m.start /\ n.mode = m.mode
               /\ n.times = m.times
  BY DEF MemOK, Memory, engage

LEMMA ForgetKept ==
    ASSUME NEW m, MemOK(m)
    PROVE  LET n == forget(m)
           IN  /\ MemOK(n) /\ n.streak = m.streak /\ n.start = Unset /\ n.mode = m.mode
               /\ n.times = m.times
<1> DEFINE a == [m EXCEPT !.enforced = FALSE]
           b == [a EXCEPT !.stampedPods = {}]
           c == [b EXCEPT !.start = Unset]
<1>0. m \in Memory /\ Unset \in Unset..Deadline
  BY Numbers DEF MemOK, Unset
<1>1. /\ a \in Memory /\ a.streak = m.streak /\ a.mode = m.mode /\ a.times = m.times
      /\ a.start = m.start
  BY <1>0 DEF Memory
<1> HIDE DEF a
<1>2. /\ b \in Memory /\ b.streak = m.streak /\ b.mode = m.mode /\ b.times = m.times
      /\ b.stampedPods = {}
  BY <1>1 DEF Memory
<1> HIDE DEF b
<1>3. /\ c \in Memory /\ c.streak = m.streak /\ c.mode = m.mode /\ c.times = m.times
      /\ c.stampedPods = {} /\ c.start = Unset
  BY <1>0, <1>2 DEF Memory
<1>4. c = forget(m)
  BY <1>0 DEF a, b, forget, Memory
<1> HIDE DEF c
<1> QED  BY <1>3, <1>4 DEF MemOK

LEMMA FreshMemory ==
    ASSUME NEW m \in Modes
    PROVE  /\ MemOK(Fresh(m)) /\ Fresh(m).streak = 0 /\ Fresh(m).start = Unset
           /\ Fresh(m).times = [t \in Hours |-> 0]
  BY Numbers, OveruseAssumption DEF MemOK, Memory, Fresh, Unset, Hours

-----------------------------------------------------------------------------
(* The cycle.                                                              *)

ProcessSane == QueueSane /\ RateKept /\ MemSane /\ StreakEarned

LEMMA EvaluateIs ==
    ASSUME TypeOK
    PROVE  /\ usage.over /\ mem.streak < StreakThreshold => evaluate = mem.streak + 1
           /\ usage.over /\ mem.streak = StreakThreshold => evaluate = StreakThreshold
           /\ ~usage.over => evaluate = 0
  BY Numbers DEF TypeOK, evaluate, Lesser

LEMMA SweepStep ==
    ASSUME OveruseInv, sweepOrphanStamps
    PROVE  OveruseInv'
<1> USE DEF OveruseInv
<1>1. ShownTypes'
  <2>1. faults' \in 0..MaxFaults
    BY Counted DEF sweepOrphanStamps, MayGoWrong, TypeOK
  <2>2. shown' \subseteq Surface /\ botched' \subseteq shown'
    BY DEF sweepOrphanStamps, TypeOK
  <2> QED  BY <2>1, <2>2 DEF ShownTypes
<1>2. WorldTypes' /\ MemOK(mem') /\ CycleTypes' /\ HistoryTypes'
  BY Types DEF sweepOrphanStamps, world, WorldTypes, CycleTypes, HistoryTypes, Steps
<1>3. ProcessSane'
  BY Numbers DEF sweepOrphanStamps, world, ProcessSane, QueueSane, RateKept, MemSane, StreakEarned,
     Unrefuted, Ahead, TypeOK
<1> QED  BY <1>1, <1>2, <1>3, TypesAfter DEF ProcessSane

LEMMA TickStep ==
    ASSUME OveruseInv, Tick
    PROVE  OveruseInv'
<1> USE DEF OveruseInv
<1> DEFINE aged == [mem EXCEPT !.start = Older(@, Deadline)]
           new == [aged EXCEPT !.times = Later(mem.times)]
<1>0. MemOK(mem) /\ mem.start \in Unset..Deadline /\ mem.streak \in 0..StreakThreshold
      /\ mem.times \in [Hours -> 0..MaxEvictions] /\ sustained \in Unset..Cap
  BY Types DEF MemOK, Memory, HistoryTypes
<1>1. /\ MemOK(aged) /\ aged.streak = mem.streak /\ aged.start = Older(mem.start, Deadline)
      /\ aged.mode = mem.mode /\ aged.times = mem.times
  BY <1>0, StartKept, AgeTypes, Numbers
<1>2. mem.times \in [Hours -> Nat]
  BY <1>0, OveruseAssumption
<1>3. Later(mem.times) \in [Hours -> 0..MaxEvictions]
      /\ SumFunction(Later(mem.times)) <= SumFunction(mem.times)
      /\ SumFunction(Later(mem.times)) \in Nat
  <2>1. Later(mem.times) \in [Hours -> Nat]
        /\ SumFunction(Later(mem.times)) <= SumFunction(mem.times)
    BY <1>2, LaterSum
  <2>2. \A t \in Hours : Later(mem.times)[t] \in 0..MaxEvictions
    BY <1>0, OveruseAssumption DEF Later, Hours
  <2>3. Later(mem.times) \in [Hours -> 0..MaxEvictions]
    BY <2>2 DEF Later
  <2> QED  BY <2>1, <2>3, TimesSum
<1>4. mem' = new
  BY <1>0 DEF Tick, Later, MemOK, Memory
<1> HIDE DEF aged
<1>5. /\ MemOK(new) /\ new.streak = mem.streak /\ new.start = Older(mem.start, Deadline)
      /\ new.mode = mem.mode /\ new.times = Later(mem.times)
  BY <1>1, <1>3, TimesKept
<1> HIDE DEF new
<1>6. /\ pc = "wait" /\ pc' = "attribute" /\ sustained' = Older(sustained, Cap)
      /\ UNCHANGED <<world, shown, usage, queue, gate, faults, spared, botched>>
  BY DEF Tick
<1>7. WorldTypes' /\ ShownTypes' /\ CycleTypes' /\ HistoryTypes'
  BY <1>0, <1>6, AgeTypes, Numbers, Types
     DEF world, WorldTypes, ShownTypes, CycleTypes, HistoryTypes, Steps
<1>8. RateKept'
  BY <1>2, <1>3, <1>4, <1>5, TimesSum, OveruseAssumption DEF RateKept
<1>9. QueueSane'
  BY <1>6, Types DEF QueueSane, world, CycleTypes
<1>10. MemSane'
  <2>1. mem.start = Unset => mem'.start = Unset
    BY <1>4, <1>5, AgeTypes, Numbers
  <2> QED  BY <1>4, <1>5, <1>6, <2>1 DEF MemSane
<1>11. StreakEarned'
  <2>1. /\ mem.streak > 0 => sustained >= mem.streak - 1
        /\ mem.start # Unset => sustained >= StreakThreshold - 1 + mem.start
    BY <1>6 DEF StreakEarned, Unrefuted, Ahead
  <2>2. mem.start = Unset => mem'.start = Unset
    BY <1>4, <1>5, AgeTypes, Numbers
  <2>3. mem.streak > 0 => Older(sustained, Cap) >= mem.streak
    BY <1>0, <2>1, AgeTypes
  <2>4. mem.start # Unset =>
           Older(sustained, Cap) >= StreakThreshold - 1 + Older(mem.start, Deadline)
    BY <1>0, <2>1, AgeTypes
  <2> QED  BY <1>0, <1>4, <1>5, <1>6, <2>2, <2>3, <2>4 DEF StreakEarned, Unrefuted, Ahead
<1> QED  BY <1>4, <1>5, <1>7, <1>8, <1>9, <1>10, <1>11, TypesAfter

LEMMA AttributeStep ==
    ASSUME OveruseInv, attribute
    PROVE  OveruseInv'
<1> USE DEF OveruseInv
<1>0. MemOK(mem) /\ pc = "attribute" /\ queue = {} /\ gate = {} /\ sustained \in Unset..Cap
      /\ mem.streak \in 0..StreakThreshold /\ mem.start \in Unset..Deadline
  BY Types DEF attribute, QueueSane, CycleTypes, HistoryTypes, MemOK, Memory
<1>1. UNCHANGED <<mem, shown, botched, world, queue, gate>>
  BY DEF attribute
<1>2. faults' \in 0..MaxFaults
  BY Counted DEF attribute, MayGoWrong, TypeOK
<1>3. WorldTypes' /\ ShownTypes' /\ MemOK(mem')
  BY <1>1, <1>2, Types DEF world, WorldTypes, ShownTypes
<1>4. RateKept'
  BY <1>1 DEF RateKept
<1>5. CASE pc' = "wait" /\ UNCHANGED <<usage, spared, sustained>>
  <2>1. CycleTypes' /\ HistoryTypes'
    BY <1>0, <1>1, <1>5, Types DEF CycleTypes, HistoryTypes, Steps
  <2>2. QueueSane' /\ MemSane'
    BY <1>0, <1>1, <1>5 DEF QueueSane, MemSane, world
  <2>3. StreakEarned'
    BY <1>0, <1>1, <1>5, Numbers DEF StreakEarned, Unrefuted, Ahead
  <2> QED  BY <1>3, <1>4, <2>1, <2>2, <2>3, TypesAfter
<1>6. CASE ~(pc' = "wait" /\ UNCHANGED <<usage, spared, sustained>>)
  <2>1. PICK missed \in SUBSET Present :
           LET found == IF bound THEN Present \ missed ELSE {}
           IN usage' = [here |-> bound, over |-> found \cap hog # {}, pods |-> found]
    BY <1>6 DEF attribute
  <2>2. /\ pc' = IF bound THEN "evaluate" ELSE "prune"
        /\ spared' = exempt
        /\ sustained' = CASE ~usage'.over      -> Unset
                          [] sustained = Unset -> 0
                          [] OTHER             -> sustained
    BY <1>6 DEF attribute
  <2>3. usage' \in [here : BOOLEAN, over : BOOLEAN, pods : SUBSET Pods] /\ usage'.here = bound
    BY <2>1, Types DEF WorldTypes, Present
  <2>4. sustained' \in Unset..Cap
        /\ (usage'.over => sustained' # Unset /\ sustained' >= sustained)
    BY <1>0, <2>2, <2>3, Numbers DEF Unset
  <2>5. CycleTypes' /\ HistoryTypes'
    BY <1>0, <1>1, <2>2, <2>3, <2>4, Types DEF CycleTypes, HistoryTypes, WorldTypes, Steps
  <2>6. QueueSane' /\ MemSane'
    BY <1>0, <1>1, <2>2, <2>3 DEF QueueSane, MemSane, world
  <2>7. StreakEarned'
    <3>1. /\ mem.streak > 0 => sustained >= mem.streak
          /\ mem.start # Unset => sustained >= StreakThreshold - 1 + mem.start
      BY <1>0 DEF StreakEarned, Unrefuted, Ahead
    <3> QED  BY <1>0, <1>1, <2>2, <2>3, <2>4, <3>1, Numbers DEF StreakEarned, Unrefuted, Ahead
  <2> QED  BY <1>3, <1>4, <2>5, <2>6, <2>7, TypesAfter
<1> QED  BY <1>5, <1>6

(* The end of evaluate: the streak is as this cycle has found it.            *)
EvaluateFacts ==
    /\ MemOK(mem) /\ pc = "evaluate" /\ usage.here /\ queue = {} /\ gate = {}
    /\ mem.streak \in 0..StreakThreshold /\ mem.start \in Unset..Deadline
    /\ evaluate \in 0..StreakThreshold /\ sustained \in Unset..Cap
    /\ evaluate > 0 => usage.over /\ sustained >= evaluate - 1
    /\ usage.over => /\ sustained # Unset
                     /\ mem.start # Unset => /\ sustained >= StreakThreshold - 1 + mem.start
                                             /\ evaluate = StreakThreshold

LEMMA Evaluating ==
    ASSUME OveruseInv, pc = "evaluate"
    PROVE  EvaluateFacts
<1> USE DEF OveruseInv
<1>1. MemOK(mem) /\ usage.here /\ queue = {} /\ gate = {} /\ sustained \in Unset..Cap
      /\ mem.streak \in 0..StreakThreshold /\ mem.start \in Unset..Deadline
  BY Types DEF QueueSane, MemSane, CycleTypes, HistoryTypes, MemOK, Memory
<1>2. evaluate \in 0..StreakThreshold
  BY EvaluateType
<1>3. usage.over =>
        /\ mem.streak > 0 => sustained >= mem.streak
        /\ mem.start # Unset => sustained >= StreakThreshold - 1 + mem.start
        /\ sustained # Unset
  <2> SUFFICES ASSUME usage.over
               PROVE  /\ mem.streak > 0 => sustained >= mem.streak
                      /\ mem.start # Unset => sustained >= StreakThreshold - 1 + mem.start
                      /\ sustained # Unset
    OBVIOUS
  <2>1. Unrefuted /\ Ahead = 0
    BY DEF Unrefuted, Ahead
  <2>2. /\ mem.streak > 0 => sustained >= mem.streak - Ahead
        /\ mem.start # Unset => sustained >= StreakThreshold - 1 + mem.start
        /\ sustained # Unset
    BY <2>1 DEF StreakEarned
  <2>3. mem.streak - 0 = mem.streak
    BY <1>1, Numbers
  <2> QED  BY <2>1, <2>2, <2>3
<1>4. mem.start # Unset => mem.streak = StreakThreshold
  BY DEF MemSane
<1> QED  BY <1>1, <1>2, <1>3, <1>4, EvaluateIs, Numbers DEF EvaluateFacts, Unset

LEMMA ObserveStep ==
    ASSUME OveruseInv, ObserveOnly
    PROVE  OveruseInv'
<1> USE DEF OveruseInv
<1>1. EvaluateFacts /\ mem.mode = "off"
  BY Evaluating DEF ObserveOnly
<1>2. ShownTypes'
  BY Shows, InSurface DEF ObserveOnly
<1>3. /\ pc' = "prune" /\ UNCHANGED <<world, usage, queue, gate, spared, sustained>>
      /\ mem' = [mem EXCEPT !.streak = evaluate]
  BY DEF ObserveOnly, EvaluateFrame
<1>4. /\ MemOK(mem') /\ mem'.streak = evaluate /\ mem'.start = mem.start /\ mem'.mode = mem.mode
      /\ mem'.times = mem.times
  BY <1>1, <1>3, StreakKept DEF EvaluateFacts
<1>5. mem.start = Unset
  BY <1>1 DEF MemSane
<1>6. WorldTypes' /\ CycleTypes' /\ HistoryTypes'
  BY <1>3, Types DEF world, WorldTypes, CycleTypes, HistoryTypes, Steps
<1>7. QueueSane' /\ RateKept' /\ MemSane'
  BY <1>1, <1>3, <1>4, <1>5 DEF EvaluateFacts, QueueSane, RateKept, MemSane, world
<1>8. StreakEarned'
  BY <1>1, <1>3, <1>4, <1>5 DEF EvaluateFacts, StreakEarned, Unrefuted, Ahead
<1> QED  BY <1>2, <1>4, <1>6, <1>7, <1>8, TypesAfter

LEMMA ClearStep ==
    ASSUME OveruseInv, clearEnforcement
    PROVE  OveruseInv'
<1> USE DEF OveruseInv
<1>1. EvaluateFacts /\ evaluate # StreakThreshold
  BY Evaluating DEF clearEnforcement, violating
<1>2. ShownTypes'
  BY Shows, InSurface DEF clearEnforcement
<1>3. /\ pc' = "prune" /\ UNCHANGED <<world, usage, queue, gate, spared, sustained>>
      /\ mem' = forget([mem EXCEPT !.streak = evaluate])
  BY DEF clearEnforcement, EvaluateFrame
<1> DEFINE m == [mem EXCEPT !.streak = evaluate]
<1>4. MemOK(m) /\ m.streak = evaluate /\ m.mode = mem.mode /\ m.times = mem.times
  BY <1>1, StreakKept DEF EvaluateFacts
<1> HIDE DEF m
<1>5. /\ MemOK(mem') /\ mem'.streak = evaluate /\ mem'.start = Unset /\ mem'.mode = mem.mode
      /\ mem'.times = mem.times
  BY <1>3, <1>4, ForgetKept DEF m
<1>6. WorldTypes' /\ CycleTypes' /\ HistoryTypes'
  BY <1>3, Types DEF world, WorldTypes, CycleTypes, HistoryTypes, Steps
<1>7. QueueSane' /\ RateKept' /\ MemSane'
  BY <1>1, <1>3, <1>5 DEF EvaluateFacts, QueueSane, RateKept, MemSane, world
<1>8. StreakEarned'
  BY <1>1, <1>3, <1>5 DEF EvaluateFacts, StreakEarned, Unrefuted, Ahead
<1> QED  BY <1>2, <1>5, <1>6, <1>7, <1>8, TypesAfter

LEMMA EnforceStep ==
    ASSUME OveruseInv, enforce
    PROVE  OveruseInv'
<1> USE DEF OveruseInv
<1>1. EvaluateFacts /\ evaluate = StreakThreshold /\ mem.mode # "off"
  BY Evaluating DEF enforce, violating
<1> DEFINE start == IF mem.start = Unset THEN 0 ELSE mem.start
           m == [mem EXCEPT !.streak = evaluate]
           now == [m EXCEPT !.start = start]
<1>2. start \in 0..Deadline /\ usage.pods \subseteq Pods
  BY <1>1, Numbers, Types DEF EvaluateFacts, Unset, CycleTypes
<1>3. MemOK(m) /\ m.streak = evaluate /\ m.mode = mem.mode /\ m.times = mem.times
  BY <1>1, StreakKept DEF EvaluateFacts
<1>4. [mem EXCEPT !.streak = evaluate, !.start = start] = now
  OBVIOUS
<1>5. /\ \/ mem' = now /\ Show(onset, {})
         \/ mem' = engage(now) /\ Show(onset \cup {E} \cup usage.pods, {})
      /\ IF mem.mode = "evict" /\ start >= Deadline
         THEN pc' = "evict" /\ queue' = usage.pods
         ELSE pc' = "prune" /\ UNCHANGED queue
      /\ UNCHANGED <<world, usage, gate, spared, sustained>>
  BY <1>4 DEF enforce, EvaluateFrame
<1> HIDE DEF m, start
<1>6. MemOK(now) /\ now.streak = evaluate /\ now.start = start /\ now.mode = mem.mode
      /\ now.times = mem.times
  <2>1. start \in Unset..Deadline
    BY <1>2 DEF Unset
  <2> QED  BY <1>3, <2>1, StartKept
<1> HIDE DEF now
<1>7. /\ MemOK(mem') /\ mem'.streak = evaluate /\ mem'.start = start /\ mem'.mode = mem.mode
      /\ mem'.times = mem.times
  BY <1>2, <1>5, <1>6, EngageKept
<1>8. ShownTypes'
  BY <1>2, <1>5, Shows, InSurface
<1>9. WorldTypes' /\ HistoryTypes'
  BY <1>5, Types DEF world, WorldTypes, HistoryTypes
<1>10. CycleTypes'
  <2>1. usage \in [here : BOOLEAN, over : BOOLEAN, pods : SUBSET Pods]
    BY Types DEF CycleTypes
  <2> QED  BY <1>1, <1>5, <2>1 DEF EvaluateFacts, CycleTypes, Steps
<1>11. QueueSane' /\ RateKept' /\ MemSane'
  <2>1. QueueSane' /\ RateKept'
    BY <1>1, <1>5, <1>7 DEF EvaluateFacts, QueueSane, RateKept, world
  <2>2. start >= Deadline => start = Deadline
    BY <1>2, Numbers
  <2>3. MemSane'
    BY <1>1, <1>5, <1>7, <2>2 DEF EvaluateFacts, MemSane
  <2> QED  BY <2>1, <2>3
<1>12. StreakEarned'
  <2>1. sustained >= StreakThreshold - 1 + start
    BY <1>1, Numbers DEF EvaluateFacts, start
  <2>2. sustained >= StreakThreshold - 1
    BY <1>1, Numbers DEF EvaluateFacts
  <2> QED  BY <1>1, <1>5, <1>7, <2>1, <2>2 DEF StreakEarned, Unrefuted, Ahead
<1> QED  BY <1>7, <1>8, <1>9, <1>10, <1>11, <1>12, TypesAfter

(* The steps of maybeEvict leave the streak and the start alone.             *)
LEMMA EvictKeeps ==
    ASSUME OveruseInv, pc = "evict", pc' \in {"evict", "prune"},
           mem'.streak = mem.streak, mem'.start = mem.start, mem'.mode = mem.mode,
           UNCHANGED <<usage, sustained>>
    PROVE  MemSane' /\ StreakEarned'
  BY DEF OveruseInv, MemSane, StreakEarned, Unrefuted, Ahead

LEMMA MaybeEvictStep ==
    ASSUME OveruseInv, maybeEvict
    PROVE  OveruseInv'
<1> USE DEF OveruseInv
<1>1. /\ pc = "evict" /\ gate = {}
      /\ UNCHANGED <<pod, shown, mem, pc, botched, bound, hog, exempt, usage, spared, sustained>>
  BY DEF maybeEvict, EvictFrame
<1>2. PICK p \in queue :
         \/ p \in mem.handled /\ Done(p) /\ UNCHANGED faults
         \/ \E e \in BOOLEAN :
               /\ isExempt(e)
               /\ IF ~e /\ evictionAllowed THEN gate' = {p} /\ UNCHANGED queue ELSE Done(p)
  BY DEF maybeEvict
<1>3. faults' \in 0..MaxFaults
  BY <1>2, Counted DEF isExempt, TypeOK
<1>4. \/ queue' \subseteq queue /\ gate' = {}
      \/ gate' = {p} /\ queue' = queue /\ ~exempt /\ evictionAllowed
  BY <1>2 DEF Done, isExempt
<1>5. WorldTypes' /\ ShownTypes' /\ MemOK(mem') /\ HistoryTypes'
  BY <1>1, <1>3, Types DEF WorldTypes, ShownTypes, HistoryTypes
<1>6. CycleTypes'
  BY <1>1, <1>4, Types DEF CycleTypes
<1>7. QueueSane' /\ RateKept'
  BY <1>1, <1>4 DEF QueueSane, RateKept, evictionAllowed
<1>8. MemSane' /\ StreakEarned'
  BY <1>1, EvictKeeps
<1> QED  BY <1>5, <1>6, <1>7, <1>8, TypesAfter

LEMMA EvictStep ==
    ASSUME OveruseInv, evictViaAPI
    PROVE  OveruseInv'
<1> USE DEF OveruseInv
<1>1. pc = "evict" /\ UNCHANGED <<pc, bound, hog, exempt, usage, spared, sustained>>
  BY DEF evictViaAPI, EvictFrame
<1>2. PICK p \in gate :
         /\ Done(p)
         /\ \/ /\ mem' = [mem EXCEPT !.handled = @ \cup {p}]
               /\ UNCHANGED <<pod, shown, botched, faults>>
            \/ /\ pod' = [pod EXCEPT ![p] = "terminating"]
               /\ mem' = [mem EXCEPT !.handled = @ \cup {p}, !.times[0] = @ + 1]
               /\ Show({E}, {})
            \/ /\ GoesWrong("lostReply") /\ pod' = [pod EXCEPT ![p] = "terminating"]
               /\ UNCHANGED <<mem, shown, botched>>
            \/ GoesWrong("pdb") /\ UNCHANGED <<pod, mem, shown, botched>>
  BY DEF evictViaAPI
<1>3. MemOK(mem) /\ p \in queue /\ p \in Pods /\ mem.times \in [Hours -> 0..MaxEvictions]
      /\ mem.handled \cup {p} \in SUBSET Pods /\ SumFunction(mem.times) < MaxEvictions
  BY Types DEF CycleTypes, MemOK, Memory, QueueSane
<1>4. gate' = {} /\ queue' \subseteq queue
  BY <1>2 DEF Done
<1>5. ShownTypes'
  <2>1. CASE Show({E}, {})
    BY <2>1, Shows, InSurface
  <2>2. ASSUME UNCHANGED <<shown, botched>>, faults' \in 0..MaxFaults PROVE ShownTypes'
    BY <2>2, Types DEF ShownTypes
  <2>3. /\ UNCHANGED faults => faults' \in 0..MaxFaults
        /\ \A f : GoesWrong(f) => faults' \in 0..MaxFaults
    BY Counted, Types DEF ShownTypes
  <2> QED  BY <1>2, <2>1, <2>2, <2>3
<1>6. WorldTypes'
  BY <1>1, <1>2, <1>3, Types DEF WorldTypes
<1>7. CycleTypes' /\ HistoryTypes'
  BY <1>1, <1>4, Types DEF CycleTypes, HistoryTypes
<1>8. /\ MemOK(mem') /\ mem'.streak = mem.streak /\ mem'.start = mem.start
      /\ mem'.mode = mem.mode /\ RateKept'
  <2> DEFINE h == [mem EXCEPT !.handled = @ \cup {p}]
             f == [mem.times EXCEPT ![0] = @ + 1]
  <2>1. MemOK(h) /\ h.streak = mem.streak /\ h.start = mem.start /\ h.mode = mem.mode
        /\ h.times = mem.times
    BY <1>3, HandledKept
  <2>2. mem.times \in [Hours -> Nat]
    BY <1>3, OveruseAssumption
  <2>3. f \in [Hours -> Nat] /\ SumFunction(f) = SumFunction(mem.times) + 1
    BY <2>2, CountSum
  <2>4. SumFunction(f) <= MaxEvictions
    BY <1>3, <2>2, <2>3, TimesSum, OveruseAssumption
  <2>5. f \in [Hours -> 0..MaxEvictions]
    <3> HIDE DEF f
    <3>1. \A t \in Hours : f[t] \in 0..MaxEvictions
      BY <2>3, <2>4, TimesSum, OveruseAssumption
    <3> QED  BY <2>3, <3>1
  <2>6. [mem EXCEPT !.handled = @ \cup {p}, !.times[0] = @ + 1] = [h EXCEPT !.times = f]
    BY <1>3 DEF MemOK, Memory
  <2> HIDE DEF h, f
  <2>7. CASE mem' = [h EXCEPT !.times = f]
    BY <2>1, <2>4, <2>5, <2>7, TimesKept DEF RateKept
  <2>8. CASE mem' = h
    BY <2>1, <2>8 DEF RateKept
  <2>9. CASE mem' = mem
    BY <1>3, <2>9 DEF RateKept
  <2> QED  BY <1>2, <2>6, <2>7, <2>8, <2>9 DEF h
<1>9. QueueSane'
  BY <1>1, <1>4 DEF QueueSane
<1>10. MemSane' /\ StreakEarned'
  BY <1>1, <1>8, EvictKeeps
<1> QED  BY <1>5, <1>6, <1>7, <1>8, <1>9, <1>10, TypesAfter

LEMMA EvictEndsStep ==
    ASSUME OveruseInv, maybeEvictEnds
    PROVE  OveruseInv'
<1> USE DEF OveruseInv
<1>1. /\ pc = "evict" /\ queue = {} /\ pc' = "prune"
      /\ UNCHANGED <<pod, shown, mem, queue, gate, faults, botched,
                     bound, hog, exempt, usage, spared, sustained>>
  BY DEF maybeEvictEnds, EvictFrame
<1>2. WorldTypes' /\ ShownTypes' /\ MemOK(mem') /\ CycleTypes' /\ HistoryTypes'
  BY <1>1, Types DEF WorldTypes, ShownTypes, CycleTypes, HistoryTypes, Steps
<1>3. QueueSane' /\ RateKept'
  BY <1>1 DEF QueueSane, RateKept
<1>4. MemSane' /\ StreakEarned'
  BY <1>1, EvictKeeps
<1> QED  BY <1>2, <1>3, <1>4, TypesAfter

LEMMA PruneStep ==
    ASSUME OveruseInv, prune
    PROVE  OveruseInv'
<1> USE DEF OveruseInv
<1>1. /\ pc = "prune" /\ pc' = "wait" /\ usage' = NoUsage
      /\ UNCHANGED <<world, queue, gate, spared, sustained>>
  BY DEF prune
<1>2. MemOK(mem) /\ queue = {} /\ gate = {} /\ usage.pods \subseteq Pods
      /\ mem.handled \subseteq Pods
  BY <1>1, Types DEF QueueSane, CycleTypes, MemOK, Memory
<1>3. WorldTypes' /\ HistoryTypes'
  BY <1>1, Types DEF world, WorldTypes, HistoryTypes
<1>4. CycleTypes'
  BY <1>1, <1>2 DEF CycleTypes, NoUsage, Steps
<1>5. CASE ~usage.here
  <2>1. Show({}, mem.stampedPods) /\ mem' = [forget(mem) EXCEPT !.streak = 0, !.handled = {}]
    BY <1>5 DEF prune
  <2> DEFINE m == forget(mem)
             n == [m EXCEPT !.streak = 0]
             o == [n EXCEPT !.handled = {}]
  <2>2. MemOK(m) /\ m.start = Unset /\ m.mode = mem.mode /\ m.times = mem.times
    BY <1>2, ForgetKept
  <2> HIDE DEF m
  <2>3. MemOK(n) /\ n.streak = 0 /\ n.start = Unset /\ n.mode = mem.mode /\ n.times = mem.times
    <3>1. 0 \in 0..StreakThreshold
      BY Numbers
    <3> QED  BY <2>2, <3>1, StreakKept
  <2>4. mem' = o
    BY <2>1 DEF m
  <2> HIDE DEF n
  <2>5. MemOK(o) /\ o.streak = 0 /\ o.start = Unset /\ o.mode = mem.mode /\ o.times = mem.times
    BY <2>3, HandledKept
  <2> HIDE DEF o
  <2>6. ShownTypes'
    BY <2>1, Shows, InSurface
  <2>7. QueueSane' /\ RateKept' /\ MemSane'
    BY <1>1, <1>2, <2>4, <2>5 DEF QueueSane, RateKept, MemSane, world
  <2>8. StreakEarned'
    BY <1>1, <2>4, <2>5 DEF StreakEarned, Unrefuted, Ahead
  <2> QED  BY <1>3, <1>4, <2>4, <2>5, <2>6, <2>7, <2>8, TypesAfter
<1>6. CASE usage.here
  <2>1. /\ mem' = [mem EXCEPT !.handled = mem.handled \cap usage.pods]
        /\ UNCHANGED <<shown, faults, botched>>
    BY <1>6 DEF prune
  <2>2. /\ MemOK(mem') /\ mem'.streak = mem.streak /\ mem'.start = mem.start
        /\ mem'.mode = mem.mode /\ mem'.times = mem.times
    BY <1>2, <2>1, HandledKept
  <2>3. ShownTypes'
    BY <2>1, Types DEF ShownTypes
  <2>4. QueueSane' /\ RateKept' /\ MemSane'
    BY <1>1, <1>2, <2>2 DEF QueueSane, RateKept, MemSane, world
  <2>5. StreakEarned'
    BY <1>1, <1>6, <2>2 DEF StreakEarned, Unrefuted, Ahead
  <2> QED  BY <1>3, <1>4, <2>2, <2>3, <2>4, <2>5, TypesAfter
<1> QED  BY <1>5, <1>6

-----------------------------------------------------------------------------
(* The others.                                                             *)

LEMMA NothingUsed == NoUsage \in [here : BOOLEAN, over : BOOLEAN, pods : SUBSET Pods]
                     /\ Unset \in Unset..Cap /\ 0 \in 0..MaxFaults
  BY Numbers, OveruseAssumption DEF NoUsage, Unset, Cap

LEMMA RestartStep ==
    ASSUME OveruseInv, Restart
    PROVE  OveruseInv'
<1> USE DEF OveruseInv
<1>1. PICK m \in Modes : mem' = Fresh(m)
  BY DEF Restart
<1>2. /\ pc' = "down" /\ usage' = NoUsage /\ queue' = {} /\ gate' = {} /\ spared' = FALSE
      /\ sustained' = Unset /\ UNCHANGED <<world, shown, botched>>
      /\ faults' \in 0..MaxFaults
  BY Counted DEF Restart
<1>3. MemOK(mem') /\ mem'.streak = 0 /\ mem'.start = Unset /\ SumFunction(mem'.times) = 0
  BY <1>1, FreshMemory, NoTimes
<1>4. WorldTypes' /\ ShownTypes' /\ CycleTypes' /\ HistoryTypes'
  <2>1. WorldTypes'
    BY <1>2, Types DEF world, WorldTypes
  <2>2. ShownTypes'
    BY <1>2, Types DEF ShownTypes
  <2>3. CycleTypes'
    BY <1>2, NothingUsed DEF CycleTypes, Steps
  <2>4. HistoryTypes'
    BY <1>2, NothingUsed DEF HistoryTypes
  <2> QED  BY <2>1, <2>2, <2>3, <2>4
<1>5. QueueSane' /\ RateKept' /\ MemSane'
  BY <1>2, <1>3, OveruseAssumption DEF QueueSane, RateKept, MemSane
<1>6. StreakEarned'
  BY <1>2, <1>3 DEF StreakEarned, Unrefuted, Ahead
<1> QED  BY <1>3, <1>4, <1>5, <1>6, TypesAfter

LEMMA OthersStep ==
    ASSUME OveruseInv,
           Use \/ DeletePod \/ PodGoes \/ CreatePod \/ LabelNamespace \/ Unbind \/ Bind
    PROVE  OveruseInv'
<1> USE DEF OveruseInv
<1>1. UNCHANGED <<mem, pc, usage, queue, gate, sustained>>
  BY DEF Use, DeletePod, PodGoes, CreatePod, LabelNamespace, Unbind, Bind, DetectorFrame
<1>2. (UNCHANGED <<spared, exempt>>) \/ (spared' = FALSE /\ exempt' \in BOOLEAN)
  BY DEF Use, DeletePod, PodGoes, CreatePod, LabelNamespace, Unbind, Bind, DetectorFrame
<1>3. faults' \in 0..MaxFaults
  BY OveruseAssumption DEF Use, DeletePod, PodGoes, CreatePod, LabelNamespace, Unbind, Bind, TypeOK
<1>4. shown' \subseteq Surface /\ botched' \subseteq shown'
  BY DEF Use, DeletePod, PodGoes, CreatePod, LabelNamespace, Unbind, Bind, TypeOK
<1>5. bound' \in BOOLEAN /\ hog' \subseteq Pods
  BY DEF Use, DeletePod, PodGoes, CreatePod, LabelNamespace, Unbind, Bind, TypeOK, Present
<1>6. pod' \in [Pods -> {"none", "running", "terminating"}]
  BY DEF Use, DeletePod, PodGoes, CreatePod, LabelNamespace, Unbind, Bind, TypeOK
<1>7. WorldTypes' /\ ShownTypes' /\ MemOK(mem') /\ CycleTypes' /\ HistoryTypes'
  BY <1>1, <1>2, <1>3, <1>4, <1>5, <1>6, Types
     DEF WorldTypes, ShownTypes, CycleTypes, HistoryTypes
<1>8. QueueSane' /\ RateKept' /\ MemSane'
  BY <1>1, <1>2 DEF QueueSane, RateKept, MemSane
<1>9. StreakEarned'
  BY <1>1 DEF StreakEarned, Unrefuted, Ahead
<1> QED  BY <1>7, <1>8, <1>9, TypesAfter

-----------------------------------------------------------------------------
(* The theorems.                                                           *)

LEMMA OveruseInit == Init => OveruseInv
<1> SUFFICES ASSUME Init PROVE OveruseInv
  OBVIOUS
<1>1. PICK m \in Modes : mem = Fresh(m)
  BY DEF Init
<1>2. MemOK(mem) /\ mem.streak = 0 /\ mem.start = Unset /\ SumFunction(mem.times) = 0
  BY <1>1, FreshMemory, NoTimes
<1>3. WorldTypes /\ ShownTypes /\ CycleTypes /\ HistoryTypes
  <2>1. WorldTypes
    BY DEF Init, WorldTypes
  <2>2. ShownTypes
    BY NothingUsed DEF Init, ShownTypes
  <2>3. CycleTypes
    BY NothingUsed DEF Init, CycleTypes, Steps
  <2>4. HistoryTypes
    BY NothingUsed DEF Init, HistoryTypes
  <2> QED  BY <2>1, <2>2, <2>3, <2>4
<1>4. QueueSane /\ RateKept /\ MemSane /\ StreakEarned
  BY <1>2, OveruseAssumption DEF Init, QueueSane, RateKept, MemSane, StreakEarned
<1> QED  BY <1>2, <1>3, <1>4, Types DEF OveruseInv

LEMMA OveruseStep == OveruseInv /\ [Next]_vars => OveruseInv'
<1> SUFFICES ASSUME OveruseInv, [Next]_vars PROVE OveruseInv'
  OBVIOUS
<1>1. CASE UNCHANGED vars
  BY <1>1 DEF vars, world, OveruseInv, TypeOK, QueueSane, RateKept, MemSane, StreakEarned,
     Unrefuted, Ahead, Present
<1>2. CASE Detector
  BY <1>2, SweepStep, TickStep, AttributeStep, ObserveStep, ClearStep, EnforceStep,
     MaybeEvictStep, EvictStep, EvictEndsStep, PruneStep DEF Detector
<1> QED  BY <1>1, <1>2, RestartStep, OthersStep DEF Next

(* What the detector remembers never runs ahead of what it has seen, through *)
(* failed listings, restarts and lost replies.                               *)
THEOREM OveruseInvariant == Spec => []OveruseInv
  BY OveruseInit, OveruseStep, PTL DEF Spec

(* Every state is well typed. *)
THEOREM OveruseTypeCorrect == Spec => []TypeOK
<1>1. OveruseInv => TypeOK
  BY DEF OveruseInv
<1> QED  BY <1>1, OveruseInvariant, PTL

(* No window holds more acknowledged evictions than allowed, whatever fails. *)
THEOREM RateIsKept == Spec => []RateKept
<1>1. OveruseInv => RateKept
  BY DEF OveruseInv
<1> QED  BY <1>1, OveruseInvariant, PTL

(* No eviction comes before its time, outside its mode or in a namespace that *)
(* has had its label since the cycle began.                                  *)
THEOREM EvictionsAreEarned == Spec => EvictionEarned
<1>1. OveruseInv => [\A p \in Pods : Evicts(p) =>
                       /\ mem.mode = "evict"
                       /\ sustained >= StreakThreshold - 1 + Deadline
                       /\ ~spared]_vars
  <2> SUFFICES ASSUME OveruseInv, NEW p \in Pods, Evicts(p)
               PROVE  /\ mem.mode = "evict" /\ ~spared
                      /\ sustained >= StreakThreshold - 1 + Deadline
    OBVIOUS
  <2>1. pc = "evict" /\ gate # {}
    BY DEF Evicts
  <2>2. mem.mode = "evict" /\ mem.start = Deadline /\ mem.start # Unset /\ ~spared
    BY <2>1, Numbers DEF OveruseInv, MemSane, QueueSane, Unset
  <2>3. sustained >= StreakThreshold - 1 + mem.start
    BY <2>1, <2>2 DEF OveruseInv, StreakEarned, Unrefuted
  <2> QED  BY <2>2, <2>3
<1> QED  BY <1>1, OveruseInvariant, PTL DEF EvictionEarned

=============================================================================
