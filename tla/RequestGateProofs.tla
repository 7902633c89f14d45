--------------------------- MODULE RequestGateProofs ---------------------------
(***************************************************************************)
(* Proofs about RequestGate, for any number of messages and handlers, any  *)
(* tolerance, TTL, rate and store, and first about the RateLimiter that it  *)
(* extends, for any window and rate.                                       *)
(***************************************************************************)
EXTENDS RequestGate, FiniteSetTheorems, TLAPS

-----------------------------------------------------------------------------
(* The limiter by itself.                                                    *)

(* A count of this window saturates one past the limit.                      *)
LEMMA CountedIsTyped ==
  ASSUME count \in 0 .. MaxPerWindow + 1
  PROVE  Counted \in 0 .. MaxPerWindow + 1
  BY LimiterConstants DEF Counted

(* Every tick but the last has one before it.                                *)
LEMMA RecentTicks ==
  /\ 0 \in Recent /\ WindowSecs - 1 \in Recent
  /\ \A d \in Recent : d \in Nat /\ (d # 0 => d - 1 \in Recent)
  BY LimiterConstants DEF Recent

(* The history of admissions is typed after one more request, and one tick    *)
(* later.                                                                    *)
LEMMA AdmitsAreTyped ==
  ASSUME admits \in [Recent -> Nat]
  PROVE  /\ [d \in Recent |-> admits[d] + 1] \in [Recent -> Nat]
         /\ [d \in Recent |-> IF d = 0 THEN 0 ELSE admits[d - 1]] \in [Recent -> Nat]
  BY RecentTicks

(* The limiter of AppState::new is typed.                                     *)
LEMMA TypeInit == Init => TypeOK
  BY LimiterConstants DEF Init, TypeOK, Recent

(* Each of the three branches of check_rate_limit, and the clock, keeps the   *)
(* types.                                                                     *)
LEMMA TypeNext == TypeOK /\ [Next]_vars => TypeOK'
<1> SUFFICES ASSUME TypeOK, [Next]_vars PROVE TypeOK'
  OBVIOUS
<1> USE LimiterConstants DEF TypeOK
<1>1. CASE NewWindow
  BY <1>1, AdmitsAreTyped DEF NewWindow, OneMore
<1>2. CASE Admit
  BY <1>2, AdmitsAreTyped, CountedIsTyped DEF Admit, OneMore
<1>3. CASE Reject
  BY <1>3, CountedIsTyped DEF Reject
<1>4. CASE Tick
  BY <1>4, AdmitsAreTyped DEF Tick
<1>5. CASE UNCHANGED vars
  BY <1>5 DEF vars
<1> QED BY <1>1, <1>2, <1>3, <1>4, <1>5 DEF Next, CheckRateLimit

(* The limiter's variables keep their types, for any window and rate.        *)
THEOREM LimiterTypeCorrect == Spec => []TypeOK
  BY TypeInit, TypeNext, PTL DEF Spec

(* Each step keeps a window's count in line with what it has admitted.        *)
LEMMA BudgetNext == TypeOK /\ WindowBudget /\ [Next]_vars => WindowBudget'
<1> SUFFICES ASSUME TypeOK, WindowBudget, [Next]_vars PROVE WindowBudget'
  OBVIOUS
<1> USE LimiterConstants DEF TypeOK, WindowBudget
<1>1. CASE NewWindow
  BY <1>1 DEF NewWindow
<1>2. CASE Admit
  BY <1>2 DEF Admit, Counted
<1>3. CASE Reject
  BY <1>3 DEF Reject, Counted
<1>4. CASE Tick
  BY <1>4 DEF Tick
<1>5. CASE UNCHANGED vars
  BY <1>5 DEF vars
<1> QED BY <1>1, <1>2, <1>3, <1>4, <1>5 DEF Next, CheckRateLimit

(* A window admits its first max_per_window requests and no others, however   *)
(* requests and the clock interleave.                                         *)
THEOREM WindowsAreBounded == Spec => []WindowBudget
<1>1. Init => WindowBudget
  BY LimiterConstants DEF Init, WindowBudget
<1> QED BY <1>1, BudgetNext, LimiterTypeCorrect, PTL DEF Spec

(* The history of admissions, against the window that is open: what it holds  *)
(* of the ticks before the window, k and another budget at most, and of the   *)
(* window's own ticks, k at most more than the window has admitted; nothing   *)
(* is admitted between a window's end and the request that opens the next.    *)
Slid(past, age, own, k) ==
    /\ \A d \in Recent : /\ past[d] <= own + k + MaxPerWindow
                         /\ d <= age => past[d] <= own + k
    /\ age = WindowSecs => past[0] = 0

(* What the window has admitted, the ticks since it opened have seen.         *)
Seen == elapsed < WindowSecs => \A d \in Recent : d >= elapsed => admits[d] >= inWindow

(* A window's own admissions never exceed its budget.                         *)
LEMMA OwnIsBounded == TypeOK /\ WindowBudget => inWindow \in 0 .. MaxPerWindow
  BY LimiterConstants DEF TypeOK, WindowBudget

(* A window opens only when all of the last window_secs belongs to the window *)
(* before it, so a step of the limiter adds no third budget.                 *)
LEMMA SlidNext ==
  ASSUME TypeOK, WindowBudget, NEW k \in Nat, Slid(admits, elapsed, inWindow, k), [Next]_vars
  PROVE  Slid(admits', elapsed', inWindow', k)
<1>0. /\ elapsed \in 0 .. WindowSecs /\ admits \in [Recent -> Nat] /\ inWindow \in 0 .. MaxPerWindow
      /\ MaxPerWindow \in Nat /\ WindowSecs \in Nat
  BY OwnIsBounded, LimiterConstants DEF TypeOK
<1>s. \A d \in Recent : /\ d \in Nat /\ d < WindowSecs
                        /\ admits[d] \in Nat
                        /\ admits[d] <= inWindow + k + MaxPerWindow
                        /\ d <= elapsed => admits[d] <= inWindow + k
  BY <1>0, LimiterConstants DEF Slid, Recent
<1>z. elapsed = WindowSecs => admits[0] = 0
  BY DEF Slid
<1>a. elapsed' = WindowSecs => admits'[0] = 0
  <2>1. CASE Tick
    BY <1>0, <2>1, RecentTicks DEF Tick
  <2>2. CASE NewWindow \/ Admit \/ Reject \/ UNCHANGED vars
    BY <1>0, <1>z, <2>2, LimiterConstants DEF NewWindow, Admit, Reject, vars
  <2> QED BY <2>1, <2>2 DEF Next, CheckRateLimit
<1> SUFFICES ASSUME NEW d \in Recent
             PROVE  /\ admits'[d] <= inWindow' + k + MaxPerWindow
                    /\ d <= elapsed' => admits'[d] <= inWindow' + k
  BY <1>a DEF Slid
<1>1. CASE NewWindow
  <2>1. elapsed' = 0 /\ inWindow' = 1 /\ admits'[d] = admits[d] + 1 /\ d <= elapsed
    BY <1>0, <1>s, <1>1 DEF NewWindow, OneMore
  <2>2. admits'[d] <= inWindow' + k + MaxPerWindow
    BY <1>0, <1>s, <2>1
  <2>3. elapsed = WindowSecs
    BY <1>0, <1>1 DEF NewWindow
  <2>4. d <= elapsed' => admits'[d] <= inWindow' + k
    BY <1>0, <1>s, <1>z, <2>1, <2>3
  <2> QED BY <2>2, <2>4
<1>2. CASE Admit
  <2>1. elapsed' = elapsed /\ inWindow' = inWindow + 1 /\ admits'[d] = admits[d] + 1
    BY <1>2 DEF Admit, OneMore
  <2> QED BY <1>0, <1>s, <2>1
<1>3. CASE Reject \/ UNCHANGED vars
  BY <1>s, <1>3 DEF Reject, vars
<1>4. CASE Tick
  <2>1. /\ elapsed' \in Nat /\ elapsed' <= elapsed + 1 /\ inWindow' = inWindow
        /\ admits'[d] = IF d = 0 THEN 0 ELSE admits[d - 1]
    BY <1>0, <1>4 DEF Tick
  <2>2. CASE d = 0
    BY <1>0, <2>1, <2>2
  <2>3. CASE d # 0
    <3>1. d - 1 \in Recent /\ d \in Nat
      BY <2>3, RecentTicks
    <3> QED BY <1>0, <1>s, <2>1, <2>3, <3>1
  <2> QED BY <2>2, <2>3
<1> QED BY <1>1, <1>2, <1>3, <1>4 DEF Next, CheckRateLimit

(* No step takes an admission of the open window out of the last window_secs. *)
LEMMA SeenNext == TypeOK /\ Seen /\ [Next]_vars => Seen'
<1> SUFFICES ASSUME TypeOK, Seen, [Next]_vars, elapsed' < WindowSecs,
                    NEW d \in Recent, d >= elapsed'
             PROVE  admits'[d] >= inWindow'
  BY DEF Seen
<1>0. /\ elapsed \in 0 .. WindowSecs /\ admits \in [Recent -> Nat] /\ inWindow \in Nat
      /\ WindowSecs \in Nat /\ d \in Nat /\ admits[d] \in Nat
      /\ elapsed < WindowSecs => \A c \in Recent : c >= elapsed => admits[c] >= inWindow
  BY LimiterConstants, RecentTicks DEF TypeOK, Seen
<1>1. CASE NewWindow
  BY <1>0, <1>1 DEF NewWindow, OneMore
<1>2. CASE Admit
  BY <1>0, <1>2 DEF Admit, OneMore
<1>3. CASE Reject \/ UNCHANGED vars
  BY <1>0, <1>3 DEF Reject, vars
<1>4. CASE Tick
  <2>1. elapsed < WindowSecs /\ elapsed' = elapsed + 1 /\ inWindow' = inWindow
    BY <1>0, <1>4 DEF Tick
  <2>2. d # 0 /\ d - 1 \in Recent /\ d - 1 >= elapsed
    BY <1>0, <2>1, RecentTicks
  <2>3. admits'[d] = admits[d - 1]
    BY <1>0, <1>4, <2>2 DEF Tick
  <2> QED BY <1>0, <2>1, <2>2, <2>3
<1> QED BY <1>1, <1>2, <1>3, <1>4 DEF Next, CheckRateLimit

(* A limiter that has just been made has admitted nothing.                    *)
LEMMA SlidInit ==
  Init => WindowBudget /\ Slid(admits, elapsed, inWindow, 0) /\ Seen
<1> SUFFICES ASSUME Init PROVE WindowBudget /\ Slid(admits, elapsed, inWindow, 0) /\ Seen
  OBVIOUS
<1>1. elapsed = 0 /\ count = 0 /\ inWindow = 0 /\ \A d \in Recent : admits[d] = 0
  BY DEF Init
<1> QED BY <1>1, LimiterConstants, RecentTicks DEF WindowBudget, Slid, Seen

(* No window_secs of time, wherever windows open, see more than two budgets.  *)
THEOREM SlidingIsBounded == Spec => []SlidingBound
<1> DEFINE Inv == TypeOK /\ WindowBudget /\ Slid(admits, elapsed, inWindow, 0)
<1>1. Init => Inv
  BY TypeInit, SlidInit
<1>2. Inv /\ [Next]_vars => Inv'
  BY TypeNext, BudgetNext, SlidNext
<1>3. Inv => SlidingBound
  BY OwnIsBounded, LimiterConstants, RecentTicks DEF Slid, SlidingBound, LastWindow, TypeOK
<1> HIDE DEF Inv
<1> QED BY <1>1, <1>2, <1>3, PTL DEF Spec

(* A full window is in plain sight of the last window_secs.                   *)
LEMMA SeenIsEarned == TypeOK /\ WindowBudget /\ Seen => RejectIsEarned
<1> SUFFICES ASSUME TypeOK, WindowBudget, Seen, elapsed < WindowSecs, count >= MaxPerWindow
             PROVE  LastWindow >= MaxPerWindow
  BY DEF RejectIsEarned
<1>1. inWindow = MaxPerWindow
  BY LimiterConstants DEF TypeOK, WindowBudget
<1>2. admits[WindowSecs - 1] >= inWindow
  BY LimiterConstants, RecentTicks DEF TypeOK, Seen
<1> QED BY <1>1, <1>2 DEF LastWindow

-----------------------------------------------------------------------------
(* The gate.                                                                 *)

(* The constants, one by one.                                                *)
LEMMA Constants ==
  /\ Sub \in Nat \ {0} /\ TTL \in Nat \ {0} /\ MaxRecords \in Nat \ {0}
  /\ Tolerance \in Nat /\ Ahead \in Nat /\ MaxRun \in Nat /\ MaxRestarts \in Nat
  /\ TTL * Sub \in Nat \ {0} /\ MaxAge \in Nat /\ MaxRun < TTL * Sub /\ MaxAge = TTL * Sub
  /\ Requests \cap {Nothing} = {}
<1>1. \A n, k \in Nat \ {0} : n * k \in Nat \ {0}
  OBVIOUS
<1> QED BY <1>1, GateConstants, RunsAreBrief DEF MaxAge

-----------------------------------------------------------------------------
(* Types, and the limiter inside the gate.                                   *)

(* AppState::new again, in a process that starts after another.               *)
Reboot ==
    /\ elapsed' = 0 /\ count' = 0 /\ inWindow' = 0 /\ UNCHANGED admits
    /\ restarts' = restarts + 1

(* What a step of the gate does to the limiter is a step of the limiter, none *)
(* at all, or a restart.                                                     *)
LEMMA LimiterSteps ==
  ASSUME [GateNext]_gateVars
  PROVE  ([Next]_vars /\ UNCHANGED restarts) \/ Reboot
<1>1. CASE GateTick
  BY <1>1 DEF GateTick, Next
<1>2. CASE \E s \in Slots : RateLimit(s)
  BY <1>2 DEF RateLimit, Next, CheckRateLimit
<1>3. CASE Restart
  BY <1>3 DEF Restart, Reboot
<1>4. CASE UNCHANGED gateVars
  BY <1>4 DEF gateVars, limiter
<1>5. ASSUME NEW s \in Slots, RefuseKey(s) \/ Replay(s) \/ Run(s) \/ Drop(s) \/ Record(s) \/ Complete(s)
      PROVE  UNCHANGED <<limiter, restarts>>
  BY <1>5 DEF RefuseKey, Replay, Run, Drop, Record, Complete
<1>6. ASSUME OthersRecord \/ \E r \in Requests : Sign(r) \/ \E s \in Slots : Identify(s, r)
      PROVE  UNCHANGED <<limiter, restarts>>
  BY <1>6 DEF OthersRecord, Sign, Identify
<1> QED BY <1>1, <1>2, <1>3, <1>4, <1>5, <1>6 DEF GateNext, Handle, limiter

(* The limiter's types survive everything the gate does.                      *)
LEMMA LimiterTypeNext == TypeOK /\ [GateNext]_gateVars => TypeOK'
<1>1. TypeOK /\ Reboot => TypeOK'
  BY LimiterConstants DEF Reboot, TypeOK
<1> QED BY <1>1, LimiterSteps, TypeNext

(* The limiter in the gate: what it owes to restarts is a budget for each.    *)
LimiterInv ==
    /\ TypeOK /\ restarts \in Nat
    /\ WindowBudget /\ Seen
    /\ Slid(admits, elapsed, inWindow, restarts * MaxPerWindow)

LEMMA LimiterInvInit == GateInit => LimiterInv
<1> SUFFICES ASSUME GateInit PROVE LimiterInv
  OBVIOUS
<1>1. Init /\ restarts = 0 /\ restarts * MaxPerWindow = 0
  BY LimiterConstants DEF GateInit
<1> QED BY <1>1, TypeInit, SlidInit DEF LimiterInv

LEMMA LimiterInvNext == LimiterInv /\ [GateNext]_gateVars => LimiterInv'
<1> SUFFICES ASSUME LimiterInv, [GateNext]_gateVars PROVE LimiterInv'
  OBVIOUS
<1> DEFINE k == restarts * MaxPerWindow
<1>0. /\ TypeOK /\ restarts \in Nat /\ WindowBudget /\ Seen
      /\ Slid(admits, elapsed, inWindow, k)
      /\ k \in Nat /\ MaxPerWindow \in Nat
  BY LimiterConstants DEF LimiterInv
<1>t. TypeOK'
  BY <1>0, LimiterTypeNext
<1>1. CASE [Next]_vars /\ UNCHANGED restarts
  <2>1. WindowBudget' /\ Seen'
    BY <1>0, <1>1, BudgetNext, SeenNext
  <2>2. k' = k
    BY <1>1
  <2> HIDE DEF k
  <2>3. Slid(admits', elapsed', inWindow', k)
    BY <1>0, <1>1, SlidNext
  <2>4. Slid(admits', elapsed', inWindow', k')
    BY <2>2, <2>3
  <2> QED BY <1>0, <1>1, <1>t, <2>1, <2>4 DEF LimiterInv, k
<1>2. CASE Reboot
  <2>1. WindowBudget' /\ Seen' /\ restarts' \in Nat
    BY <1>0, <1>t, <1>2, LimiterConstants DEF Reboot, WindowBudget, Seen, TypeOK
  <2>2. k' = k + MaxPerWindow /\ k' \in Nat
    BY <1>0, <1>2, LimiterConstants DEF Reboot
  <2> HIDE DEF k
  <2>3. /\ inWindow \in 0 .. MaxPerWindow /\ inWindow' = 0 /\ elapsed' = 0 /\ admits' = admits
        /\ elapsed \in Nat
    BY <1>0, <1>2, OwnIsBounded, LimiterConstants DEF Reboot, TypeOK
  <2>4. \A d \in Recent : /\ d \in Nat /\ admits[d] \in Nat
                          /\ admits[d] <= inWindow + k + MaxPerWindow
                          /\ d <= elapsed => admits[d] <= inWindow + k
    BY <1>0, RecentTicks DEF Slid, TypeOK
  <2>5. \A d \in Recent : /\ admits[d] <= 0 + (k + MaxPerWindow) + MaxPerWindow
                          /\ d <= 0 => admits[d] <= 0 + (k + MaxPerWindow)
    BY <1>0, <2>3, <2>4
  <2>6. Slid(admits', elapsed', inWindow', k')
    BY <2>2, <2>3, <2>5, LimiterConstants DEF Slid
  <2> QED BY <1>t, <2>1, <2>6 DEF LimiterInv, k
<1> QED BY <1>1, <1>2, LimiterSteps

LEMMA LimiterInvHolds == GateSpec => []LimiterInv
  BY LimiterInvInit, LimiterInvNext, PTL DEF GateSpec

(* A window admits its first max_per_window requests and no others, restarts  *)
(* included.                                                                 *)
THEOREM GateWindowsAreBounded == GateSpec => []WindowBudget
<1>1. LimiterInv => WindowBudget
  BY DEF LimiterInv
<1> QED BY <1>1, LimiterInvHolds, PTL

(* No window_secs of time, wherever windows open and whatever restarts they   *)
(* see, admit more than two budgets and one for each restart.                *)
THEOREM RestartsAreBounded == GateSpec => []RestartBound
<1>1. LimiterInv => RestartBound
  <2> SUFFICES ASSUME LimiterInv PROVE LastWindow <= (2 + restarts) * MaxPerWindow
    BY DEF RestartBound
  <2> DEFINE k == restarts * MaxPerWindow
  <2>1. restarts \in Nat /\ MaxPerWindow \in Nat /\ k \in Nat /\ inWindow \in 0 .. MaxPerWindow
    BY OwnIsBounded, LimiterConstants DEF LimiterInv
  <2>2. LastWindow \in Nat /\ LastWindow <= inWindow + k + MaxPerWindow
    BY RecentTicks DEF LimiterInv, Slid, LastWindow, TypeOK
  <2>3. (2 + restarts) * MaxPerWindow = k + MaxPerWindow + MaxPerWindow
    BY <2>1
  <2> HIDE DEF k
  <2> QED BY <2>1, <2>2, <2>3
<1> QED BY <1>1, LimiterInvHolds, PTL

(* 429 is never spurious, after a restart as before it: a request is refused  *)
(* only when the last window_secs have seen a full budget.                   *)
THEOREM RejectsAreEarned == GateSpec => []RejectIsEarned
<1>1. LimiterInv => RejectIsEarned
  BY SeenIsEarned DEF LimiterInv
<1> QED BY <1>1, LimiterInvHolds, PTL

-----------------------------------------------------------------------------
(* The rest of the gate: who carries what, whose entry is in flight, and     *)
(* what the store holds.                                                     *)

Hands ==
    \A s \in Slots :
        /\ step[s] = "idle" <=> carries[s] = Nothing
        /\ step[s] \in {"identified", "admitted"} => Verified(carries[s])

Busy(s) == step[s] \in {"running", "recorded"}

(* A message that a handler runs is held by its entry, and by no other       *)
(* handler: it runs for less than the TTL.                                   *)
Owners ==
    /\ \A s \in Slots : Busy(s) =>
          entry[carries[s]].state = "in flight" /\ entry[carries[s]].age <= MaxRun
    /\ \A s, t \in Slots : Busy(s) /\ Busy(t) /\ carries[s] = carries[t] => s = t

Stored == inserted <= MaxRecords => Cardinality(records) + others = inserted

(* Where a message's record is while its answer is not yet given.             *)
Recorded ==
    \A s \in Slots :
        /\ step[s] = "running" => carries[s] \notin records
        /\ step[s] = "recorded" /\ inserted <= MaxRecords => carries[s] \in records

TypeInv == GateTypeOK /\ Hands

(* Everything at boot is typed.                                               *)
LEMMA TypeInvInit == GateInit => TypeInv
<1> SUFFICES ASSUME GateInit PROVE TypeInv
  OBVIOUS
<1>1. TypeOK
  BY TypeInit DEF GateInit
<1>2. Cardinality(records) + others <= MaxRecords
  BY FS_EmptySet, Constants DEF GateInit
<1> QED
  BY <1>1, <1>2, Constants
  DEF GateInit, TypeInv, GateTypeOK, Hands, Steps, EmptySlots, EmptyHands, EmptyEntries, NoEntry, MaxAge

(* Records are finitely many, and so are any part of them.                    *)
LEMMA RecordsAreFinite ==
  ASSUME GateTypeOK
  PROVE  /\ IsFiniteSet(records) /\ Cardinality(records) \in Nat
         /\ others \in Nat /\ Cardinality(records) + others <= MaxRecords
         /\ inserted \in 0 .. MaxRecords + 1
         /\ \A r : Cardinality(records \ {r}) + Cardinality(records \cap {r}) = Cardinality(records)
<1>a. /\ others \in 0 .. MaxRecords /\ Cardinality(records) + others <= MaxRecords
      /\ inserted \in 0 .. MaxRecords + 1
  BY Zenon DEF GateTypeOK
<1>0. others \in Nat
  BY <1>a, Constants
<1>1. IsFiniteSet(records) /\ Cardinality(records) \in Nat
  BY GateConstants, FS_Subset, FS_CardinalityType DEF GateTypeOK
<1>2. ASSUME NEW r
      PROVE  Cardinality(records \ {r}) + Cardinality(records \cap {r}) = Cardinality(records)
  <2>1. CASE r \in records
    <3>1. records \cap {r} = {r}
      BY <2>1
    <3>2. Cardinality(records \cap {r}) = 1
      BY <3>1, FS_Singleton
    <3>3. Cardinality(records \ {r}) = Cardinality(records) - 1
      BY <1>1, <2>1, FS_RemoveElement
    <3> QED BY <1>1, <3>2, <3>3
  <2>2. CASE r \notin records
    <3>1. records \cap {r} = {}
      BY <2>2
    <3>2. Cardinality(records \cap {r}) = 0
      BY <3>1, FS_EmptySet
    <3>3. Cardinality(records \ {r}) = Cardinality(records)
      <4>1. records \ {r} = records
        BY <2>2
      <4> QED BY <4>1
    <3> QED BY <1>1, <3>2, <3>3
  <2> QED BY <2>1, <2>2
<1> QED BY <1>a, <1>0, <1>1, <1>2

(* Disowning a record changes what it goes by, and not how many there are.    *)
LEMMA DisownKeeps ==
  ASSUME GateTypeOK, NEW r \in Requests, Disown(r)
  PROVE  /\ records' \subseteq Requests /\ others' \in 0 .. MaxRecords
         /\ Cardinality(records') + others' = Cardinality(records) + others
         /\ inserted' = inserted
<1>1. records' = records \ {r} /\ others' = others + Cardinality(records \cap {r}) /\ inserted' = inserted
  BY DEF Disown
<1>2. IsFiniteSet(records \cap {r}) /\ IsFiniteSet(records \ {r})
  BY RecordsAreFinite, FS_Subset
<1>3. Cardinality(records \cap {r}) \in Nat /\ Cardinality(records \ {r}) \in Nat
  BY <1>2, FS_CardinalityType
<1>4. Cardinality(records \ {r}) + Cardinality(records \cap {r}) = Cardinality(records)
  BY RecordsAreFinite
<1>5. others \in Nat /\ Cardinality(records) \in Nat /\ Cardinality(records) + others <= MaxRecords
  BY RecordsAreFinite, Constants
<1>6. records' \subseteq Requests
  BY <1>1 DEF GateTypeOK
<1> QED BY <1>1, <1>3, <1>4, <1>5, <1>6, Constants

(* Eviction takes nothing from a store that is not full, and one record of    *)
(* one that is.                                                              *)
LEMMA EvictedFits ==
  ASSUME GateTypeOK, NEW left \in Evicted
  PROVE  /\ left[1] \subseteq records /\ IsFiniteSet(left[1]) /\ left[2] \in Nat
         /\ Cardinality(left[1]) \in Nat
         /\ Cardinality(left[1]) + left[2] < MaxRecords
         /\ Cardinality(records) + others < MaxRecords => left = <<records, others>>
<1>1. IsFiniteSet(records) /\ Cardinality(records) \in Nat /\ others \in Nat
      /\ Cardinality(records) + others <= MaxRecords
  BY RecordsAreFinite, Constants
<1>2. CASE Cardinality(records) + others < MaxRecords
  <2>1. left = <<records, others>>
    BY <1>2 DEF Evicted
  <2> QED BY <1>1, <1>2, <2>1
<1>3. CASE ~(Cardinality(records) + others < MaxRecords)
  <2>1. \/ \E r \in records : left = <<records \ {r}, others>>
        \/ \E n \in {others - 1} \cap Nat : left = <<records, n>>
    BY <1>3 DEF Evicted
  <2>2. CASE \E r \in records : left = <<records \ {r}, others>>
    <3>1. PICK r \in records : left = <<records \ {r}, others>>
      BY <2>2
    <3>2. IsFiniteSet(records \ {r}) /\ Cardinality(records \ {r}) = Cardinality(records) - 1
      BY <1>1, FS_RemoveElement
    <3>3. Cardinality(records \ {r}) \in Nat
      BY <3>2, FS_CardinalityType
    <3> QED BY <1>1, <1>3, <3>1, <3>2, <3>3, Constants
  <2>3. CASE \E n \in {others - 1} \cap Nat : left = <<records, n>>
    BY <1>1, <1>3, <2>3, Constants
  <2> QED BY <2>1, <2>2, <2>3
<1> QED BY <1>2, <1>3

(* An insertion keeps the store within its bound, and up to max_entries of    *)
(* them lose nothing.                                                        *)
LEMMA InsertKeeps ==
  ASSUME GateTypeOK, NEW mine \in {{}} \cup {{r} : r \in Requests}, Insert(mine)
  PROVE  /\ records' \subseteq records \cup mine /\ mine \subseteq records'
         /\ others' \in 0 .. MaxRecords
         /\ Cardinality(records') + others' <= MaxRecords
         /\ inserted' \in 0 .. MaxRecords + 1 /\ inserted' >= inserted
         /\ Stored /\ inserted' <= MaxRecords => records' = records \cup mine
         /\ Stored /\ mine \cap records = {} => Stored'
<1>1. PICK left \in Evicted : /\ records' = left[1] \cup mine
                             /\ others' = IF mine = {} THEN left[2] + 1 ELSE left[2]
  BY DEF Insert
<1>2. /\ left[1] \subseteq records /\ IsFiniteSet(left[1]) /\ left[2] \in Nat
      /\ Cardinality(left[1]) \in Nat
      /\ Cardinality(left[1]) + left[2] < MaxRecords
      /\ Cardinality(records) + others < MaxRecords => left = <<records, others>>
  BY EvictedFits
<1>3. inserted' = IF inserted > MaxRecords THEN inserted ELSE inserted + 1
  BY DEF Insert
<1>4. /\ Cardinality(records') \in Nat
      /\ Cardinality(records') + others' <= Cardinality(left[1]) + left[2] + 1
      /\ mine \cap records = {} => Cardinality(records') + others' = Cardinality(left[1]) + left[2] + 1
  <2>1. CASE mine = {}
    <3>1. records' = left[1] /\ others' = left[2] + 1
      BY <1>1, <2>1
    <3> QED BY <1>2, <3>1
  <2>2. CASE \E r \in Requests : mine = {r}
    <3>1. PICK r \in Requests : mine = {r}
      BY <2>2
    <3>2. records' = left[1] \cup {r} /\ others' = left[2]
      BY <1>1, <3>1
    <3>3. Cardinality(left[1] \cup {r}) = IF r \in left[1] THEN Cardinality(left[1]) ELSE Cardinality(left[1]) + 1
      BY <1>2, FS_AddElement
    <3>4. mine \cap records = {} => r \notin left[1]
      BY <1>2, <3>1
    <3> QED BY <1>2, <3>2, <3>3, <3>4
  <2> QED BY <2>1, <2>2
<1>5. others' \in Nat
  BY <1>1, <1>2
<1>6. Cardinality(records) \in Nat /\ others \in Nat /\ inserted \in 0 .. MaxRecords + 1 /\ MaxRecords \in Nat
  BY RecordsAreFinite, Constants
<1>7. Stored /\ inserted' <= MaxRecords => left = <<records, others>>
  BY <1>2, <1>3, <1>6 DEF Stored
<1>8. Stored /\ inserted' <= MaxRecords => records' = records \cup mine
  BY <1>1, <1>7
<1>9. Stored /\ mine \cap records = {} => Stored'
  BY <1>3, <1>4, <1>6, <1>7 DEF Stored
<1>10. records' \subseteq records \cup mine /\ mine \subseteq records'
  BY <1>1, <1>2
<1>11. inserted' \in 0 .. MaxRecords + 1 /\ inserted' >= inserted
  BY <1>3, <1>6
<1> QED BY <1>2, <1>4, <1>5, <1>6, <1>8, <1>9, <1>10, <1>11

-----------------------------------------------------------------------------
(* The types, part by part.                                                  *)
SlotsOK == step \in [Slots -> Steps] /\ carries \in [Slots -> Requests \cup {Nothing}]
WallOK  == frac \in 0 .. Sub - 1 /\ behind \in [Requests -> -Ahead .. Tolerance + 1]
Entries == [state : {"absent", "in flight", "done"}, age : 0 .. MaxAge]
EntryOK == entry \in [Requests -> Entries]
StoreOK == /\ records \subseteq Requests /\ others \in 0 .. MaxRecords
           /\ Cardinality(records) + others <= MaxRecords /\ inserted \in 0 .. MaxRecords + 1
HistOK  == runs \in [Requests -> Nat] /\ restarts \in 0 .. MaxRestarts

LEMMA TypeParts == GateTypeOK <=> TypeOK /\ SlotsOK /\ WallOK /\ EntryOK /\ StoreOK /\ HistOK
  BY Zenon DEF GateTypeOK, SlotsOK, WallOK, EntryOK, Entries, StoreOK, HistOK

(* Entries that are made, aged or filled are entries.                         *)
LEMMA EntriesAreTyped ==
  /\ NoEntry \in Entries
  /\ [state |-> "in flight", age |-> 0] \in Entries
  /\ \A e \in Entries : Older(e) \in Entries /\ [state |-> "done", age |-> e.age] \in Entries
<1>1. 0 \in 0 .. MaxAge
  BY Constants
<1>2. \A n \in 0 .. MaxAge : (IF n < MaxAge THEN n + 1 ELSE n) \in 0 .. MaxAge
  BY Constants
<1> QED BY <1>1, <1>2 DEF NoEntry, Entries, Older

(* The store keeps its types under all that writes to it.                     *)
LEMMA StoreNext ==
  ASSUME GateTypeOK,
         \/ \E r \in Requests : Disown(r)
         \/ \E mine \in {{}} \cup {{r} : r \in Requests} : Insert(mine)
         \/ UNCHANGED store
  PROVE  StoreOK'
<1>0. StoreOK
  BY TypeParts
<1>1. ASSUME NEW r \in Requests, Disown(r) PROVE StoreOK'
  <2>1. /\ records' \subseteq Requests /\ others' \in 0 .. MaxRecords
        /\ Cardinality(records') + others' = Cardinality(records) + others
        /\ inserted' = inserted
    BY <1>1, DisownKeeps
  <2> QED BY <1>0, <2>1 DEF StoreOK
<1>2. ASSUME NEW mine \in {{}} \cup {{r} : r \in Requests}, Insert(mine) PROVE StoreOK'
  <2>1. /\ records' \subseteq records \cup mine
        /\ others' \in 0 .. MaxRecords
        /\ Cardinality(records') + others' <= MaxRecords
        /\ inserted' \in 0 .. MaxRecords + 1
    BY <1>2, InsertKeeps
  <2>2. mine \subseteq Requests
    OBVIOUS
  <2> QED BY <1>0, <2>1, <2>2 DEF StoreOK
<1>3. CASE UNCHANGED store
  BY <1>0, <1>3 DEF StoreOK, store
<1> QED BY <1>1, <1>2, <1>3

(* Every step keeps the types, and with them who carries what.                *)
LEMMA TypeInvNext == TypeInv /\ [GateNext]_gateVars => TypeInv'
<1> SUFFICES ASSUME TypeInv, [GateNext]_gateVars PROVE TypeInv'
  OBVIOUS
<1>0. GateTypeOK /\ Hands /\ TypeOK /\ SlotsOK /\ WallOK /\ EntryOK /\ StoreOK /\ HistOK
  BY TypeParts DEF TypeInv
<1>t. TypeOK'
  BY <1>0, LimiterTypeNext
<1>p. SlotsOK' /\ WallOK' /\ EntryOK' /\ StoreOK' /\ HistOK' => GateTypeOK'
  BY <1>t DEF GateTypeOK, SlotsOK, WallOK, EntryOK, Entries, StoreOK, HistOK
<1> SUFFICES SlotsOK' /\ WallOK' /\ EntryOK' /\ StoreOK' /\ HistOK' /\ Hands'
  BY <1>p DEF TypeInv
<1>1. CASE GateTick
  <2>1. WallOK'
    BY <1>0, <1>1, Constants DEF GateTick, WallOK
  <2>2. EntryOK'
    BY <1>0, <1>1, EntriesAreTyped DEF GateTick, EntryOK
  <2>3. SlotsOK' /\ HistOK' /\ UNCHANGED store
    BY <1>0, <1>1 DEF GateTick, SlotsOK, HistOK, slotVars, store
  <2>4. Hands'
    BY <1>0, <1>1 DEF GateTick, Hands, slotVars, SlotsOK
  <2> QED BY <1>0, <2>1, <2>2, <2>3, <2>4, StoreNext
<1>2. CASE OthersRecord
  <2>1. SlotsOK' /\ WallOK' /\ EntryOK' /\ HistOK' /\ Hands'
    BY <1>0, <1>2 DEF OthersRecord, SlotsOK, WallOK, EntryOK, HistOK, Hands, Verified, slotVars, wall
  <2>2. Insert({})
    BY <1>2 DEF OthersRecord
  <2> QED BY <1>0, <2>1, <2>2, StoreNext
<1>3. CASE Restart
  <2>1. SlotsOK' /\ EntryOK' /\ Hands'
    BY <1>0, <1>3, Constants, EntriesAreTyped
    DEF Restart, SlotsOK, EntryOK, Hands, EmptySlots, EmptyHands, EmptyEntries, Steps
  <2>2. WallOK' /\ HistOK'
    BY <1>0, <1>3, Constants DEF Restart, WallOK, HistOK, wall
  <2>3. StoreOK'
    BY <1>3, Constants, FS_EmptySet DEF Restart, StoreOK
  <2> QED BY <2>1, <2>2, <2>3
<1>4. ASSUME NEW r \in Requests, Sign(r)
      PROVE  SlotsOK' /\ WallOK' /\ EntryOK' /\ StoreOK' /\ HistOK' /\ Hands'
  <2>1. WallOK'
    BY <1>0, <1>4, Constants DEF Sign, WallOK
  <2>2. EntryOK' /\ HistOK' /\ SlotsOK' /\ Disown(r)
    BY <1>0, <1>4, EntriesAreTyped DEF Sign, EntryOK, HistOK, SlotsOK, slotVars
  <2>3. Hands'
    <3>1. \A s \in Slots : carries[s] # Nothing => behind'[carries[s]] = behind[carries[s]]
      BY <1>0, <1>4 DEF Sign, WallOK, SlotsOK
    <3>2. UNCHANGED slotVars
      BY <1>4 DEF Sign
    <3> QED BY <1>0, <3>1, <3>2 DEF Hands, Verified, slotVars
  <2> QED BY <1>0, <2>1, <2>2, <2>3, StoreNext
<1>5. ASSUME NEW s \in Slots, NEW r \in Requests, Identify(s, r)
      PROVE  SlotsOK' /\ WallOK' /\ EntryOK' /\ StoreOK' /\ HistOK' /\ Hands'
  BY <1>0, <1>5, Constants, StoreNext
  DEF Identify, SlotsOK, WallOK, EntryOK, HistOK, Hands, Verified, Steps, wall, store
<1>6. ASSUME NEW s \in Slots, Handle(s)
      PROVE  SlotsOK' /\ WallOK' /\ EntryOK' /\ StoreOK' /\ HistOK' /\ Hands'
  <2>a. step[s] # "idle" => carries[s] \in Requests
    BY <1>0, <1>6 DEF Hands, SlotsOK
  <2>1. CASE RateLimit(s)
    BY <1>0, <2>1, StoreNext
    DEF RateLimit, Move, Leave, SlotsOK, WallOK, EntryOK, HistOK, Hands, Verified, Steps, wall, store
  <2>2. CASE RefuseKey(s) \/ Replay(s)
    BY <1>0, <2>2, StoreNext
    DEF RefuseKey, Replay, Leave, SlotsOK, WallOK, EntryOK, HistOK, Hands, Verified, Steps, wall, store
  <2>3. CASE Run(s)
    <3>3. carries[s] \in Requests
      BY <2>a, <2>3 DEF Run
    <3>4. /\ entry' = [entry EXCEPT ![carries[s]] = [state |-> "in flight", age |-> 0]]
          /\ runs' = [runs EXCEPT ![carries[s]] = @ + 1]
          /\ Disown(carries[s]) /\ UNCHANGED wall /\ UNCHANGED restarts
      BY <2>3, Zenon DEF Run
    <3>1. EntryOK' /\ HistOK' /\ WallOK' /\ Disown(carries[s])
      <4>1. EntryOK'
        BY <1>0, <3>3, <3>4, EntriesAreTyped DEF EntryOK
      <4>2. HistOK'
        <5>1. runs \in [Requests -> Nat] /\ restarts \in 0 .. MaxRestarts
          BY <1>0 DEF HistOK
        <5>2. runs[carries[s]] + 1 \in Nat
          BY <3>3, <5>1
        <5>3. runs' \in [Requests -> Nat]
          BY <3>4, <5>1, <5>2
        <5> QED BY <3>4, <5>1, <5>3 DEF HistOK
      <4>3. WallOK'
        BY <1>0, <3>4 DEF WallOK, wall
      <4> QED BY <3>4, <4>1, <4>2, <4>3
    <3>2. SlotsOK' /\ Hands'
      BY <1>0, <2>3 DEF Run, Move, SlotsOK, Hands, Verified, Steps, wall
    <3> QED BY <1>0, <3>1, <3>2, <3>3, StoreNext
  <2>4. CASE Drop(s)
    BY <1>0, <2>4, StoreNext
    DEF Drop, Leave, SlotsOK, WallOK, EntryOK, HistOK, Hands, Verified, Steps, wall, store
  <2>5. CASE Record(s)
    <3>1. EntryOK' /\ HistOK' /\ WallOK' /\ Insert({carries[s]})
      BY <1>0, <2>5 DEF Record, EntryOK, HistOK, WallOK, wall
    <3>2. SlotsOK' /\ Hands'
      BY <1>0, <2>5 DEF Record, Move, SlotsOK, Hands, Verified, Steps, wall
    <3>3. carries[s] \in Requests
      BY <2>a, <2>5 DEF Record
    <3> QED BY <1>0, <3>1, <3>2, <3>3, StoreNext
  <2>6. CASE Complete(s)
    <3>1. EntryOK' /\ HistOK' /\ WallOK' /\ UNCHANGED store
      BY <1>0, <2>6, <2>a, EntriesAreTyped DEF Complete, EntryOK, HistOK, WallOK, wall
    <3>2. SlotsOK' /\ Hands'
      BY <1>0, <2>6 DEF Complete, Leave, SlotsOK, Hands, Verified, Steps, wall
    <3> QED BY <1>0, <3>1, <3>2, StoreNext
  <2> QED BY <1>6, <2>1, <2>2, <2>3, <2>4, <2>5, <2>6 DEF Handle
<1>7. CASE UNCHANGED gateVars
  BY <1>0, <1>7, StoreNext
  DEF gateVars, slotVars, wall, store, SlotsOK, WallOK, EntryOK, HistOK, Hands, Verified
<1> QED BY <1>1, <1>2, <1>3, <1>4, <1>5, <1>6, <1>7 DEF GateNext

(* The gate's state keeps its types, and its store the bound of max_entries.  *)
THEOREM GateTypeCorrect == GateSpec => []GateTypeOK
<1>1. TypeInv => GateTypeOK
  BY DEF TypeInv
<1> QED BY <1>1, TypeInvInit, TypeInvNext, PTL DEF GateSpec

-----------------------------------------------------------------------------
(* One message, one handler.                                                 *)

(* A run is over before its entry is.                                         *)
LEMMA RunsAreShort ==
  ASSUME NEW n \in 0 .. MaxAge
  PROVE  /\ n < MaxRun => n < MaxAge /\ n + 1 <= MaxRun
         /\ n <= MaxRun => n < TTL * Sub
         /\ 0 <= MaxRun
<1>1. MaxRun \in Nat /\ MaxAge \in Nat /\ TTL * Sub \in Nat /\ MaxRun < TTL * Sub /\ MaxAge = TTL * Sub
  BY Constants
<1> DEFINE life == TTL * Sub
<1>2. MaxRun \in Nat /\ MaxAge \in Nat /\ life \in Nat /\ MaxRun < life /\ MaxAge = life
  BY <1>1
<1> HIDE DEF life
<1>3. /\ n < MaxRun => n < MaxAge /\ n + 1 <= MaxRun
      /\ n <= MaxRun => n < life
      /\ 0 <= MaxRun
  BY <1>2
<1> QED BY <1>3 DEF life

(* A message keeps its one owner: nobody else takes a key that is in flight   *)
(* and younger than the TTL.                                                 *)
LEMMA OwnersNext == TypeInv /\ Owners /\ [GateNext]_gateVars => Owners'
<1> SUFFICES ASSUME TypeInv, Owners, [GateNext]_gateVars PROVE Owners'
  OBVIOUS
<1>0. Hands /\ SlotsOK /\ EntryOK
  BY TypeParts DEF TypeInv
<1>t. \A s \in Slots : step[s] # "idle" => carries[s] \in Requests
  BY <1>0 DEF Hands, SlotsOK
<1>1. CASE GateTick
  <2>1. \A s \in Slots : Busy(s) =>
           /\ entry'[carries[s]].state = "in flight"
           /\ entry'[carries[s]].age = entry[carries[s]].age + 1
           /\ entry[carries[s]].age < MaxRun
    <3> SUFFICES ASSUME NEW s \in Slots, Busy(s)
                 PROVE  /\ entry'[carries[s]].state = "in flight"
                        /\ entry'[carries[s]].age = entry[carries[s]].age + 1
                        /\ entry[carries[s]].age < MaxRun
      OBVIOUS
    <3>1. carries[s] \in Requests /\ entry[carries[s]].state = "in flight" /\ entry[carries[s]].age < MaxRun
      BY <1>1, <1>t DEF GateTick, Busy, Owners
    <3>2. entry'[carries[s]] = Older(entry[carries[s]])
      BY <1>1, <3>1 DEF GateTick
    <3>3. entry[carries[s]].age \in 0 .. MaxAge
      BY <1>0, <3>1 DEF EntryOK, Entries
    <3>4. /\ entry'[carries[s]].state = entry[carries[s]].state
          /\ entry'[carries[s]].age = IF entry[carries[s]].age < MaxAge
                                     THEN entry[carries[s]].age + 1 ELSE entry[carries[s]].age
      BY <3>2 DEF Older
    <3> QED BY <3>1, <3>3, <3>4, RunsAreShort
  <2>2. \A s \in Slots : Busy(s) => entry[carries[s]].age \in 0 .. MaxAge
    BY <1>0, <1>t DEF EntryOK, Entries, Busy
  <2>3. UNCHANGED slotVars
    BY <1>1 DEF GateTick
  <2>4. \A s \in Slots : Busy(s) => entry'[carries[s]].age <= MaxRun
    BY <2>1, <2>2, RunsAreShort
  <2> QED BY <2>1, <2>3, <2>4 DEF Owners, Busy, slotVars
<1>2. CASE Restart
  BY <1>2 DEF Restart, Owners, Busy, EmptySlots
<1>3. ASSUME NEW r \in Requests, Sign(r) PROVE Owners'
  <2>1. \A s \in Slots : Busy(s) => entry'[carries[s]] = entry[carries[s]]
    BY <1>0, <1>3 DEF Sign, EntryOK
  <2>2. UNCHANGED slotVars
    BY <1>3 DEF Sign
  <2> QED BY <2>1, <2>2 DEF Owners, Busy, slotVars
<1>4. ASSUME NEW s \in Slots, NEW r \in Requests, Identify(s, r) PROVE Owners'
  BY <1>0, <1>4 DEF Identify, Owners, Busy, SlotsOK
<1>5. ASSUME NEW s \in Slots, RateLimit(s) \/ RefuseKey(s) \/ Replay(s) \/ Drop(s) PROVE Owners'
  BY <1>0, <1>5 DEF RateLimit, RefuseKey, Replay, Drop, Move, Leave, Owners, Busy, SlotsOK
<1>6. ASSUME NEW s \in Slots, Run(s) PROVE Owners'
  <2>1. carries[s] \in Requests
    BY <1>t, <1>6 DEF Run
  <2>2. \A t \in Slots : Busy(t) => carries[t] # carries[s]
    <3> SUFFICES ASSUME NEW t \in Slots, Busy(t), carries[t] = carries[s] PROVE FALSE
      OBVIOUS
    <3>1. entry[carries[s]].state = "in flight" /\ entry[carries[s]].age <= MaxRun
      BY DEF Owners
    <3>2. ~Holds(carries[s])
      BY <1>6 DEF Run
    <3>3. entry[carries[s]].age \in 0 .. MaxAge
      BY <1>0, <2>1 DEF EntryOK, Entries
    <3>4. entry[carries[s]].age < TTL * Sub
      BY <3>1, <3>3, RunsAreShort
    <3> QED BY <3>1, <3>2, <3>4 DEF Holds
  <2>3. /\ entry' = [entry EXCEPT ![carries[s]] = [state |-> "in flight", age |-> 0]]
        /\ step' = [step EXCEPT ![s] = "running"] /\ carries' = carries
    BY <1>6 DEF Run, Move
  <2>4. \A t \in Slots : Busy(t)' => t = s \/ Busy(t)
    BY <1>0, <2>3 DEF Busy, SlotsOK
  <2>5. \A t \in Slots : Busy(t) => entry'[carries[t]] = entry[carries[t]]
    BY <1>0, <1>t, <2>2, <2>3 DEF EntryOK, Busy
  <2>6. entry'[carries[s]].state = "in flight" /\ entry'[carries[s]].age <= MaxRun
    <3>1. entry'[carries[s]] = [state |-> "in flight", age |-> 0]
      BY <1>0, <2>1, <2>3 DEF EntryOK
    <3>2. entry'[carries[s]].state = "in flight" /\ entry'[carries[s]].age = 0
      <4>1. /\ [state |-> "in flight", age |-> 0].state = "in flight"
            /\ [state |-> "in flight", age |-> 0].age = 0
        OBVIOUS
      <4> QED BY <3>1, <4>1, Zenon
    <3>3. 0 <= MaxRun
      BY Constants
    <3> QED BY <3>2, <3>3, Zenon
  <2>7. \A t \in Slots : Busy(t)' =>
            entry'[carries[t]].state = "in flight" /\ entry'[carries[t]].age <= MaxRun
    BY <2>4, <2>5, <2>6 DEF Owners
  <2>8. \A t, u \in Slots : Busy(t)' /\ Busy(u)' /\ carries[t] = carries[u] => t = u
    BY <2>2, <2>4 DEF Owners
  <2> QED BY <2>3, <2>7, <2>8 DEF Owners, Busy
<1>7. ASSUME NEW s \in Slots, Record(s) PROVE Owners'
  BY <1>0, <1>7 DEF Record, Move, Owners, Busy, SlotsOK
<1>8. ASSUME NEW s \in Slots, Complete(s) PROVE Owners'
  <2>1. /\ step' = [step EXCEPT ![s] = "idle"] /\ carries' = [carries EXCEPT ![s] = Nothing]
        /\ entry' = [entry EXCEPT ![carries[s]] = [state |-> "done", age |-> @.age]]
    BY <1>8 DEF Complete, Leave
  <2>2. \A t \in Slots : Busy(t)' => t # s /\ Busy(t) /\ carries'[t] = carries[t]
    BY <1>0, <2>1 DEF Busy, SlotsOK
  <2>3. Busy(s)
    BY <1>8 DEF Complete, Busy
  <2>4. \A t \in Slots : Busy(t)' => entry'[carries[t]] = entry[carries[t]]
    BY <1>0, <1>t, <2>1, <2>2, <2>3 DEF EntryOK, Busy, Owners
  <2>5. \A t \in Slots : Busy(t)' =>
            entry'[carries'[t]].state = "in flight" /\ entry'[carries'[t]].age <= MaxRun
    BY <2>2, <2>4 DEF Owners
  <2>6. \A t, u \in Slots : Busy(t)' /\ Busy(u)' /\ carries'[t] = carries'[u] => t = u
    BY <2>2 DEF Owners
  <2> QED BY <2>5, <2>6, Zenon DEF Owners
<1>9. CASE OthersRecord \/ UNCHANGED gateVars
  BY <1>9 DEF OthersRecord, gateVars, slotVars, Owners, Busy
<1> QED BY <1>1, <1>2, <1>3, <1>4, <1>5, <1>6, <1>7, <1>8, <1>9 DEF GateNext, Handle

-----------------------------------------------------------------------------
(* Answers and their records.                                                *)

AnswerInv == TypeInv /\ Owners /\ Stored /\ Recorded /\ AnswerKeepsItsProof

(* Nothing is stored, owned or answered at boot.                              *)
LEMMA AnswerInvInit == GateInit => AnswerInv
<1> SUFFICES ASSUME GateInit PROVE AnswerInv
  OBVIOUS
<1>1. TypeInv
  BY TypeInvInit
<1>2. Cardinality(records) = 0 /\ records = {} /\ others = 0 /\ inserted = 0
  BY FS_EmptySet DEF GateInit
<1>3. \A s \in Slots : step[s] = "idle"
  BY DEF GateInit, EmptySlots
<1>4. \A r \in Requests : entry[r].state = "absent"
  BY DEF GateInit, EmptyEntries, NoEntry
<1>5. Owners /\ Recorded /\ AnswerKeepsItsProof
  BY <1>3, <1>4 DEF Owners, Busy, Recorded, AnswerKeepsItsProof
<1>6. Stored
  BY <1>2 DEF Stored
<1> QED BY <1>1, <1>5, <1>6 DEF AnswerInv

(* As long as max_entries insertions have not passed, the store has lost      *)
(* nothing: it holds as many records as were inserted.                       *)
LEMMA StoredNext == AnswerInv /\ [GateNext]_gateVars => Stored'
<1> SUFFICES ASSUME AnswerInv, [GateNext]_gateVars PROVE Stored'
  OBVIOUS
<1>0. GateTypeOK /\ Hands /\ SlotsOK /\ Stored /\ Recorded
  BY TypeParts DEF AnswerInv, TypeInv
<1>1. ASSUME NEW r \in Requests, Disown(r) PROVE Stored'
  <2>1. Cardinality(records') + others' = Cardinality(records) + others /\ inserted' = inserted
    BY <1>0, <1>1, DisownKeeps
  <2> QED BY <1>0, <2>1 DEF Stored
<1>2. ASSUME NEW mine \in {{}} \cup {{r} : r \in Requests}, Insert(mine), mine \cap records = {}
      PROVE  Stored'
  BY <1>0, <1>2, InsertKeeps
<1>3. CASE UNCHANGED store
  BY <1>0, <1>3 DEF Stored, store
<1>4. CASE Restart
  BY <1>4, FS_EmptySet DEF Restart, Stored
<1>5. ASSUME NEW s \in Slots, Handle(s) PROVE Stored'
  <2>a. step[s] # "idle" => carries[s] \in Requests
    BY <1>0 DEF Hands, SlotsOK
  <2>1. CASE Run(s)
    BY <1>1, <2>1, <2>a DEF Run
  <2>2. CASE Record(s)
    <3>1. carries[s] \in Requests /\ carries[s] \notin records /\ Insert({carries[s]})
      BY <1>0, <2>2, <2>a DEF Record, Recorded
    <3> QED BY <1>2, <3>1
  <2>3. CASE RateLimit(s) \/ RefuseKey(s) \/ Replay(s) \/ Drop(s) \/ Complete(s)
    BY <1>3, <2>3 DEF RateLimit, RefuseKey, Replay, Drop, Complete
  <2> QED BY <1>5, <2>1, <2>2, <2>3 DEF Handle
<1>6. CASE OthersRecord
  BY <1>2, <1>6 DEF OthersRecord
<1>7. CASE \E r \in Requests : Sign(r)
  BY <1>1, <1>7 DEF Sign
<1>8. CASE GateTick \/ UNCHANGED gateVars \/ \E r \in Requests, s \in Slots : Identify(s, r)
  BY <1>3, <1>8 DEF GateTick, gateVars, Identify
<1> QED BY <1>4, <1>5, <1>6, <1>7, <1>8 DEF GateNext

(* What a step does to the record of one message: an insertion within the     *)
(* first max_entries adds to the records, and never takes one away.          *)
LEMMA InsertionKeepsRecords ==
  ASSUME GateTypeOK, Stored, NEW r \in Requests, NEW q,
         Insert({}) \/ Insert({r}), q # r \/ Insert({})
  PROVE  /\ inserted' <= MaxRecords => inserted <= MaxRecords
         /\ q \notin records => q \notin records'
         /\ q \in records /\ inserted' <= MaxRecords => q \in records'
<1>0. inserted \in 0 .. MaxRecords + 1 /\ MaxRecords \in Nat
  BY RecordsAreFinite, Constants
<1>1. PICK mine \in {{}} \cup {{x} : x \in Requests} : Insert(mine) /\ q \notin mine
  OBVIOUS
<1>2. /\ records' \subseteq records \cup mine
      /\ inserted' \in 0 .. MaxRecords + 1 /\ inserted' >= inserted
      /\ inserted' <= MaxRecords => records' = records \cup mine
  BY <1>1, InsertKeeps
<1> QED BY <1>0, <1>1, <1>2

(* A handler that runs has no record yet, and one that recorded still has it. *)
LEMMA RecordedNext == AnswerInv /\ [GateNext]_gateVars => Recorded'
<1> SUFFICES ASSUME AnswerInv, [GateNext]_gateVars PROVE Recorded'
  OBVIOUS
<1>0. GateTypeOK /\ Hands /\ SlotsOK /\ Stored /\ Recorded /\ Owners
  BY TypeParts DEF AnswerInv, TypeInv
<1>t. \A s \in Slots : step[s] # "idle" => carries[s] \in Requests
  BY <1>0 DEF Hands, SlotsOK
<1>o. Owners'
  BY OwnersNext DEF AnswerInv
(* Steps that leave the store alone, and steps that disown a record.          *)
<1>1. ASSUME UNCHANGED store,
             \A t \in Slots : Busy(t)' => step'[t] = step[t] /\ carries'[t] = carries[t]
      PROVE  Recorded'
  BY <1>0, <1>1 DEF Recorded, Busy, store
<1>2. ASSUME NEW r \in Requests, Disown(r),
             \A t \in Slots : step'[t] = "recorded" =>
                 step[t] = "recorded" /\ carries'[t] = carries[t] /\ carries[t] # r,
             \A t \in Slots : step'[t] = "running" =>
                 carries'[t] = r \/ (step[t] = "running" /\ carries'[t] = carries[t])
      PROVE  Recorded'
  BY <1>0, <1>2 DEF Recorded, Disown
<1>3. CASE GateTick \/ UNCHANGED gateVars
  BY <1>1, <1>3 DEF GateTick, gateVars, slotVars
<1>4. CASE Restart
  BY <1>4 DEF Restart, Recorded, EmptySlots
<1>5. ASSUME NEW r \in Requests, Sign(r) PROVE Recorded'
  BY <1>2, <1>5 DEF Sign, slotVars
<1>6. ASSUME NEW s \in Slots, NEW r \in Requests, Identify(s, r) PROVE Recorded'
  BY <1>0, <1>1, <1>6 DEF Identify, Busy, SlotsOK
<1>7. ASSUME NEW s \in Slots, RateLimit(s) \/ RefuseKey(s) \/ Replay(s) \/ Drop(s) \/ Complete(s)
      PROVE  Recorded'
  BY <1>0, <1>1, <1>7 DEF RateLimit, RefuseKey, Replay, Drop, Complete, Move, Leave, Busy, SlotsOK
<1>8. ASSUME NEW s \in Slots, Run(s) PROVE Recorded'
  <2>1. /\ carries[s] \in Requests /\ Disown(carries[s])
        /\ step' = [step EXCEPT ![s] = "running"] /\ carries' = carries
    BY <1>t, <1>8 DEF Run, Move
  <2>2. \A t \in Slots : step'[t] = "recorded" => t # s /\ step[t] = "recorded"
    BY <1>0, <2>1 DEF SlotsOK
  <2>3. \A t \in Slots : step'[t] = "running" => t = s \/ step[t] = "running"
    BY <1>0, <2>1 DEF SlotsOK
  <2>4. step'[s] = "running"
    BY <1>0, <2>1 DEF SlotsOK
  <2>5. \A t \in Slots : step'[t] = "recorded" => carries[t] # carries[s]
    BY <1>o, <2>1, <2>2, <2>4 DEF Owners, Busy
  <2> QED BY <1>2, <2>1, <2>2, <2>3, <2>5
<1>9. ASSUME NEW s \in Slots, Record(s) PROVE Recorded'
  <2>1. /\ carries[s] \in Requests /\ step[s] = "running" /\ Insert({carries[s]})
        /\ step' = [step EXCEPT ![s] = "recorded"] /\ carries' = carries
    BY <1>t, <1>9 DEF Record, Move
  <2>2. ASSUME NEW t \in Slots, t # s, Busy(t)
        PROVE  /\ carries[t] # carries[s] /\ step'[t] = step[t]
    BY <1>0, <2>1, <2>2 DEF Owners, Busy, SlotsOK
  <2>3. \A t \in Slots : t # s /\ step[t] = "running" => carries[t] \notin records'
    BY <1>0, <2>1, <2>2, InsertionKeepsRecords DEF Recorded, Busy
  <2>4. \A t \in Slots : t # s /\ step[t] = "recorded" /\ inserted' <= MaxRecords => carries[t] \in records'
    BY <1>0, <2>1, <2>2, InsertionKeepsRecords DEF Recorded, Busy
  <2>5. step'[s] = "recorded" /\ carries[s] \in records'
    BY <1>0, <2>1, InsertKeeps DEF SlotsOK
  <2>6. \A t \in Slots : t # s => step'[t] = step[t]
    BY <1>0, <2>1 DEF SlotsOK
  <2> QED BY <2>1, <2>3, <2>4, <2>5, <2>6 DEF Recorded
<1>10. CASE OthersRecord
  <2>1. Insert({}) /\ UNCHANGED slotVars
    BY <1>10 DEF OthersRecord
  <2>2. ASSUME NEW s \in Slots, Busy(s)
        PROVE  /\ step[s] = "running" => carries[s] \notin records'
               /\ step[s] = "recorded" /\ inserted' <= MaxRecords => carries[s] \in records'
    <3>1. carries[s] \in Requests
      BY <1>t, <2>2 DEF Busy
    <3> QED BY <1>0, <2>1, <3>1, InsertionKeepsRecords DEF Recorded
  <2> QED BY <2>1, <2>2 DEF Recorded, Busy, slotVars
<1> QED BY <1>3, <1>4, <1>5, <1>6, <1>7, <1>8, <1>9, <1>10 DEF GateNext, Handle

(* An answer is given by the handler that recorded it, and keeps its record   *)
(* until the message runs again.                                             *)
LEMMA AnswersNext == AnswerInv /\ [GateNext]_gateVars => AnswerKeepsItsProof'
<1> SUFFICES ASSUME AnswerInv, [GateNext]_gateVars PROVE AnswerKeepsItsProof'
  OBVIOUS
<1>0. GateTypeOK /\ Hands /\ SlotsOK /\ EntryOK /\ Stored /\ Recorded /\ AnswerKeepsItsProof
  BY TypeParts DEF AnswerInv, TypeInv
<1>t. \A s \in Slots : step[s] # "idle" => carries[s] \in Requests
  BY <1>0 DEF Hands, SlotsOK
<1>1. ASSUME UNCHANGED store, \A q \in Requests : entry'[q].state = "done" => entry[q].state = "done"
      PROVE  AnswerKeepsItsProof'
  BY <1>0, <1>1 DEF AnswerKeepsItsProof, store
<1>2. ASSUME NEW r \in Requests, Disown(r), entry'[r].state # "done",
             \A q \in Requests : q # r => entry'[q] = entry[q]
      PROVE  AnswerKeepsItsProof'
  BY <1>0, <1>2 DEF AnswerKeepsItsProof, Disown
<1>3. ASSUME NEW r \in Requests, Insert({}) \/ (Insert({r}) /\ entry[r].state # "done"), UNCHANGED entry
      PROVE  AnswerKeepsItsProof'
  BY <1>0, <1>3, InsertionKeepsRecords DEF AnswerKeepsItsProof
<1>4. CASE GateTick
  BY <1>1, <1>4 DEF GateTick, Older, NoEntry
<1>5. CASE Restart
  BY <1>5 DEF Restart, AnswerKeepsItsProof, EmptyEntries, NoEntry
<1>6. ASSUME NEW r \in Requests, Sign(r) PROVE AnswerKeepsItsProof'
  BY <1>0, <1>2, <1>6 DEF Sign, EntryOK, NoEntry
<1>7. ASSUME NEW s \in Slots, Handle(s) PROVE AnswerKeepsItsProof'
  <2>1. CASE Run(s)
    <3>1. carries[s] \in Requests /\ Disown(carries[s])
          /\ entry' = [entry EXCEPT ![carries[s]] = [state |-> "in flight", age |-> 0]]
      BY <1>t, <2>1 DEF Run
    <3> QED BY <1>0, <1>2, <3>1 DEF EntryOK
  <2>2. CASE Record(s)
    <3>1. carries[s] \in Requests /\ Insert({carries[s]}) /\ UNCHANGED entry /\ Busy(s)
      BY <1>t, <2>2 DEF Record, Busy
    <3> QED BY <1>3, <3>1 DEF AnswerInv, Owners
  <2>3. CASE Complete(s)
    <3>1. /\ carries[s] \in Requests /\ step[s] = "recorded" /\ UNCHANGED store
          /\ entry' = [entry EXCEPT ![carries[s]] = [state |-> "done", age |-> @.age]]
      BY <1>t, <2>3 DEF Complete
    <3>2. \A q \in Requests : q # carries[s] => entry'[q] = entry[q]
      BY <1>0, <3>1 DEF EntryOK
    <3>3. inserted <= MaxRecords => carries[s] \in records
      BY <1>0, <3>1 DEF Recorded
    <3> QED BY <1>0, <3>1, <3>2, <3>3 DEF AnswerKeepsItsProof, store
  <2>4. CASE RateLimit(s) \/ RefuseKey(s) \/ Replay(s) \/ Drop(s)
    BY <1>1, <2>4 DEF RateLimit, RefuseKey, Replay, Drop
  <2> QED BY <1>7, <2>1, <2>2, <2>3, <2>4 DEF Handle
<1>8. CASE OthersRecord
  <2>1. Insert({}) /\ UNCHANGED entry
    BY <1>8 DEF OthersRecord
  <2>2. ASSUME NEW r \in Requests PROVE AnswerKeepsItsProof'
    BY <1>3, <2>1
  <2> QED BY <2>2 DEF AnswerKeepsItsProof
<1>9. CASE UNCHANGED gateVars \/ \E r \in Requests, s \in Slots : Identify(s, r)
  BY <1>1, <1>9 DEF gateVars, Identify
<1> QED BY <1>4, <1>5, <1>6, <1>7, <1>8, <1>9 DEF GateNext

(* The answer a retry is given names a record that is there, until more than  *)
(* max_entries actions have been recorded since boot.                        *)
THEOREM AnswersKeepTheirProofs == GateSpec => []AnswerKeepsItsProof
<1>1. AnswerInv /\ [GateNext]_gateVars => AnswerInv'
  <2> SUFFICES ASSUME AnswerInv, [GateNext]_gateVars PROVE AnswerInv'
    OBVIOUS
  <2>1. TypeInv' /\ Owners'
    BY TypeInvNext, OwnersNext, Zenon DEF AnswerInv
  <2>2. Stored' /\ Recorded' /\ AnswerKeepsItsProof'
    BY StoredNext, RecordedNext, AnswersNext, Zenon
  <2> QED BY <2>1, <2>2, Zenon DEF AnswerInv
<1>2. AnswerInv => AnswerKeepsItsProof
  BY DEF AnswerInv
<1> QED BY <1>1, <1>2, AnswerInvInit, PTL DEF GateSpec

-----------------------------------------------------------------------------
(* How often a message runs.                                                 *)

(* Arithmetic: products with one factor a step apart, the longest whole       *)
(* number of lives in a span, and a clock's wrap.                            *)
LEMMA Products ==
  ASSUME NEW k \in Nat \ {0}, NEW n \in Int
  PROVE  /\ n * k \in Int /\ (n - 1) * k = n * k - k /\ (n + 1) * k = n * k + k
         /\ n <= 0 => n * k <= 0
  OBVIOUS

LEMMA Fits ==
  ASSUME NEW k \in Nat \ {0}, NEW n \in Int, NEW m \in Nat, n * k <= m
  PROVE  n <= m \div k
<1> DEFINE q == m \div k
<1>1. q \in Int /\ m < (q + 1) * k
  OBVIOUS
<1> HIDE DEF q
<1>2. SUFFICES ASSUME n >= q + 1 PROVE FALSE
  BY <1>1 DEF q
<1>3. (n - (q + 1)) * k >= 0
  BY <1>1, <1>2
<1>4. n * k >= (q + 1) * k
  BY <1>1, <1>3
<1> QED BY <1>1, <1>4

LEMMA Wraps ==
  ASSUME NEW k \in Nat \ {0}, NEW n \in 0 .. k - 1
  PROVE  (n + 1) % k = IF n = k - 1 THEN 0 ELSE n + 1
  OBVIOUS

(* Runs that no restart excuses, the ticks a message is valid for, and how    *)
(* far into them the wall clock is.                                          *)
Earned(r)   == runs[r] - restarts
Span        == (2 * Tolerance + 1) * Sub
Position(r) == (behind[r] + Tolerance) * Sub + frac

(* Every earned run but the first had to wait for the entry of the one before *)
(* it to grow MaxAge old, while the message was valid.                       *)
RunBound(r) ==
    IF behind[r] > Tolerance THEN (Earned(r) - 1) * MaxAge <= Span - 1
    ELSE IF entry[r].state = "absent" THEN Earned(r) <= 0 \/ Earned(r) * MaxAge <= Position(r)
    ELSE (Earned(r) - 1) * MaxAge <= Position(r) - entry[r].age

RunInv == TypeInv /\ Owners /\ \A r \in Requests : RunBound(r)

(* The numbers of one message, typed.                                         *)
LEMMA Numbers ==
  ASSUME GateTypeOK, NEW r \in Requests
  PROVE  /\ Earned(r) \in Int /\ Position(r) \in Int /\ Span - 1 \in Nat
         /\ MaxAge \in Nat \ {0} /\ behind[r] \in Int /\ entry[r].age \in Nat
         /\ entry[r].age <= MaxAge /\ restarts \in Nat
         /\ behind[r] <= Tolerance => Position(r) <= Span - 1
         /\ Verified(r) => 0 <= Position(r)
<1>1. WallOK /\ EntryOK /\ HistOK
  BY TypeParts
<1>2. entry[r].age \in 0 .. MaxAge
  BY <1>1 DEF EntryOK, Entries
<1>3. runs[r] \in Nat /\ restarts \in 0 .. MaxRestarts
  BY <1>1 DEF HistOK
<1>4. behind[r] \in -Ahead .. Tolerance + 1 /\ frac \in 0 .. Sub - 1
  BY <1>1 DEF WallOK
<1>5. behind[r] \in Int /\ frac \in Nat /\ frac <= Sub - 1
  BY <1>4, Constants
<1>6. Earned(r) \in Int /\ restarts \in Nat
  BY <1>3, Constants DEF Earned
<1>7. MaxAge \in Nat \ {0}
  BY Constants
<1>8. Span - 1 \in Nat
  <2>1. 2 * Tolerance + 1 \in Nat /\ 2 * Tolerance + 1 >= 1 /\ Sub \in Nat /\ Sub >= 1
    BY Constants
  <2> DEFINE n == 2 * Tolerance + 1
  <2> HIDE DEF n
  <2>2. n \in Nat /\ n >= 1
    BY <2>1 DEF n
  <2>3. n * Sub >= 1 /\ n * Sub \in Nat
    BY <2>1, <2>2
  <2> QED BY <2>3 DEF Span, n
<1>9. Position(r) \in Int
  BY <1>5, Constants DEF Position
<1>10. ASSUME behind[r] <= Tolerance PROVE Position(r) <= Span - 1
  <2> DEFINE n == behind[r] + Tolerance
             m == 2 * Tolerance
  <2>1. n \in Int /\ m \in Int /\ n <= m /\ Sub \in Nat
    BY <1>5, <1>10, Constants
  <2> HIDE DEF n, m
  <2>2. (m - n) * Sub >= 0
    BY <2>1
  <2>3. n * Sub <= m * Sub
    BY <2>1, <2>2
  <2>4. (m + 1) * Sub = m * Sub + Sub
    BY <2>1
  <2>5. n * Sub \in Int /\ m * Sub \in Int
    BY <2>1
  <2>6. n * Sub + frac <= (m + 1) * Sub - 1
    BY <1>5, <2>1, <2>3, <2>4, <2>5
  <2> QED BY <2>6 DEF Position, Span, n, m
<1>11. ASSUME Verified(r) PROVE 0 <= Position(r)
  <2> DEFINE n == behind[r] + Tolerance
  <2>1. n \in Nat /\ Sub \in Nat
    BY <1>5, <1>11, Constants DEF Verified
  <2> HIDE DEF n
  <2>2. n * Sub \in Nat
    BY <2>1
  <2>3. 0 <= n * Sub + frac
    BY <1>5, <2>2
  <2> QED BY <2>3 DEF Position, n
<1> QED BY <1>2, <1>5, <1>6, <1>7, <1>8, <1>9, <1>10, <1>11

(* What the clock does to a valid message: one tick further on, to its last.  *)
LEMMA PositionTicks ==
  ASSUME GateTypeOK, NEW r \in Requests, GateTick, behind[r] <= Tolerance
  PROVE  Position(r)' = Position(r) + 1
<1>1. behind[r] \in Int /\ frac \in 0 .. Sub - 1 /\ Sub \in Nat \ {0} /\ Tolerance \in Nat
  BY TypeParts, Constants DEF WallOK
<1>2. frac' = IF frac = Sub - 1 THEN 0 ELSE frac + 1
  BY <1>1, Wraps DEF GateTick
<1>3. behind'[r] = IF frac' = 0 THEN behind[r] + 1 ELSE behind[r]
  BY DEF GateTick
<1> DEFINE n == behind[r] + Tolerance
<1>4. n \in Int /\ (n + 1) * Sub = n * Sub + Sub /\ n * Sub \in Int
  BY <1>1, Products
<1>5. CASE frac = Sub - 1
  <2>1. frac' = 0 /\ behind'[r] + Tolerance = n + 1
    BY <1>1, <1>2, <1>3, <1>5
  <2>2. Position(r)' = (n + 1) * Sub
    BY <1>1, <1>4, <2>1 DEF Position
  <2>3. Position(r) = n * Sub + (Sub - 1)
    BY <1>5 DEF Position
  <2> HIDE DEF n
  <2> QED BY <1>1, <1>4, <2>2, <2>3
<1>6. CASE frac # Sub - 1
  <2>1. frac' = frac + 1 /\ behind'[r] + Tolerance = n
    BY <1>1, <1>2, <1>3, <1>6
  <2>2. Position(r)' = n * Sub + (frac + 1) /\ Position(r) = n * Sub + frac
    BY <2>1 DEF Position
  <2> HIDE DEF n
  <2> QED BY <1>1, <1>4, <2>2
<1> QED BY <1>5, <1>6

(* The bound, for whatever has become of the message's entry.                 *)
LEMMA BoundStays ==
  ASSUME TypeInv, NEW r \in Requests, RunBound(r), UNCHANGED <<wall, restarts>>,
         runs'[r] = runs[r], entry'[r].age = entry[r].age,
         entry'[r].state = "absent" <=> entry[r].state = "absent"
  PROVE  RunBound(r)'
<1>1. Earned(r)' = Earned(r) /\ Position(r)' = Position(r) /\ behind' = behind
  BY DEF Earned, Position, wall
<1> QED BY <1>1, Zenon DEF RunBound

(* Time moves the position and ages the entry, together.                      *)
LEMMA BoundTicks ==
  ASSUME TypeInv, NEW r \in Requests, RunBound(r), GateTick
  PROVE  RunBound(r)'
<1>0. GateTypeOK /\ WallOK /\ EntryOK
  BY TypeParts DEF TypeInv
<1>1. /\ Earned(r) \in Int /\ Position(r) \in Int /\ Span - 1 \in Nat
      /\ MaxAge \in Nat \ {0} /\ behind[r] \in Int /\ entry[r].age \in Nat
      /\ behind[r] <= Tolerance => Position(r) <= Span - 1
  BY <1>0, Numbers
<1>2. Earned(r)' = Earned(r)
  BY DEF GateTick, Earned
<1>3. Earned(r) * MaxAge \in Int /\ (Earned(r) - 1) * MaxAge = Earned(r) * MaxAge - MaxAge
      /\ Earned(r) <= 0 => Earned(r) * MaxAge <= 0
  BY <1>1, Products
<1>4. CASE behind[r] > Tolerance
  <2>1. behind'[r] = behind[r]
    BY <1>1, <1>4, Constants DEF GateTick
  <2> QED BY <1>2, <1>4, <2>1 DEF RunBound
<1>5. CASE ~(behind[r] > Tolerance)
  <2>0. behind[r] <= Tolerance
    BY <1>1, <1>5, Constants
  <2>1. Position(r)' = Position(r) + 1
    BY <1>0, <2>0, PositionTicks
  <2>2. CASE entry[r].state = "absent"
    <3>1. Earned(r) <= 0 \/ Earned(r) * MaxAge <= Position(r)
      BY <1>5, <2>2 DEF RunBound
    <3>2. entry'[r].state = "absent"
      BY <2>2 DEF GateTick, NoEntry
    <3>3. Earned(r) <= 0 \/ Earned(r) * MaxAge <= Position(r) + 1
      BY <1>1, <1>3, <3>1
    <3>4. (Earned(r) - 1) * MaxAge <= Span - 1
      BY <1>1, <1>3, <2>0, <3>1
    <3> QED BY <1>2, <2>1, <3>2, <3>3, <3>4 DEF RunBound, Span
  <2>3. CASE entry[r].state # "absent"
    <3>1. (Earned(r) - 1) * MaxAge <= Position(r) - entry[r].age
      BY <1>5, <2>3 DEF RunBound
    <3>2. entry'[r] = Older(entry[r])
      BY <2>3 DEF GateTick
    <3>3. /\ entry'[r].state # "absent"
          /\ entry'[r].age = IF entry[r].age < MaxAge THEN entry[r].age + 1 ELSE entry[r].age
      BY <2>3, <3>2 DEF Older
    <3>4. (Earned(r) - 1) * MaxAge <= (Position(r) + 1) - entry'[r].age
      BY <1>1, <1>3, <3>1, <3>3
    <3>5. (Earned(r) - 1) * MaxAge <= Span - 1
      BY <1>1, <1>3, <2>0, <3>1
    <3> QED BY <1>2, <2>1, <3>3, <3>4, <3>5 DEF RunBound, Span
  <2> QED BY <2>2, <2>3
<1> QED BY <1>4, <1>5

(* A run is one more, of an entry that was never there or has expired.        *)
LEMMA BoundRuns ==
  ASSUME TypeInv, NEW s \in Slots, NEW r \in Requests, carries[s] = r, RunBound(r), Run(s)
  PROVE  RunBound(r)'
<1>0. GateTypeOK /\ Hands /\ EntryOK /\ HistOK
  BY TypeParts DEF TypeInv
<1>1. /\ Earned(r) \in Int /\ Position(r) \in Int /\ MaxAge \in Nat \ {0} /\ behind[r] \in Int
      /\ entry[r].age \in Nat /\ entry[r].age <= MaxAge /\ restarts \in Nat
      /\ Verified(r) => 0 <= Position(r)
  BY <1>0, Numbers
<1>2. Verified(r)
  BY <1>0 DEF Run, Hands
<1>3. behind[r] <= Tolerance
  BY <1>1, <1>2, Constants DEF Verified
<1>4. /\ step[s] = "admitted" /\ ~Holds(r) /\ carries' = carries
      /\ entry' = [entry EXCEPT ![r] = [state |-> "in flight", age |-> 0]]
      /\ runs' = [runs EXCEPT ![r] = @ + 1] /\ UNCHANGED wall /\ restarts' = restarts
  BY DEF Run, Move
<1>5. Earned(r)' = Earned(r) + 1
  <2>1. runs[r] \in Nat /\ runs'[r] = runs[r] + 1 /\ restarts' = restarts
    BY <1>0, <1>4 DEF HistOK
  <2>2. (runs[r] + 1) - restarts = (runs[r] - restarts) + 1
    BY <1>1, <2>1
  <2> QED BY <2>1, <2>2 DEF Earned
<1>6. Position(r)' = Position(r) /\ behind'[r] = behind[r]
  BY <1>4 DEF Position, wall
<1>7. entry'[r] = [state |-> "in flight", age |-> 0]
  BY <1>0, <1>4 DEF EntryOK
<1>8. entry'[r].state = "in flight" /\ entry'[r].age = 0
  <2>1. /\ [state |-> "in flight", age |-> 0].state = "in flight"
        /\ [state |-> "in flight", age |-> 0].age = 0
    OBVIOUS
  <2> QED BY <1>7, <2>1, Zenon
<1>9. Earned(r) * MaxAge <= Position(r)
  <2>1. Earned(r) * MaxAge \in Int /\ (Earned(r) - 1) * MaxAge = Earned(r) * MaxAge - MaxAge
        /\ Earned(r) <= 0 => Earned(r) * MaxAge <= 0
    BY <1>1, Products
  <2>2. CASE entry[r].state = "absent"
    <3>1. Earned(r) <= 0 \/ Earned(r) * MaxAge <= Position(r)
      BY <1>1, <1>3, <2>2, Constants DEF RunBound
    <3> QED BY <1>1, <1>2, <2>1, <3>1
  <2>3. CASE entry[r].state # "absent"
    <3>1. (Earned(r) - 1) * MaxAge <= Position(r) - entry[r].age
      BY <1>1, <1>3, <2>3, Constants DEF RunBound
    <3>2. ~(entry[r].age < TTL * Sub)
      BY <1>4, <2>3 DEF Holds
    <3>3. entry[r].age = MaxAge
      BY <1>1, <3>2, Constants
    <3> QED BY <1>1, <2>1, <3>1, <3>3
  <2> QED BY <2>2, <2>3
<1>10. (Earned(r)' - 1) * MaxAge <= Position(r)' - entry'[r].age
  <2>1. Earned(r)' - 1 = Earned(r)
    BY <1>1, <1>5
  <2>2. Position(r)' - entry'[r].age = Position(r)
    <3>1. Position(r) - 0 = Position(r)
      BY <1>1
    <3> QED BY <1>6, <1>8, <3>1, Zenon
  <2> QED BY <1>9, <2>1, <2>2, Zenon
<1>11. ~(behind'[r] > Tolerance)
  BY <1>1, <1>3, <1>6, Constants
<1>12. entry'[r].state # "absent"
  BY <1>8
<1> QED BY <1>10, <1>11, <1>12, Zenon DEF RunBound

(* Every step keeps the bound of every message.                               *)
LEMMA RunInvNext == RunInv /\ [GateNext]_gateVars => RunInv'
<1> SUFFICES ASSUME RunInv, [GateNext]_gateVars PROVE RunInv'
  OBVIOUS
<1>0. TypeInv /\ GateTypeOK /\ Hands /\ SlotsOK /\ EntryOK /\ HistOK /\ WallOK
  BY TypeParts DEF RunInv, TypeInv
<1>i. TypeInv' /\ Owners'
  BY TypeInvNext, OwnersNext DEF RunInv
<1> SUFFICES ASSUME NEW r \in Requests PROVE RunBound(r)'
  BY <1>i DEF RunInv
<1>b. RunBound(r)
  BY DEF RunInv
<1>1. CASE GateTick
  BY <1>0, <1>1, <1>b, BoundTicks
<1>2. ASSUME UNCHANGED <<wall, restarts, entry, runs>> PROVE RunBound(r)'
  BY <1>0, <1>2, <1>b, BoundStays
<1>3. CASE OthersRecord \/ UNCHANGED gateVars \/ \E q \in Requests, s \in Slots : Identify(s, q)
  BY <1>2, <1>3 DEF OthersRecord, gateVars, Identify
<1>4. CASE Restart
  <2>1. /\ Earned(r) \in Int /\ Position(r) \in Int /\ Span - 1 \in Nat /\ MaxAge \in Nat \ {0}
        /\ behind[r] \in Int /\ entry[r].age \in Nat /\ restarts \in Nat /\ runs[r] \in Nat
    BY <1>0, Numbers DEF HistOK
  <2>2. restarts' = restarts + 1 /\ runs' = runs /\ frac' = frac /\ behind' = behind
        /\ entry' = EmptyEntries
    BY <1>4 DEF Restart, wall
  <2>3. Position(r)' = Position(r)
    BY <2>2 DEF Position
  <2>4. Earned(r)' = Earned(r) - 1
    <3>1. runs[r] - (restarts + 1) = (runs[r] - restarts) - 1
      BY <2>1
    <3> QED BY <2>2, <3>1, Zenon DEF Earned
  <2>5. entry'[r].state = "absent"
    BY <2>2 DEF EmptyEntries, NoEntry
  <2>6. /\ Earned(r) * MaxAge \in Int /\ (Earned(r) - 1) * MaxAge = Earned(r) * MaxAge - MaxAge
        /\ Earned(r) <= 0 => Earned(r) * MaxAge <= 0
    BY <2>1, Products
  <2>7. ((Earned(r) - 1) - 1) * MaxAge = (Earned(r) - 1) * MaxAge - MaxAge
    BY <2>1, Products
  <2>8. CASE behind[r] > Tolerance
    <3>1. ((Earned(r) - 1) - 1) * MaxAge <= Span - 1
      BY <1>b, <2>1, <2>6, <2>7, <2>8 DEF RunBound
    <3> QED BY <2>2, <2>4, <2>8, <3>1, Zenon DEF RunBound
  <2>9. CASE ~(behind[r] > Tolerance)
    <3>1. Earned(r) <= 0 \/ (Earned(r) - 1) * MaxAge <= Position(r)
      <4>1. CASE entry[r].state = "absent"
        <5>1. Earned(r) <= 0 \/ Earned(r) * MaxAge <= Position(r)
          BY <1>b, <2>9, <4>1, Zenon DEF RunBound
        <5> QED BY <2>1, <2>6, <5>1
      <4>2. CASE entry[r].state # "absent"
        <5>1. (Earned(r) - 1) * MaxAge <= Position(r) - entry[r].age
          BY <1>b, <2>9, <4>2, Zenon DEF RunBound
        <5> QED BY <2>1, <2>6, <5>1
      <4> QED BY <4>1, <4>2
    <3>2. Earned(r) - 1 <= 0 \/ (Earned(r) - 1) * MaxAge <= Position(r)
      BY <2>1, <3>1
    <3> QED BY <2>2, <2>3, <2>4, <2>5, <2>9, <3>2, Zenon DEF RunBound
  <2> QED BY <2>8, <2>9
<1>5. ASSUME NEW q \in Requests, Sign(q) PROVE RunBound(r)'
  <2>1. CASE r # q
    <3>1. behind'[r] = behind[r] /\ entry'[r] = entry[r] /\ runs'[r] = runs[r]
          /\ frac' = frac /\ restarts' = restarts
      BY <1>0, <1>5, <2>1 DEF Sign, WallOK, EntryOK, HistOK
    <3>2. Earned(r)' = Earned(r) /\ Position(r)' = Position(r)
      BY <3>1 DEF Earned, Position
    <3> QED BY <1>b, <3>1, <3>2, Zenon DEF RunBound
  <2>2. CASE r = q
    <3>1. behind'[r] \in -Ahead .. 0 /\ entry'[r] = NoEntry /\ runs'[r] = 0 /\ restarts' = restarts
      BY <1>0, <1>5, <2>2 DEF Sign, WallOK, EntryOK, HistOK
    <3>2. Earned(r)' <= 0
      <4>1. restarts \in Nat
        BY <1>0, Numbers
      <4> QED BY <3>1, <4>1 DEF Earned
    <3>3. ~(behind'[r] > Tolerance)
      BY <3>1, Constants
    <3>4. entry'[r].state = "absent"
      BY <3>1 DEF NoEntry
    <3> QED BY <3>2, <3>3, <3>4, Zenon DEF RunBound
  <2> QED BY <2>1, <2>2
<1>6. ASSUME NEW s \in Slots, Handle(s) PROVE RunBound(r)'
  <2>1. CASE RateLimit(s) \/ RefuseKey(s) \/ Replay(s) \/ Drop(s) \/ Record(s)
    BY <1>2, <2>1 DEF RateLimit, RefuseKey, Replay, Drop, Record
  <2>2. CASE Run(s)
    <3>1. CASE carries[s] = r
      BY <1>0, <1>b, <2>2, <3>1, BoundRuns
    <3>2. CASE carries[s] # r
      <4>1. entry'[r] = entry[r] /\ runs'[r] = runs[r] /\ UNCHANGED <<wall, restarts>>
        BY <1>0, <2>2, <3>2 DEF Run, EntryOK, HistOK
      <4> QED BY <1>0, <1>b, <4>1, BoundStays
    <3> QED BY <3>1, <3>2
  <2>3. CASE Complete(s)
    <3>1. /\ entry' = [entry EXCEPT ![carries[s]] = [state |-> "done", age |-> @.age]]
          /\ UNCHANGED <<wall, restarts, runs>>
      BY <2>3 DEF Complete
    <3>2. \/ entry'[r] = entry[r]
          \/ carries[s] = r /\ entry'[r].state = "done" /\ entry'[r].age = entry[r].age
      BY <1>0, <3>1 DEF EntryOK
    <3>3. entry[carries[s]].state = "in flight" \/ carries[s] # r
      BY <2>3 DEF Complete, RunInv, Owners, Busy
    <3>4. entry'[r].age = entry[r].age /\ (entry'[r].state = "absent" <=> entry[r].state = "absent")
      <4>1. "done" # "absent" /\ "in flight" # "absent"
        OBVIOUS
      <4> QED BY <3>2, <3>3, <4>1, Zenon
    <3> QED BY <1>0, <1>b, <3>1, <3>4, BoundStays
  <2> QED BY <1>6, <2>1, <2>2, <2>3 DEF Handle
<1> QED BY <1>1, <1>3, <1>4, <1>5, <1>6 DEF GateNext

(* No message runs more often than the TTL fits between its first valid tick  *)
(* and its last, and once more for each restart.                             *)
THEOREM SignedRunsAreBounded == GateSpec => []SignedRunsBounded
<1>1. GateInit => RunInv
  <2> SUFFICES ASSUME GateInit PROVE RunInv
    OBVIOUS
  <2>1. TypeInv /\ Owners
    BY TypeInvInit, AnswerInvInit DEF AnswerInv
  <2>2. ASSUME NEW r \in Requests PROVE RunBound(r)
    <3>1. behind[r] \in -Ahead .. 0 /\ runs[r] = 0 /\ restarts = 0 /\ entry[r].state = "absent"
      BY DEF GateInit, EmptyEntries, NoEntry
    <3>2. Earned(r) <= 0 /\ ~(behind[r] > Tolerance)
      BY <3>1, Constants DEF Earned
    <3> QED BY <3>1, <3>2, Zenon DEF RunBound
  <2> QED BY <2>1, <2>2 DEF RunInv
<1>2. RunInv => SignedRunsBounded
  <2> SUFFICES ASSUME RunInv, NEW r \in Requests PROVE runs[r] <= MostRuns + restarts
    BY DEF SignedRunsBounded
  <2>0. GateTypeOK /\ HistOK
    BY TypeParts DEF RunInv, TypeInv
  <2>1. /\ Earned(r) \in Int /\ Position(r) \in Int /\ Span - 1 \in Nat /\ MaxAge \in Nat \ {0}
        /\ behind[r] \in Int /\ entry[r].age \in Nat /\ restarts \in Nat /\ runs[r] \in Nat
        /\ behind[r] <= Tolerance => Position(r) <= Span - 1
    BY <2>0, Numbers DEF HistOK
  <2>2. /\ Earned(r) * MaxAge \in Int /\ (Earned(r) - 1) * MaxAge = Earned(r) * MaxAge - MaxAge
        /\ Earned(r) - 1 <= 0 => (Earned(r) - 1) * MaxAge <= 0
    BY <2>1, Products
  <2>3. (Earned(r) - 1) * MaxAge <= Span - 1
    BY <2>1, <2>2, Constants DEF RunInv, RunBound
  <2>4. Earned(r) - 1 \in Int
    BY <2>1
  <2>5. Earned(r) - 1 <= (Span - 1) \div MaxAge
    BY <2>1, <2>3, <2>4, Fits
  <2>6. (Span - 1) \div MaxAge \in Int
    BY <2>1
  <2>7. MostRuns = 1 + (Span - 1) \div MaxAge
    BY DEF MostRuns, Span, MaxAge
  <2> HIDE DEF Span, MaxAge
  <2> QED BY <2>1, <2>5, <2>6, <2>7 DEF Earned
<1> QED BY <1>1, <1>2, RunInvNext, PTL DEF GateSpec

-----------------------------------------------------------------------------
(* The gate's entries are the table that the cache was shown to implement.    *)
Runners(r) == {s \in Slots : Busy(s) /\ carries[s] = r}
Status(r)  == IF Holds(r) THEN entry[r].state ELSE "absent"
Answer(r)  == IF Status(r) = "done" THEN "answered" ELSE "none"

Ledger == INSTANCE SingleFlight
  WITH Tasks <- Slots, Keys <- Requests, Results <- {"answered"}, NoResult <- "none",
       status <- [r \in Requests |-> Status(r)], answer <- [r \in Requests |-> Answer(r)],
       runners <- [r \in Requests |-> Runners(r)]

(* Slots that are not busy come and go unseen.                                *)
LEMMA UnseenByLedger ==
  ASSUME entry' = entry, \A s \in Slots : (Busy(s)' <=> Busy(s)) /\ (Busy(s) => carries'[s] = carries[s])
  PROVE  UNCHANGED Ledger!vars
<1>1. ASSUME NEW r \in Requests PROVE Status(r)' = Status(r) /\ Answer(r)' = Answer(r) /\ Runners(r)' = Runners(r)
  BY DEF Status, Answer, Runners, Holds
<1> QED BY <1>1 DEF Ledger!vars

(* A message that is run is held, by its one runner.                          *)
LEMMA RunnersHold ==
  ASSUME TypeInv, Owners, NEW s \in Slots, Busy(s)
  PROVE  /\ carries[s] \in Requests
         /\ Holds(carries[s]) /\ Status(carries[s]) = "in flight"
         /\ Runners(carries[s]) = {s}
<1>1. carries[s] \in Requests /\ EntryOK
  BY TypeParts DEF TypeInv, Hands, SlotsOK, Busy
<1>2. entry[carries[s]].state = "in flight" /\ entry[carries[s]].age <= MaxRun
  BY DEF Owners
<1>3. entry[carries[s]].age \in 0 .. MaxAge
  BY <1>1 DEF EntryOK, Entries
<1>4. Holds(carries[s])
  BY <1>2, <1>3, RunsAreShort DEF Holds
<1>5. Runners(carries[s]) = {s}
  BY DEF Runners, Owners
<1> QED BY <1>1, <1>2, <1>4, <1>5 DEF Status

(* Entries that go, go without a runner.                                      *)
LEMMA LedgerForgets ==
  ASSUME UNCHANGED slotVars,
         \A r \in Requests : Status(r)' = Status(r) \/ (Status(r)' = "absent" /\ Runners(r) = {})
  PROVE  [Ledger!Next]_(Ledger!vars)
<1> DEFINE gone == {r \in Requests : Status(r)' # Status(r)}
<1>1. \A r \in Requests : Runners(r)' = Runners(r)
  BY DEF slotVars, Runners, Busy
<1>2. \A r \in Requests : r \notin gone => Status(r)' = Status(r) /\ Answer(r)' = Answer(r)
  BY DEF Answer
<1>3. \A r \in gone : /\ Status(r)' = "absent" /\ Status(r) # "absent" /\ Runners(r) = {}
                      /\ Answer(r)' = "none"
  BY DEF Answer
<1>4. gone \subseteq Requests
  OBVIOUS
<1> HIDE DEF gone
<1>5. CASE gone = {}
  BY <1>1, <1>2, <1>5 DEF Ledger!vars
<1>6. CASE gone # {}
  <2>1. Ledger!Forget(gone)
    BY <1>1, <1>2, <1>3, <1>4 DEF Ledger!Forget
  <2> QED BY <1>4, <1>6, <2>1 DEF Ledger!Next
<1> QED BY <1>5, <1>6

LEMMA LedgerNext ==
  ASSUME TypeInv, Owners, [GateNext]_gateVars
  PROVE  [Ledger!Next \/ Ledger!Init']_(Ledger!vars)
<1>0. /\ SlotsOK /\ EntryOK /\ Hands /\ TypeInv' /\ Owners'
  BY TypeParts, TypeInvNext, OwnersNext DEF TypeInv
<1>t. \A s \in Slots : step[s] # "idle" => carries[s] \in Requests
  BY <1>0 DEF Hands, SlotsOK
<1>1. CASE UNCHANGED gateVars \/ OthersRecord
  <2>1. UNCHANGED <<entry, step, carries>>
    BY <1>1 DEF gateVars, slotVars, OthersRecord
  <2> QED BY <2>1, UnseenByLedger DEF Busy
<1>2. ASSUME NEW s \in Slots, NEW r \in Requests, Identify(s, r) PROVE UNCHANGED Ledger!vars
  BY <1>0, <1>2, UnseenByLedger DEF Identify, SlotsOK, Busy
<1>3. ASSUME NEW s \in Slots, RateLimit(s) \/ RefuseKey(s) \/ Replay(s) PROVE UNCHANGED Ledger!vars
  BY <1>0, <1>3, UnseenByLedger DEF RateLimit, RefuseKey, Replay, Move, Leave, SlotsOK, Busy
<1>4. ASSUME NEW s \in Slots, Record(s) PROVE UNCHANGED Ledger!vars
  BY <1>0, <1>4, UnseenByLedger DEF Record, Move, SlotsOK, Busy
<1>5. CASE Restart
  <2>1. /\ \A s \in Slots : ~Busy(s)'
        /\ \A r \in Requests : ~Holds(r)'
    BY <1>5 DEF Restart, EmptySlots, EmptyEntries, NoEntry, Busy, Holds
  <2>2. \A r \in Requests : Status(r)' = "absent" /\ Answer(r)' = "none" /\ Runners(r)' = {}
    BY <2>1 DEF Status, Answer, Runners
  <2> QED BY <2>2 DEF Ledger!Init
<1>6. CASE GateTick
  <2>1. UNCHANGED slotVars /\ UNCHANGED <<step, carries>>
    BY <1>6 DEF GateTick, slotVars
  <2>2. ASSUME NEW r \in Requests, ~Holds(r) PROVE ~Holds(r)'
    <3>1. entry[r].age \in 0 .. MaxAge /\ TTL * Sub \in Nat /\ MaxAge = TTL * Sub
      BY <1>0, Constants DEF EntryOK, Entries
    <3>2. CASE entry[r].state = "absent"
      BY <1>6, <3>2 DEF GateTick, NoEntry, Holds
    <3>3. CASE entry[r].state # "absent"
      <4>1. ~(entry[r].age < TTL * Sub)
        BY <2>2, <3>1, <3>3 DEF Holds
      <4>2. entry[r].age = MaxAge
        BY <3>1, <4>1
      <4>3. entry'[r].age = MaxAge
        <5>1. ~(entry[r].age < MaxAge)
          BY <3>1, <4>2
        <5> QED BY <1>6, <3>3, <4>2, <5>1, Zenon DEF GateTick, Older
      <4> QED BY <3>1, <4>3 DEF Holds
    <3> QED BY <3>2, <3>3
  <2>3. ASSUME NEW r \in Requests, Holds(r)' PROVE entry'[r].state = entry[r].state
    BY <1>6, <2>3 DEF GateTick, Older, NoEntry, Holds
  <2>4. ASSUME NEW r \in Requests, NEW s \in Runners(r) PROVE Holds(r)'
    <3>1. Busy(s)' /\ carries'[s] = r /\ s \in Slots
      BY <2>1, <2>4 DEF Runners, Busy
    <3>2. entry'[r].state = "in flight" /\ entry'[r].age <= MaxRun /\ entry'[r].age \in 0 .. MaxAge
      <4>1. EntryOK'
        BY <1>0, TypeParts DEF TypeInv, EntryOK, Entries, GateTypeOK, MaxAge
      <4> QED BY <1>0, <3>1, <4>1 DEF Owners, EntryOK, Entries, MaxAge
    <3> QED BY <3>2, RunsAreShort DEF Holds
  <2>5. ASSUME NEW r \in Requests
        PROVE  Status(r)' = Status(r) \/ (Status(r)' = "absent" /\ Runners(r) = {})
    BY <2>2, <2>3, <2>4 DEF Status
  <2> QED BY <2>1, <2>5, LedgerForgets
<1>7. ASSUME NEW r \in Requests, Sign(r) PROVE [Ledger!Next]_(Ledger!vars)
  <2>1. UNCHANGED slotVars /\ Runners(r) = {}
    BY <1>7 DEF Sign, Runners
  <2>2. Status(r)' = "absent"
    BY <1>0, <1>7 DEF Sign, Status, Holds, NoEntry, EntryOK
  <2>3. \A q \in Requests \ {r} : Status(q)' = Status(q)
    BY <1>0, <1>7 DEF Sign, Status, Holds, EntryOK
  <2> QED BY <2>1, <2>2, <2>3, LedgerForgets
<1>8. ASSUME NEW s \in Slots, Run(s) PROVE Ledger!Next
  <2>0. step[s] = "admitted" /\ carries[s] \in Requests
    BY <1>t, <1>8 DEF Run
  <2> PICK r \in Requests : r = carries[s]
    BY <2>0
  <2>1. /\ step[s] = "admitted" /\ r = carries[s] /\ ~Holds(r)
        /\ entry' = [entry EXCEPT ![r] = [state |-> "in flight", age |-> 0]]
        /\ step' = [step EXCEPT ![s] = "running"] /\ carries' = carries
    BY <1>t, <1>8 DEF Run, Move
  <2>2. \A u \in Slots : Busy(u) => carries[u] # r
    BY <2>1, RunnersHold
  <2>3. \A k \in Requests : s \notin Runners(k)
    BY <2>1 DEF Runners, Busy
  <2>4. Status(r) = "absent" /\ Answer(r) = "none" /\ Runners(r) = {}
    BY <2>1, <2>2 DEF Status, Answer, Runners
  <2>5. 0 < TTL * Sub
    <3>1. 0 \in 0 .. MaxAge
      BY Constants
    <3> QED BY <3>1, RunsAreShort
  <2>6. /\ entry'[r] = [state |-> "in flight", age |-> 0]
        /\ \A k \in Requests \ {r} : entry'[k] = entry[k]
    BY <1>0, <2>1 DEF EntryOK
  <2>7. \A k \in Requests \ {r} : Status(k)' = Status(k) /\ Answer(k)' = Answer(k)
    BY <2>6 DEF Status, Answer, Holds
  <2>8. Status(r)' = "in flight" /\ Answer(r)' = "none"
    <3>1. entry'[r].state = "in flight" /\ entry'[r].age = 0
      <4>1. entry'[r] = [state |-> "in flight", age |-> 0]
        BY <2>6
      <4>2. /\ [state |-> "in flight", age |-> 0].state = "in flight"
            /\ [state |-> "in flight", age |-> 0].age = 0
        OBVIOUS
      <4> QED BY <4>1, <4>2, Zenon
    <3>2. Holds(r)'
      BY <2>5, <3>1 DEF Holds
    <3> QED BY <3>1, <3>2 DEF Status, Answer
  <2>9. \A u \in Slots : Busy(u)' <=> (Busy(u) \/ u = s)
    BY <1>0, <2>1 DEF Busy, SlotsOK
  <2>10. \A k \in Requests : Runners(k)' = IF k = r THEN {s} ELSE Runners(k)
    BY <2>1, <2>2, <2>3, <2>9 DEF Runners
  <2>11. Ledger!Acquire(s, r)
    BY <2>1, <2>3, <2>4, <2>7, <2>8, <2>10 DEF Ledger!Acquire, Ledger!Idle
  <2> QED BY <2>1, <2>11 DEF Ledger!Next
<1>9. ASSUME NEW s \in Slots, Drop(s) PROVE Ledger!Next
  <2>1. /\ Busy(s) /\ entry' = entry
        /\ step' = [step EXCEPT ![s] = "idle"] /\ carries' = [carries EXCEPT ![s] = Nothing]
    BY <1>9 DEF Drop, Leave, Busy
  <2>2. PICK r \in Requests : r = carries[s] /\ Runners(r) = {s}
    BY <2>1, RunnersHold
  <2>3. \A k \in Requests : Status(k)' = Status(k) /\ Answer(k)' = Answer(k)
    BY <2>1 DEF Status, Answer, Holds
  <2>4. \A u \in Slots : /\ Busy(u)' <=> (Busy(u) /\ u # s)
                         /\ u # s => carries'[u] = carries[u]
    BY <1>0, <2>1 DEF Busy, SlotsOK
  <2>5. \A k \in Requests : Runners(k)' = IF k = r THEN {} ELSE Runners(k)
    BY <2>2, <2>4 DEF Runners
  <2>6. Ledger!Abandon(s, r)
    BY <2>2, <2>3, <2>5 DEF Ledger!Abandon
  <2> QED BY <2>6 DEF Ledger!Next, Ledger!Finish
<1>10. ASSUME NEW s \in Slots, Complete(s) PROVE Ledger!Next
  <2>1. /\ Busy(s)
        /\ entry' = [entry EXCEPT ![carries[s]] = [state |-> "done", age |-> @.age]]
        /\ step' = [step EXCEPT ![s] = "idle"] /\ carries' = [carries EXCEPT ![s] = Nothing]
    BY <1>10 DEF Complete, Leave, Busy
  <2>2. PICK r \in Requests : /\ r = carries[s] /\ Runners(r) = {s}
                             /\ Holds(r) /\ Status(r) = "in flight"
    BY <2>1, RunnersHold
  <2>3. /\ entry'[r] = [state |-> "done", age |-> entry[r].age]
        /\ \A k \in Requests \ {r} : entry'[k] = entry[k]
    BY <1>0, <2>1, <2>2 DEF EntryOK
  <2>4. \A k \in Requests \ {r} : Status(k)' = Status(k) /\ Answer(k)' = Answer(k)
    BY <2>3 DEF Status, Answer, Holds
  <2>5. Status(r)' = "done" /\ Answer(r)' = "answered"
    <3>1. entry'[r].state = "done" /\ entry'[r].age = entry[r].age
      BY <2>3
    <3>2. Holds(r)'
      BY <2>2, <3>1 DEF Holds
    <3> QED BY <3>1, <3>2 DEF Status, Answer
  <2>6. \A u \in Slots : /\ Busy(u)' <=> (Busy(u) /\ u # s)
                         /\ u # s => carries'[u] = carries[u]
    BY <1>0, <2>1 DEF Busy, SlotsOK
  <2>7. \A k \in Requests : Runners(k)' = IF k = r THEN {} ELSE Runners(k)
    BY <2>2, <2>6 DEF Runners
  <2>8. Ledger!Commit(s, r, "answered")
    BY <2>2, <2>4, <2>5, <2>7 DEF Ledger!Commit
  <2> QED BY <2>8 DEF Ledger!Next, Ledger!Finish
<1> QED BY <1>1, <1>2, <1>3, <1>4, <1>5, <1>6, <1>7, <1>8, <1>9, <1>10 DEF GateNext, Handle

(* To an agent's clients the gate is a single-flight table that a restart      *)
(* empties: however long messages stay valid, whatever is dropped, expires or *)
(* is refused for its rate.                                                  *)
THEOREM GateIsSingleFlight ==
  GateSpec => Ledger!Init /\ [][Ledger!Next \/ Ledger!Init']_(Ledger!vars)
<1>1. GateInit => TypeInv /\ Owners
  BY TypeInvInit DEF GateInit, EmptySlots, Owners, Busy
<1>2. GateInit => Ledger!Init
  <2> SUFFICES ASSUME GateInit PROVE Ledger!Init
    OBVIOUS
  <2>1. \A r \in Requests : Status(r) = "absent" /\ Answer(r) = "none" /\ Runners(r) = {}
    BY DEF GateInit, EmptySlots, EmptyEntries, NoEntry, Busy, Holds, Status, Answer, Runners
  <2> QED BY <2>1 DEF Ledger!Init
<1>3. TypeInv /\ Owners /\ [GateNext]_gateVars => (TypeInv /\ Owners)'
  BY TypeInvNext, OwnersNext
<1>4. TypeInv /\ Owners /\ [GateNext]_gateVars => [Ledger!Next \/ Ledger!Init']_(Ledger!vars)
  BY LedgerNext
<1> QED BY <1>1, <1>2, <1>3, <1>4, PTL DEF GateSpec
=============================================================================
