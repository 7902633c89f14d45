----------------------------- MODULE RateLimiter -----------------------------
(***************************************************************************)
(* One agent's rate limiter: RateLimitState and check_rate_limit of        *)
(* safa-daemon/src/server.rs.  The whole check runs under the limiter's     *)
(* mutex, so it is one step.  The window starts with the first request     *)
(* after the previous one has lasted window_secs: a fixed window, opened   *)
(* on demand.                                                              *)
(*                                                                         *)
(* A tick is a second of Instant; the time since window_start is compared  *)
(* with window_secs only, and count with max_per_window only, so both       *)
(* saturate one past the value they are compared with.                     *)
(***************************************************************************)
EXTENDS Naturals

CONSTANTS
    WindowSecs,     \* window_secs,    > 0 by from_toml_str
    MaxPerWindow    \* max_per_window, > 0 by from_toml_str

ASSUME LimiterConstants == WindowSecs \in Nat \ {0} /\ MaxPerWindow \in Nat \ {0}

VARIABLES
    elapsed,    \* now - window_start, in ticks
    count,      \* requests of this window
    inWindow,   \* history: requests of this window that were admitted
    admits      \* history: [d |-> requests admitted in the last d + 1 ticks, this one included]

vars == <<elapsed, count, inWindow, admits>>

Recent == 0 .. WindowSecs - 1     \* the last WindowSecs ticks, this one included

TypeOK ==
    /\ elapsed \in 0 .. WindowSecs
    /\ count \in 0 .. MaxPerWindow + 1
    /\ inWindow \in Nat
    /\ admits \in [Recent -> Nat]

(* AppState::new: the first window opens at boot, with no request in it.     *)
Init ==
    /\ elapsed = 0
    /\ count = 0
    /\ inWindow = 0
    /\ admits = [d \in Recent |-> 0]

OneMore == admits' = [d \in Recent |-> admits[d] + 1]

Counted == IF count > MaxPerWindow THEN count ELSE count + 1

(* Mutant: the window restarts and its count does not.                       *)
NewWindowKeepsCount ==
    /\ elapsed >= WindowSecs
    /\ elapsed' = 0
    /\ count' = count + 1
    /\ inWindow' = 1
    /\ OneMore

(* The window has run out: it restarts, and this request is its first.       *)
NewWindow ==
    /\ elapsed >= WindowSecs
    /\ elapsed' = 0
    /\ count' = 1
    /\ inWindow' = 1
    /\ OneMore

(* Mutant: the comparison is off by one.                                     *)
AdmitOneMore ==
    /\ elapsed < WindowSecs
    /\ count <= MaxPerWindow /\ count' = count + 1
    /\ inWindow' = inWindow + 1
    /\ OneMore
    /\ UNCHANGED elapsed

(* rl.count += 1, and the comparison with max_per_window.                     *)
Admit ==
    /\ elapsed < WindowSecs
    /\ count' = Counted /\ count' <= MaxPerWindow
    /\ inWindow' = inWindow + 1
    /\ OneMore
    /\ UNCHANGED elapsed

(* Mutant: a refused request restarts the window.                            *)
RejectRestarts ==
    /\ elapsed < WindowSecs
    /\ count' = Counted /\ count' > MaxPerWindow
    /\ elapsed' = 0
    /\ UNCHANGED <<inWindow, admits>>

Reject ==
    /\ elapsed < WindowSecs
    /\ count' = Counted /\ count' > MaxPerWindow
    /\ UNCHANGED <<elapsed, inWindow, admits>>

CheckRateLimit == NewWindow \/ Admit \/ Reject

Tick ==
    /\ elapsed' = IF elapsed < WindowSecs THEN elapsed + 1 ELSE elapsed
    /\ admits' = [d \in Recent |-> IF d = 0 THEN 0 ELSE admits[d - 1]]
    /\ UNCHANGED <<count, inWindow>>

Next == CheckRateLimit \/ Tick

Spec == Init /\ [][Next]_vars

-----------------------------------------------------------------------------
(* Properties.                                                               *)

(* What the last window_secs have seen, wherever windows began.              *)
LastWindow == admits[WindowSecs - 1]

(* A window admits its first max_per_window requests and no others: no       *)
(* request of a burst is let through between the reset and the count (C3).  *)
WindowBudget == inWindow = IF count > MaxPerWindow THEN MaxPerWindow ELSE count

(* Wherever windows open, no window_secs of time see more than twice the     *)
(* configured rate.                                                         *)
SlidingBound == LastWindow <= 2 * MaxPerWindow

(* 429 is never spurious: the next request is refused only when the agent    *)
(* has had its full max_per_window within the last window_secs.             *)
RejectIsEarned ==
    elapsed < WindowSecs /\ count >= MaxPerWindow => LastWindow >= MaxPerWindow

(* Refused requests do not prolong the window: an agent that retries however  *)
(* often is admitted again and again.                                       *)
NoStarvation == []<><<NewWindow \/ Admit>>_vars
=============================================================================
