----------------------------- MODULE ShellActuator -----------------------------
(***************************************************************************)
(* shell_exec of safa-core/src/actuator/shell.rs, from the spawn to the     *)
(* answer, with the process group it starts: a leader, which may leave a    *)
(* descendant behind, and the two pipes they write to.  The handler reads   *)
(* each pipe once, waits for the leader, and kills the group on a timeout.  *)
(*                                                                         *)
(* A program does what it likes: it writes, blocks on a full pipe, forks,   *)
(* exits and ignores SIGTERM; it does not leave its process group.  Output  *)
(* is counted, in units of which a pipe holds PipeSize.  The future may be  *)
(* dropped at any await, by the 30 s deadline, which may be near when the   *)
(* action starts, or by a disconnect.                                       *)
(***************************************************************************)
EXTENDS Naturals, FiniteSets

CONSTANTS
    MaxOutput,   \* max_output_bytes (65_536)
    PipeSize,    \* what a pipe holds (65_536)
    MaxWritten,  \* bound: what the program writes to one stream
    Timeout,     \* the timeout (15 s), in ticks
    Grace,       \* between SIGTERM and SIGKILL (2 s)
    Unread       \* a pipe that has not been read

ASSUME ShellConstants ==
    /\ {MaxOutput, PipeSize, Timeout, Grace} \subseteq Nat \ {0}
    /\ MaxWritten \in Nat
    /\ Unread \notin Nat

Streams == {"stdout", "stderr"}

VARIABLES
    pc,       \* where the handler is
    clock,    \* ticks since the timer it waits on was armed
    procs,    \* the live processes of the group
    written,  \* what the group has written to each stream
    pipe,     \* what of it is in the pipe
    got,      \* what the handler's read returned
    late,     \* history: what was written after the read
    age       \* ticks since the spawn, saturating past Timeout + Grace

vars == <<pc, clock, procs, written, pipe, got, late, age>>

Ended    == {"ok", "not text", "no process", "killed", "dropped"}
Awaiting == {"capture", "wait", "grace", "reap"}

TypeOK ==
    /\ pc \in {"spawn"} \cup Awaiting \cup Ended
    /\ clock \in 0 .. Timeout + Grace
    /\ procs \subseteq {"leader", "descendant"}
    /\ written \in [Streams -> 0 .. MaxWritten]
    /\ pipe \in [Streams -> 0 .. PipeSize]
    /\ got \in [Streams -> 0 .. MaxOutput \cup {Unread}]
    /\ late \in [Streams -> 0 .. MaxWritten]
    /\ age \in 0 .. Timeout + Grace + 1
    /\ \A s \in Streams : got[s] # Unread => got[s] + pipe[s] <= written[s]
    /\ pc = "wait" => \A s \in Streams : got[s] # Unread

Init ==
    /\ pc = "spawn"
    /\ clock = 0
    /\ procs = {}
    /\ written = [s \in Streams |-> 0]
    /\ pipe = [s \in Streams |-> 0]
    /\ got = [s \in Streams |-> Unread]
    /\ late = [s \in Streams |-> 0]
    /\ age = 0

-----------------------------------------------------------------------------
(* The group.                                                                *)

(* A write takes what the pipe has room for; a full pipe blocks the writer.  *)
(* Once the handler is gone its ends are closed, and nothing can be written. *)
Write(s) ==
    /\ procs # {} /\ pc \notin Ended
    /\ \E n \in 1 .. PipeSize - pipe[s] :
          /\ written[s] + n <= MaxWritten
          /\ written' = [written EXCEPT ![s] = @ + n]
          /\ pipe' = [pipe EXCEPT ![s] = @ + n]
          /\ late' = [late EXCEPT ![s] = IF got[s] = Unread THEN 0 ELSE @ + n]
    /\ UNCHANGED <<pc, clock, procs, got, age>>

Fork ==
    /\ "leader" \in procs
    /\ procs' = procs \cup {"descendant"}
    /\ UNCHANGED <<pc, clock, written, pipe, got, late, age>>

Exit(p) ==
    /\ p \in procs
    /\ procs' = procs \ {p}
    /\ UNCHANGED <<pc, clock, written, pipe, got, late, age>>

-----------------------------------------------------------------------------
(* The handler.                                                              *)
Spawn ==
    /\ pc = "spawn"
    /\ \/ pc' = "capture" /\ procs' = {"leader"}
       \/ pc' = "no process" /\ UNCHANGED procs
    /\ UNCHANGED <<clock, written, pipe, got, late, age>>

(* Mutant: the buffer is a byte short of the bound that the flag goes by.     *)
CaptureShort(s) ==
    /\ pc = "capture" /\ got[s] = Unread
    /\ pipe[s] > 0 \/ procs = {}
    /\ LET n == IF pipe[s] < MaxOutput THEN pipe[s] ELSE MaxOutput - 1 IN
          /\ got' = [got EXCEPT ![s] = n]
          /\ pipe' = [pipe EXCEPT ![s] = @ - n]
    /\ UNCHANGED <<pc, clock, procs, written, late, age>>

(* read(&mut buf), once: it returns what is there, or nothing at the end of  *)
(* the stream, when no process holds it any more.                            *)
Capture(s) ==
    /\ pc = "capture" /\ got[s] = Unread
    /\ pipe[s] > 0 \/ procs = {}
    /\ LET n == IF pipe[s] < MaxOutput THEN pipe[s] ELSE MaxOutput IN
          /\ got' = [got EXCEPT ![s] = n]
          /\ pipe' = [pipe EXCEPT ![s] = @ - n]
    /\ UNCHANGED <<pc, clock, procs, written, late, age>>

(* join!: both reads are done.                                               *)
Captured ==
    /\ pc = "capture" /\ \A s \in Streams : got[s] # Unread
    /\ pc' = "wait"
    /\ UNCHANGED <<clock, procs, written, pipe, got, late, age>>

(* child.wait(), and the answer: the output is text or it is not.            *)
Finish ==
    /\ pc = "wait" /\ "leader" \notin procs
    /\ pc' \in {"ok", "not text"}
    /\ clock' = 0
    /\ UNCHANGED <<procs, written, pipe, got, late, age>>

(* SIGTERM to the group, which any process may ignore.                       *)
TimerFires ==
    /\ pc \in {"capture", "wait"} /\ clock = Timeout
    /\ pc' = "grace"
    /\ clock' = 0
    /\ procs' \in SUBSET procs
    /\ UNCHANGED <<written, pipe, got, late, age>>

(* Mutant: the leader alone is killed.                                       *)
KillLeader ==
    /\ pc = "grace" /\ clock = Grace
    /\ pc' = "reap"
    /\ clock' = 0
    /\ procs' = procs \ {"leader"}
    /\ UNCHANGED <<written, pipe, got, late, age>>

(* Mutant: the group is only asked to terminate.                             *)
TermAgain ==
    /\ pc = "grace" /\ clock = Grace
    /\ pc' = "reap"
    /\ clock' = 0
    /\ procs' \in SUBSET procs
    /\ UNCHANGED <<written, pipe, got, late, age>>

(* SIGKILL to the group.                                                     *)
Kill ==
    /\ pc = "grace" /\ clock = Grace
    /\ pc' = "reap"
    /\ clock' = 0
    /\ procs' = {}
    /\ UNCHANGED <<written, pipe, got, late, age>>

Reap ==
    /\ pc = "reap" /\ "leader" \notin procs
    /\ pc' = "killed"
    /\ UNCHANGED <<clock, procs, written, pipe, got, late, age>>

(* The future is dropped.  The command was not built with kill_on_drop: its  *)
(* processes live on.                                                        *)
Drop ==
    /\ pc \in Awaiting
    /\ pc' = "dropped"
    /\ clock' = 0
    /\ UNCHANGED <<procs, written, pipe, got, late, age>>

(* Time; a timer that is due fires before it goes on, and reaping what was   *)
(* killed takes none.                                                        *)
Tick ==
    /\ pc # "spawn"
    /\ pc \in {"capture", "wait"} => clock < Timeout
    /\ pc = "grace" => clock < Grace
    /\ ~(pc = "reap" /\ "leader" \notin procs)
    /\ clock' = IF pc \in Awaiting \ {"reap"} THEN clock + 1 ELSE clock
    /\ age' = IF age > Timeout + Grace THEN age ELSE age + 1
    /\ UNCHANGED <<pc, procs, written, pipe, got, late>>

Group ==
    \/ Fork
    \/ \E s \in Streams : Write(s)
    \/ \E p \in procs : Exit(p)

Handler ==
    \/ Spawn
    \/ \E s \in Streams : Capture(s)
    \/ Captured
    \/ Finish
    \/ TimerFires
    \/ Kill
    \/ Reap

Next == Handler \/ Drop \/ Tick \/ Group

Spec == Init /\ [][Next]_vars

(* The runtime polls the handler and time passes; the program need do        *)
(* nothing, and the client need not hang up.                                 *)
FairSpec == Spec /\ WF_vars(Handler) /\ WF_vars(Tick)

-----------------------------------------------------------------------------
(* Properties.                                                               *)

(* As long as the handler is in charge, no process of the group is left      *)
(* after the timeout and the grace: forks, ignored signals and full pipes    *)
(* notwithstanding.  A descendant may outlive a leader that ended in time, and *)
(* the leader runs on past the limit only when the handler was dropped.      *)
Contained ==
    /\ pc = "killed" => procs = {}
    /\ pc \in Awaiting /\ procs # {} => age <= Timeout + Grace
    /\ pc \in {"ok", "not text"} => "leader" \notin procs
    /\ "leader" \in procs /\ age > Timeout + Grace => pc = "dropped"

(* T1 of SAFA_TIMEOUTS.md: the action ends, although the program may never    *)
(* exit, never write, or block on a pipe that is not read again.             *)
ActionEnds == pc = "capture" ~> pc \in Ended

Truncated == \E s \in Streams : got[s] # Unread /\ got[s] >= MaxOutput

(* What an Ok answer has of a stream, and its flag: the timeout's has nothing *)
(* of what was captured, says so in stderr and exit code, and has no flag.   *)
Sent(s) == IF pc = "ok" THEN got[s] ELSE 0
Flagged == pc = "ok" /\ Truncated

(* An Ok answer without the flag can lack output in two ways only, whoever    *)
(* wrote and however much the pipes held: what was written after a stream was *)
(* read, and everything, when the answer is the timeout's, which no program  *)
(* gets before its whole limit is over.                                      *)
UnflaggedLoss ==
    pc \in {"ok", "killed"} /\ ~Flagged =>
        \/ \A s \in Streams : written[s] = Sent(s) + late[s]
        \/ pc = "killed" /\ age >= Timeout + Grace

(* "If data is truncated, truncated: true ... Hiding truncation is forbidden" *)
(* (P0 design): an answer without the flag has all that the program wrote.    *)
(* See the run shell_truncation.                                             *)
TruncationIsFlagged ==
    pc = "ok" /\ procs = {} /\ ~Truncated => \A s \in Streams : got[s] = written[s]
=============================================================================
