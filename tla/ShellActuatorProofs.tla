-------------------------- MODULE ShellActuatorProofs --------------------------
(***************************************************************************)
(* Proofs about ShellActuator, for any limits of time and output.           *)
(***************************************************************************)
EXTENDS ShellActuator, TLAPS

(* The types, part by part: the handler and its group, and the streams.       *)
GroupOK   == /\ pc \in {"spawn"} \cup Awaiting \cup Ended
             /\ clock \in 0 .. Timeout + Grace
             /\ procs \subseteq {"leader", "descendant"}
             /\ age \in 0 .. Timeout + Grace + 1
(* Where the bytes of a stream are: before its read all of them in the pipe;  *)
(* after a read that did not fill its buffer, what came later and no other.   *)
Told(s) ==
    /\ late[s] <= written[s]
    /\ got[s] = Unread => pipe[s] = written[s] /\ late[s] = 0
    /\ got[s] # Unread /\ got[s] < MaxOutput => pipe[s] = late[s] /\ written[s] = got[s] + late[s]

StreamsOK == /\ written \in [Streams -> 0 .. MaxWritten]
             /\ pipe \in [Streams -> 0 .. PipeSize]
             /\ got \in [Streams -> 0 .. MaxOutput \cup {Unread}]
             /\ \A s \in Streams : got[s] # Unread => got[s] + pipe[s] <= written[s]
             /\ \A s \in Streams : pipe[s] <= written[s]
             /\ late \in [Streams -> 0 .. MaxWritten]
             /\ \A s \in Streams : Told(s)
             /\ pc \in {"wait", "ok"} => \A s \in Streams : got[s] # Unread

(* What the timers have measured where the handler is, and what they have     *)
(* left of the group: age is told by clock until the group is killed.        *)
Timed ==
    /\ pc = "spawn" => procs = {} /\ age = 0 /\ clock = 0
    /\ pc \in {"capture", "wait"} => age = clock /\ clock <= Timeout
    /\ pc = "grace" => age = Timeout + clock /\ clock <= Grace
    /\ pc \in {"reap", "killed", "no process"} => procs = {}
    /\ pc \in {"reap", "killed"} => age >= Timeout + Grace
    /\ pc \in {"ok", "not text"} => "leader" \notin procs

ShellInv == GroupOK /\ StreamsOK /\ Timed

LEMMA Limits ==
  /\ MaxOutput \in Nat /\ PipeSize \in Nat /\ Timeout \in Nat /\ Grace \in Nat /\ MaxWritten \in Nat
  /\ 0 \in 0 .. Timeout + Grace
  /\ \A n \in Nat : n # Unread
  BY ShellConstants

(* Steps that leave the streams alone; both are read when waiting begins.      *)
LEMMA StreamsStay ==
  ASSUME StreamsOK, UNCHANGED <<written, pipe, got, late>>,
         pc' \in {"wait", "ok"} => \A s \in Streams : got[s] # Unread
  PROVE  StreamsOK'
  BY DEF StreamsOK, Told

(* Bytes go from the program into its pipe, and once from there to the        *)
(* handler.                                                                  *)
LEMMA StreamsMove ==
  ASSUME StreamsOK, NEW s \in Streams, Write(s) \/ Capture(s)
  PROVE  StreamsOK'
<1>0. /\ written[s] \in 0 .. MaxWritten /\ pipe[s] \in 0 .. PipeSize /\ pipe[s] <= written[s]
      /\ got[s] # Unread => got[s] \in 0 .. MaxOutput /\ got[s] + pipe[s] <= written[s]
      /\ written \in [Streams -> 0 .. MaxWritten] /\ pipe \in [Streams -> 0 .. PipeSize]
      /\ got \in [Streams -> 0 .. MaxOutput \cup {Unread}]
      /\ late \in [Streams -> 0 .. MaxWritten] /\ late[s] \in 0 .. MaxWritten /\ Told(s)
  BY DEF StreamsOK
<1>1. ASSUME NEW n \in 1 .. PipeSize - pipe[s], written[s] + n <= MaxWritten,
             written' = [written EXCEPT ![s] = @ + n], pipe' = [pipe EXCEPT ![s] = @ + n],
             late' = [late EXCEPT ![s] = IF got[s] = Unread THEN 0 ELSE @ + n],
             UNCHANGED <<pc, got>>
      PROVE  StreamsOK'
  <2>1. written[s] + n \in 0 .. MaxWritten /\ pipe[s] + n \in 0 .. PipeSize
    BY <1>0, <1>1, Limits
  <2>2. written' \in [Streams -> 0 .. MaxWritten] /\ pipe' \in [Streams -> 0 .. PipeSize]
    BY <1>0, <1>1, <2>1
  <2>3. written'[s] = written[s] + n /\ pipe'[s] = pipe[s] + n
    BY <1>0, <1>1
  <2>4. \A t \in Streams :
           t # s => written'[t] = written[t] /\ pipe'[t] = pipe[t] /\ late'[t] = late[t]
    BY <1>0, <1>1
  <2>5. pipe'[s] <= written'[s] /\ (got[s] # Unread => got[s] + pipe'[s] <= written'[s])
    BY <1>0, <1>1, <2>3, Limits
  <2>6. late'[s] = IF got[s] = Unread THEN 0 ELSE late[s] + n
    BY <1>0, <1>1
  <2>7. Told(s)' /\ late' \in [Streams -> 0 .. MaxWritten]
    <3>1. CASE got[s] = Unread
      <4>1. late'[s] = 0 /\ pipe'[s] = written'[s] /\ late'[s] <= written'[s]
        BY <1>0, <2>1, <2>3, <2>6, <3>1 DEF Told
      <4> QED BY <1>0, <1>1, <2>6, <3>1, <4>1, Limits DEF Told
    <3>2. CASE got[s] # Unread
      <4>1. late'[s] = late[s] + n /\ late'[s] \in 0 .. MaxWritten /\ late'[s] <= written'[s]
        BY <1>0, <2>1, <2>3, <2>6, <3>2, Limits DEF Told
      <4>2. got[s] < MaxOutput => pipe'[s] = late'[s] /\ written'[s] = got[s] + late'[s]
        BY <1>0, <2>3, <3>2, <4>1, Limits DEF Told
      <4> QED BY <1>0, <1>1, <3>2, <4>1, <4>2 DEF Told
    <3> QED BY <3>1, <3>2
  <2>8. \A t \in Streams : t # s => Told(t)'
    BY <1>1, <2>4 DEF StreamsOK, Told
  <2> QED BY <1>1, <2>2, <2>4, <2>5, <2>7, <2>8 DEF StreamsOK
<1>2. CASE Write(s)
  BY <1>1, <1>2 DEF Write
<1>3. CASE Capture(s)
  <2> DEFINE n == IF pipe[s] < MaxOutput THEN pipe[s] ELSE MaxOutput
  <2>1. got' = [got EXCEPT ![s] = n] /\ pipe' = [pipe EXCEPT ![s] = @ - n]
        /\ UNCHANGED <<pc, written, late>> /\ pc = "capture" /\ got[s] = Unread
    BY <1>3 DEF Capture
  <2>2. n \in 0 .. MaxOutput /\ pipe[s] - n \in 0 .. PipeSize /\ n + (pipe[s] - n) = pipe[s]
        /\ pipe[s] - n <= pipe[s] /\ n # Unread
    BY <1>0, Limits
  <2> HIDE DEF n
  <2>3. got' \in [Streams -> 0 .. MaxOutput \cup {Unread}] /\ pipe' \in [Streams -> 0 .. PipeSize]
    BY <1>0, <2>1, <2>2
  <2>4. got'[s] = n /\ pipe'[s] = pipe[s] - n
    BY <1>0, <2>1
  <2>5. \A t \in Streams : t # s => got'[t] = got[t] /\ pipe'[t] = pipe[t]
    BY <1>0, <2>1
  <2>6. pipe'[s] <= written[s] /\ got'[s] + pipe'[s] <= written[s]
    BY <1>0, <2>2, <2>4, Limits
  <2>7. Told(s)'
    <3>1. pipe[s] = written[s] /\ late[s] = 0
      BY <1>0, <2>1 DEF Told
    <3>2. n < MaxOutput => pipe'[s] = 0 /\ n = pipe[s]
      BY <1>0, <2>4, Limits DEF n
    <3> QED BY <1>0, <2>1, <2>2, <2>4, <3>1, <3>2 DEF Told
  <2>8. \A t \in Streams : t # s => Told(t)'
    BY <2>1, <2>5 DEF StreamsOK, Told
  <2> QED BY <1>0, <2>1, <2>3, <2>5, <2>6, <2>7, <2>8 DEF StreamsOK
<1> QED BY <1>2, <1>3

(* Every step of the handler, the group and the clock keeps the invariant.    *)
LEMMA ShellInvNext == ShellInv /\ [Next]_vars => ShellInv'
<1> SUFFICES ASSUME ShellInv, [Next]_vars PROVE ShellInv'
  OBVIOUS
<1> USE Limits
<1>0. GroupOK /\ StreamsOK /\ Timed
  BY DEF ShellInv
<1>1. CASE \E s \in Streams : Write(s) \/ Capture(s)
  <2>1. GroupOK' /\ Timed'
    BY <1>0, <1>1 DEF Write, Capture, GroupOK, Timed
  <2> QED BY <1>0, <1>1, <2>1, StreamsMove DEF ShellInv
<1>2. CASE Fork \/ \E p \in procs : Exit(p)
  <2>1. GroupOK' /\ Timed'
    BY <1>0, <1>2 DEF Fork, Exit, GroupOK, Timed
  <2>2. StreamsOK'
    BY <1>0, <1>2, StreamsStay DEF Fork, Exit, StreamsOK
  <2> QED BY <2>1, <2>2 DEF ShellInv
<1>3. CASE Spawn
  <2>1. GroupOK' /\ Timed'
    <3>1. GroupOK'
      BY <1>0, <1>3 DEF Spawn, GroupOK, Awaiting, Ended
    <3>2. Timed'
      <4>1. age' = 0 /\ clock' = 0 /\ procs = {}
        BY <1>0, <1>3 DEF Spawn, Timed
      <4>2. age' = clock' /\ clock' <= Timeout
        BY <4>1
      <4>3. pc' = "capture" \/ (pc' = "no process" /\ procs' = {})
        BY <1>3, <4>1 DEF Spawn
      <4> QED BY <4>2, <4>3 DEF Timed
    <3> QED BY <3>1, <3>2
  <2>2. StreamsOK'
    BY <1>0, <1>3, StreamsStay DEF Spawn
  <2> QED BY <2>1, <2>2 DEF ShellInv
<1>4. CASE Captured
  <2>1. GroupOK' /\ Timed'
    BY <1>0, <1>4 DEF Captured, GroupOK, Timed, Awaiting
  <2>2. StreamsOK'
    BY <1>0, <1>4, StreamsStay DEF Captured
  <2> QED BY <2>1, <2>2 DEF ShellInv
<1>5. CASE Finish
  <2>1. GroupOK' /\ Timed'
    <3>1. GroupOK'
      BY <1>0, <1>5 DEF Finish, GroupOK, Ended
    <3>2. Timed'
      BY <1>0, <1>5 DEF Finish, GroupOK, Timed
    <3> QED BY <3>1, <3>2
  <2>2. StreamsOK'
    <3>1. \A s \in Streams : got[s] # Unread
      BY <1>0, <1>5 DEF Finish, StreamsOK
    <3> QED BY <1>0, <1>5, <3>1, StreamsStay DEF Finish
  <2> QED BY <2>1, <2>2 DEF ShellInv
<1>6. CASE TimerFires
  <2>1. GroupOK' /\ Timed'
    <3>1. GroupOK'
      BY <1>0, <1>6 DEF TimerFires, GroupOK, Awaiting
    <3>2. Timed'
      <4>1. pc' = "grace" /\ age' = age /\ clock' = 0 /\ age = clock /\ clock = Timeout
        BY <1>0, <1>6 DEF TimerFires, Timed
      <4>2. age' = Timeout + clock' /\ clock' <= Grace
        BY <4>1
      <4> QED BY <4>1, <4>2 DEF Timed
    <3> QED BY <3>1, <3>2
  <2>2. StreamsOK'
    BY <1>0, <1>6, StreamsStay DEF TimerFires
  <2> QED BY <2>1, <2>2 DEF ShellInv
<1>7. CASE Kill
  <2>1. GroupOK' /\ Timed'
    BY <1>0, <1>7 DEF Kill, GroupOK, Timed, Awaiting
  <2>2. StreamsOK'
    BY <1>0, <1>7, StreamsStay DEF Kill
  <2> QED BY <2>1, <2>2 DEF ShellInv
<1>8. CASE Reap
  <2>1. GroupOK' /\ Timed'
    BY <1>0, <1>8 DEF Reap, GroupOK, Timed, Ended
  <2>2. StreamsOK'
    BY <1>0, <1>8, StreamsStay DEF Reap
  <2> QED BY <2>1, <2>2 DEF ShellInv
<1>9. CASE Drop
  <2>1. GroupOK' /\ Timed'
    <3>1. GroupOK'
      BY <1>0, <1>9 DEF Drop, GroupOK, Ended
    <3>2. Timed'
      BY <1>0, <1>9 DEF Drop, GroupOK, Timed
    <3> QED BY <3>1, <3>2
  <2>2. StreamsOK'
    BY <1>0, <1>9, StreamsStay DEF Drop
  <2> QED BY <2>1, <2>2 DEF ShellInv
<1>10. CASE Tick
  <2>1. GroupOK' /\ Timed'
    <3>1. /\ age' = IF age > Timeout + Grace THEN age ELSE age + 1
          /\ clock' = IF pc \in Awaiting \ {"reap"} THEN clock + 1 ELSE clock
          /\ UNCHANGED <<pc, procs>> /\ pc # "spawn"
          /\ pc \in {"capture", "wait"} => clock < Timeout
          /\ pc = "grace" => clock < Grace
      BY <1>10 DEF Tick
    <3>2. /\ clock \in 0 .. Timeout + Grace /\ age \in 0 .. Timeout + Grace + 1
      BY <1>0 DEF GroupOK
    <3>3. age' \in 0 .. Timeout + Grace + 1
      BY <3>1, <3>2
    <3>4. CASE pc \in {"capture", "wait"}
      <4>1. age = clock /\ clock < Timeout /\ clock' = clock + 1
        BY <1>0, <3>1, <3>4 DEF Timed, Awaiting
      <4>2. age' = clock' /\ clock' <= Timeout /\ clock' \in 0 .. Timeout + Grace
        BY <3>1, <3>2, <4>1
      <4> QED BY <1>0, <3>1, <3>3, <3>4, <4>2 DEF GroupOK, Timed
    <3>5. CASE pc = "grace"
      <4>1. age = Timeout + clock /\ clock < Grace /\ clock' = clock + 1
        BY <1>0, <3>1, <3>5 DEF Timed, Awaiting
      <4>2. age' = Timeout + clock' /\ clock' <= Grace /\ clock' \in 0 .. Timeout + Grace
        BY <3>1, <3>2, <4>1
      <4> QED BY <1>0, <3>1, <3>3, <3>5, <4>2 DEF GroupOK, Timed
    <3>6. CASE pc \notin {"capture", "wait", "grace"}
      <4>1. clock' = clock
        BY <3>1, <3>6 DEF Awaiting
      <4>2. age >= Timeout + Grace => age' >= Timeout + Grace
        BY <3>1, <3>2
      <4>3. GroupOK'
        BY <1>0, <3>1, <3>2, <3>3, <4>1 DEF GroupOK
      <4>4. Timed'
        BY <1>0, <3>1, <3>6, <4>2 DEF Timed
      <4> QED BY <4>3, <4>4
    <3> QED BY <3>4, <3>5, <3>6
  <2>2. StreamsOK'
    BY <1>0, <1>10, StreamsStay DEF Tick, StreamsOK
  <2> QED BY <2>1, <2>2 DEF ShellInv
<1>11. CASE UNCHANGED vars
  <2>1. GroupOK' /\ Timed'
    BY <1>0, <1>11 DEF vars, GroupOK, Timed
  <2>2. StreamsOK'
    BY <1>0, <1>11, StreamsStay DEF vars, StreamsOK
  <2> QED BY <2>1, <2>2 DEF ShellInv
<1> QED BY <1>1, <1>2, <1>3, <1>4, <1>5, <1>6, <1>7, <1>8, <1>9, <1>10, <1>11
        DEF Next, Handler, Group

LEMMA ShellInvCorrect == Spec => []ShellInv
<1>1. Init => ShellInv
  BY Limits DEF Init, ShellInv, GroupOK, StreamsOK, Told, Timed, Awaiting, Ended, Streams
<1> QED BY <1>1, ShellInvNext, PTL DEF Spec

(* Output is counted, timers are within their limits, and no more is read     *)
(* than was written.                                                         *)
THEOREM ShellTypeCorrect == Spec => []TypeOK
<1>1. ShellInv => TypeOK
  BY DEF ShellInv, GroupOK, StreamsOK, TypeOK
<1> QED BY <1>1, ShellInvCorrect, PTL

(* While the handler is in charge the group is gone by the end of the grace;  *)
(* only a dropped handler lets the program run past its limit.               *)
THEOREM GroupIsContained == Spec => []Contained
<1>1. ShellInv => Contained
  <2> SUFFICES ASSUME ShellInv PROVE Contained
    OBVIOUS
  <2>1. /\ pc \in {"capture", "wait", "grace"} => age <= Timeout + Grace
        /\ pc = "spawn" => age = 0
        /\ clock \in Nat /\ age \in Nat
    <3>1. clock \in Nat /\ age \in Nat
      BY Limits DEF ShellInv, GroupOK
    <3>2. /\ pc \in {"capture", "wait"} => age = clock /\ clock <= Timeout
          /\ pc = "grace" => age = Timeout + clock /\ clock <= Grace
          /\ pc = "spawn" => age = 0
      BY DEF ShellInv, Timed
    <3> QED BY <3>1, <3>2, Limits
  <2>2. pc \in {"spawn", "capture", "wait", "grace"} => ~(age > Timeout + Grace)
    BY <2>1, Limits
  <2>3. pc \in {"reap", "killed", "no process", "ok", "not text"} => "leader" \notin procs
    BY DEF ShellInv, Timed
  <2>4. pc \in {"spawn", "capture", "wait", "grace", "reap", "killed", "no process", "ok", "not text", "dropped"}
    BY DEF ShellInv, GroupOK, Awaiting, Ended
  <2>5. pc \in {"reap", "killed"} => procs = {}
    BY DEF ShellInv, Timed
  <2> QED BY <2>1, <2>2, <2>3, <2>4, <2>5 DEF Contained, Awaiting
<1> QED BY <1>1, ShellInvCorrect, PTL

(* What the single read of an unflagged answer has lost came after it, and     *)
(* only a program that had its whole limit is answered without its output.    *)
THEOREM LossesAreOfTwoKinds == Spec => []UnflaggedLoss
<1>1. ShellInv => UnflaggedLoss
  <2> SUFFICES ASSUME ShellInv, pc \in {"ok", "killed"}, ~Flagged
               PROVE  \/ \A s \in Streams : written[s] = Sent(s) + late[s]
                      \/ pc = "killed" /\ age >= Timeout + Grace
    BY DEF UnflaggedLoss
  <2>1. CASE pc = "ok"
    <3> SUFFICES ASSUME NEW s \in Streams PROVE written[s] = got[s] + late[s]
      BY <2>1 DEF Sent
    <3>1. got[s] # Unread
      BY <2>1 DEF ShellInv, StreamsOK
    <3>2. got[s] \in 0 .. MaxOutput /\ ~(got[s] >= MaxOutput)
      BY <2>1, <3>1 DEF ShellInv, StreamsOK, Flagged, Truncated
    <3>3. got[s] < MaxOutput
      BY <3>2, Limits
    <3> QED BY <3>1, <3>3 DEF ShellInv, StreamsOK, Told
  <2>2. CASE pc = "killed"
    BY <2>2 DEF ShellInv, Timed
  <2> QED BY <2>1, <2>2
<1> QED BY <1>1, ShellInvCorrect, PTL
=============================================================================
