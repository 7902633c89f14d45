--------------------------- MODULE FileActuatorProofs ---------------------------
(***************************************************************************)
(* Proofs about FileActuator: any number of actions, files and contents.    *)
(***************************************************************************)
EXTENDS FileActuator, FiniteSetTheorems, TLAPS

Writing == {"begun", "created", "filled", "renamed"}

(* The types, part by part: the files, the locals of actions, and how the     *)
(* locals of one action go together.                                         *)
FilesOK  == /\ serving \in BOOLEAN /\ excused \in BOOLEAN
            /\ files \in [Targets -> Contents \cup {Absent}]
            /\ orphans \subseteq Targets /\ raced \subseteq Actions
LocalsOK == /\ pc \in [Actions -> {"idle", "looked"} \cup Writing]
            /\ write \in [Actions -> Writes \cup {NoWrite}]
            /\ temp \in [Actions -> Contents \cup {Absent, Partial}]
            /\ reading \in [Actions -> SUBSET Targets]
            /\ totalBytes \in [Actions -> Nat]
ActionOK(a) ==
    /\ write[a] # NoWrite <=> pc[a] \in Writing
    /\ pc[a] = "created" => temp[a] = Partial
    /\ pc[a] = "filled" => temp[a] = write[a].content
    /\ pc[a] \notin {"created", "filled"} => temp[a] = Absent
    /\ pc[a] = "looked" => \E f \in Targets : reading[a] = {f}
    /\ pc[a] # "looked" => reading[a] = {}
    /\ ~serving => pc[a] = "idle"

TypeInv == FilesOK /\ LocalsOK /\ \A a \in Actions : ActionOK(a)

LEMMA TypeInvImplies == TypeInv => TypeOK
<1> SUFFICES ASSUME TypeInv PROVE TypeOK
  OBVIOUS
<1>1. ASSUME NEW a \in Actions
      PROVE  /\ write[a] # NoWrite <=> pc[a] \in {"begun", "created", "filled", "renamed"}
             /\ temp[a] = CASE pc[a] = "created" -> Partial
                            [] pc[a] = "filled"  -> write[a].content
                            [] OTHER             -> Absent
             /\ Cardinality(reading[a]) = IF pc[a] = "looked" THEN 1 ELSE 0
             /\ ~serving => pc[a] = "idle"
  <2>0. ActionOK(a)
    BY DEF TypeInv
  <2>1. temp[a] = CASE pc[a] = "created" -> Partial
                    [] pc[a] = "filled"  -> write[a].content
                    [] OTHER             -> Absent
    BY <2>0 DEF ActionOK
  <2>2. Cardinality(reading[a]) = IF pc[a] = "looked" THEN 1 ELSE 0
    <3>1. CASE pc[a] = "looked"
      BY <2>0, <3>1, FS_Singleton DEF ActionOK
    <3>2. CASE pc[a] # "looked"
      BY <2>0, <3>2, FS_EmptySet DEF ActionOK
    <3> QED BY <3>1, <3>2
  <2> QED BY <2>0, <2>1, <2>2 DEF ActionOK, Writing
<1>2. FilesOK /\ LocalsOK
  BY DEF TypeInv
<1>3. pc \in [Actions -> {"idle", "begun", "created", "filled", "renamed", "looked"}]
  BY <1>2 DEF LocalsOK, Writing
<1> QED BY <1>1, <1>2, <1>3, Zenon DEF TypeOK, FilesOK, LocalsOK

LEMMA TypeInvInit == Init => TypeInv
<1> SUFFICES ASSUME Init PROVE TypeInv
  OBVIOUS
<1>1. FilesOK
  BY DEF Init, FilesOK
<1>2. LocalsOK
  BY DEF Init, LocalsOK
<1>3. \A a \in Actions : ActionOK(a)
  BY DEF Init, ActionOK, Writing
<1> QED BY <1>1, <1>2, <1>3 DEF TypeInv

(* An action that returns has no locals.                                      *)
LEMMA ReturnTypes ==
  ASSUME TypeInv, NEW a \in Actions, Return(a), UNCHANGED serving
  PROVE  /\ LocalsOK' /\ raced' \subseteq Actions
         /\ \A b \in Actions : ActionOK(b)'
         /\ pc'[a] = "idle" /\ write'[a] = NoWrite
<1>0. LocalsOK /\ FilesOK /\ \A b \in Actions : ActionOK(b)
  BY DEF TypeInv
<1>1. LocalsOK' /\ raced' \subseteq Actions
  BY <1>0 DEF Return, LocalsOK, FilesOK
<1>2. /\ pc'[a] = "idle" /\ write'[a] = NoWrite /\ temp'[a] = Absent /\ reading'[a] = {}
  BY <1>0 DEF Return, LocalsOK
<1>3. \A b \in Actions : b # a => /\ pc'[b] = pc[b] /\ write'[b] = write[b]
                                  /\ temp'[b] = temp[b] /\ reading'[b] = reading[b]
  BY <1>0 DEF Return, LocalsOK
<1>4. ActionOK(a)'
  BY <1>2 DEF ActionOK, Writing
<1>5. \A b \in Actions : b # a => ActionOK(b)'
  BY <1>0, <1>3 DEF ActionOK
<1> QED BY <1>1, <1>2, <1>4, <1>5

(* Every system call, failure, crash and start keeps the types.               *)
LEMMA TypeInvNext == TypeInv /\ [Next]_vars => TypeInv'
<1> SUFFICES ASSUME TypeInv, [Next]_vars PROVE TypeInv'
  OBVIOUS
<1>0. FilesOK /\ LocalsOK /\ \A a \in Actions : ActionOK(a)
  BY DEF TypeInv
<1>r. ASSUME NEW a \in Actions, Return(a), UNCHANGED <<serving, files>>,
             orphans' \subseteq Targets, excused' \in BOOLEAN
      PROVE  TypeInv'
  <2>1. FilesOK'
    BY <1>0, <1>r, ReturnTypes DEF FilesOK
  <2> QED BY <1>r, <2>1, ReturnTypes DEF TypeInv
<1>1. ASSUME NEW a \in Actions, NEW w \in Writes, BeginWrite(a, w) PROVE TypeInv'
  <2>1. FilesOK' /\ LocalsOK'
    BY <1>0, <1>1 DEF BeginWrite, FilesOK, LocalsOK, Writing
  <2>2. ActionOK(a)'
    BY <1>0, <1>1, FileConstants DEF BeginWrite, LocalsOK, ActionOK, Writing
  <2>3. \A b \in Actions : b # a => ActionOK(b)'
    BY <1>0, <1>1 DEF BeginWrite, LocalsOK, ActionOK
  <2> QED BY <2>1, <2>2, <2>3 DEF TypeInv
<1>2. ASSUME NEW a \in Actions, CreateTemp(a) PROVE TypeInv'
  <2>1. FilesOK' /\ LocalsOK'
    BY <1>0, <1>2 DEF CreateTemp, FilesOK, LocalsOK, Writing
  <2>2. ActionOK(a)'
    BY <1>0, <1>2 DEF CreateTemp, LocalsOK, ActionOK, Writing
  <2>3. \A b \in Actions : b # a => ActionOK(b)'
    BY <1>0, <1>2 DEF CreateTemp, LocalsOK, ActionOK
  <2> QED BY <2>1, <2>2, <2>3 DEF TypeInv
<1>3. ASSUME NEW a \in Actions, FillTemp(a) PROVE TypeInv'
  <2>0. write[a] \in Writes
    BY <1>0, <1>3 DEF FillTemp, LocalsOK, ActionOK, Writing
  <2>1. FilesOK' /\ LocalsOK'
    BY <1>0, <1>3, <2>0 DEF FillTemp, FilesOK, LocalsOK, Writing, Writes
  <2>2. ActionOK(a)'
    BY <1>0, <1>3 DEF FillTemp, LocalsOK, ActionOK, Writing
  <2>3. \A b \in Actions : b # a => ActionOK(b)'
    BY <1>0, <1>3 DEF FillTemp, LocalsOK, ActionOK
  <2> QED BY <2>1, <2>2, <2>3 DEF TypeInv
<1>4. ASSUME NEW a \in Actions, WriteFails(a) PROVE TypeInv'
  <2>1. write[a] \in Writes
    BY <1>0, <1>4 DEF WriteFails, LocalsOK, ActionOK, Writing
  <2>2. orphans' \subseteq Targets /\ excused' \in BOOLEAN
    BY <1>0, <1>4, <2>1 DEF WriteFails, RemoveTemp, FilesOK, Writes
  <2> QED BY <1>4, <1>r, <2>2 DEF WriteFails
<1>5. ASSUME NEW a \in Actions, Rename(a) PROVE TypeInv'
  <2>0. write[a] \in Writes /\ temp[a] = write[a].content
    BY <1>0, <1>5 DEF Rename, LocalsOK, ActionOK, Writing
  <2>1. FilesOK' /\ LocalsOK'
    BY <1>0, <1>5, <2>0 DEF Rename, FilesOK, LocalsOK, Writing, Writes
  <2>2. ActionOK(a)'
    BY <1>0, <1>5 DEF Rename, LocalsOK, ActionOK, Writing
  <2>3. \A b \in Actions : b # a => ActionOK(b)'
    BY <1>0, <1>5 DEF Rename, LocalsOK, ActionOK
  <2> QED BY <2>1, <2>2, <2>3 DEF TypeInv
<1>6. ASSUME NEW a \in Actions, WriteSucceeds(a) \/ Read(a) PROVE TypeInv'
  BY <1>0, <1>6, <1>r DEF WriteSucceeds, Read, FilesOK
<1>7. ASSUME NEW a \in Actions, NEW f \in Targets, Look(a, f) PROVE TypeInv'
  <2>0. Length[files[f]] \in Nat
    BY <1>0, <1>7, FileConstants DEF Look, FilesOK
  <2>1. FilesOK' /\ LocalsOK'
    BY <1>0, <1>7, <2>0 DEF Look, FilesOK, LocalsOK, Writing
  <2>2. ActionOK(a)'
    BY <1>0, <1>7 DEF Look, LocalsOK, ActionOK, Writing
  <2>3. \A b \in Actions : b # a => ActionOK(b)'
    BY <1>0, <1>7 DEF Look, LocalsOK, ActionOK
  <2> QED BY <2>1, <2>2, <2>3 DEF TypeInv
<1>8. CASE Crash
  <2>1. \A a \in Actions : temp[a] # Absent => write[a] \in Writes
    BY <1>0 DEF LocalsOK, ActionOK, Writing
  <2>2. FilesOK'
    BY <1>0, <1>8, <2>1 DEF Crash, FilesOK, Writes
  <2>3. LocalsOK'
    BY <1>8 DEF Crash, AllIdle, LocalsOK, Writing
  <2>4. \A a \in Actions : ActionOK(a)'
    BY <1>8 DEF Crash, AllIdle, ActionOK, Writing
  <2> QED BY <2>2, <2>3, <2>4 DEF TypeInv
<1>9. CASE Start
  <2>1. UNCHANGED action /\ serving' = TRUE /\ raced' = raced
    BY <1>9 DEF Start
  <2>2. LocalsOK' /\ \A a \in Actions : ActionOK(a)'
    BY <1>0, <2>1 DEF action, LocalsOK, ActionOK
  <2>3. PICK keptTemps \in SUBSET orphans, keptFiles \in SUBSET TempNamed :
           /\ orphans' = keptTemps
           /\ files' = [f \in Targets |-> IF f \in TempNamed \ keptFiles THEN Absent ELSE files[f]]
           /\ excused' = (keptTemps # {})
    BY <1>9 DEF Start
  <2>4. orphans' \subseteq Targets /\ files' \in [Targets -> Contents \cup {Absent}]
    BY <1>0, <2>3 DEF FilesOK
  <2>5. excused' \in BOOLEAN
    BY <2>3
  <2> QED BY <1>0, <2>1, <2>2, <2>4, <2>5 DEF TypeInv, FilesOK
<1>10. CASE UNCHANGED vars
  BY <1>0, <1>10 DEF vars, TypeInv, FilesOK, LocalsOK, ActionOK
<1> QED BY <1>1, <1>2, <1>3, <1>4, <1>5, <1>6, <1>7, <1>8, <1>9, <1>10 DEF Next, Step

LEMMA TypeInvCorrect == Spec => []TypeInv
  BY TypeInvInit, TypeInvNext, PTL DEF Spec

(* The actuator's state has its types, through crashes and failures.          *)
THEOREM FileTypeCorrect == Spec => []TypeOK
  BY TypeInvCorrect, TypeInvImplies, PTL

-----------------------------------------------------------------------------
(* Temporary files.                                                          *)

(* A failed write removes its temporary file, or is excused by a remove_file  *)
(* that failed; the start of the daemon cleans up after a crash.             *)
THEOREM NoOrphansAreLeft == Spec => []NoOrphans
<1>1. Init => NoOrphans
  BY DEF Init, NoOrphans
<1>2. TypeInv /\ NoOrphans /\ [Next]_vars => NoOrphans'
  <2> SUFFICES ASSUME TypeInv, NoOrphans, [Next]_vars PROVE NoOrphans'
    OBVIOUS
  <2>1. ASSUME UNCHANGED <<serving, orphans, excused>> PROVE NoOrphans'
    BY <2>1 DEF NoOrphans
  <2>2. ASSUME NEW a \in Actions, WriteFails(a) PROVE NoOrphans'
    BY <2>2 DEF WriteFails, RemoveTemp, NoOrphans
  <2>3. ASSUME NEW a \in Actions, Step(a), ~WriteFails(a) PROVE NoOrphans'
    BY <2>1, <2>3
    DEF Step, BeginWrite, CreateTemp, FillTemp, Rename, WriteSucceeds, Look, Read
  <2>4. CASE Crash
    BY <2>4 DEF Crash, NoOrphans
  <2>5. CASE Start
    <3>1. PICK keptTemps \in SUBSET orphans : orphans' = keptTemps /\ excused' = (keptTemps # {})
      BY <2>5 DEF Start
    <3>2. CASE keptTemps = {}
      BY <3>1, <3>2 DEF NoOrphans
    <3>3. CASE keptTemps # {}
      BY <3>1, <3>3 DEF NoOrphans
    <3> QED BY <3>2, <3>3
  <2>6. CASE UNCHANGED vars
    BY <2>1, <2>6 DEF vars
  <2> QED BY <2>2, <2>3, <2>4, <2>5, <2>6 DEF Next
<1> QED BY <1>1, <1>2, TypeInvCorrect, PTL DEF Spec

-----------------------------------------------------------------------------
(* Reads.                                                                    *)

(* Unless a rename came between, what metadata said is still true.            *)
Current ==
    \A a \in Actions : \A f \in reading[a] : a \notin raced =>
        files[f] \in Contents /\ totalBytes[a] = Length[files[f]]

LEMMA CurrentNext == TypeInv /\ Current /\ [Next]_vars => Current'
<1> SUFFICES ASSUME TypeInv, Current, [Next]_vars PROVE Current'
  OBVIOUS
<1>0. FilesOK /\ LocalsOK /\ \A a \in Actions : ActionOK(a)
  BY DEF TypeInv
<1>1. ASSUME UNCHANGED <<files, reading, totalBytes, raced>> PROVE Current'
  BY <1>1 DEF Current
<1>2. ASSUME NEW a \in Actions, Return(a), UNCHANGED files PROVE Current'
  <2>1. reading'[a] = {}
    BY <1>0, <1>2 DEF Return, LocalsOK
  <2>2. \A b \in Actions : b # a => /\ reading'[b] = reading[b] /\ totalBytes'[b] = totalBytes[b]
                                    /\ b \in raced' <=> b \in raced
    BY <1>0, <1>2 DEF Return, LocalsOK
  <2> QED BY <1>2, <2>1, <2>2 DEF Current
<1>3. ASSUME NEW a \in Actions, Rename(a) PROVE Current'
  <2> DEFINE f == write[a].target
  <2>1. /\ files' = [files EXCEPT ![f] = temp[a]] /\ raced' = raced \cup {b \in Actions : f \in reading[b]}
        /\ UNCHANGED <<reading, totalBytes>>
    BY <1>3 DEF Rename
  <2> HIDE DEF f
  <2>2. \A g \in Targets : g # f => files'[g] = files[g]
    BY <1>0, <2>1 DEF FilesOK
  <2>3. \A b \in Actions : \A g \in reading[b] : b \notin raced' => g # f /\ g \in Targets /\ b \notin raced
    BY <1>0, <2>1 DEF LocalsOK
  <2> QED BY <2>1, <2>2, <2>3 DEF Current
<1>4. ASSUME NEW a \in Actions, NEW f \in Targets, Look(a, f) PROVE Current'
  <2>1. files[f] \in Contents
    BY <1>0, <1>4 DEF Look, FilesOK
  <2>2. reading'[a] = {f} /\ totalBytes'[a] = Length[files[f]] /\ UNCHANGED <<files, raced>>
    BY <1>0, <1>4 DEF Look, LocalsOK
  <2>3. \A b \in Actions : b # a => reading'[b] = reading[b] /\ totalBytes'[b] = totalBytes[b]
    BY <1>0, <1>4 DEF Look, LocalsOK
  <2> QED BY <2>1, <2>2, <2>3 DEF Current
<1>5. CASE Crash
  BY <1>5 DEF Crash, AllIdle, Current
<1>6. CASE Start
  <2>1. \A a \in Actions : reading[a] = {}
    BY <1>0, <1>6 DEF Start, ActionOK
  <2> QED BY <1>6, <2>1 DEF Start, action, Current
<1>7. ASSUME NEW a \in Actions, Step(a), ~Rename(a), ~\E f \in Targets : Look(a, f) PROVE Current'
  BY <1>1, <1>2, <1>7
  DEF Step, BeginWrite, CreateTemp, FillTemp, WriteFails, WriteSucceeds, Read
<1>8. CASE UNCHANGED vars
  BY <1>1, <1>8 DEF vars
<1> QED BY <1>3, <1>4, <1>5, <1>6, <1>7, <1>8 DEF Next

(* What a file of length n is answered with, by what metadata said of it.     *)
LEMMA AnswerIsFaithful ==
  ASSUME NEW c \in Contents
  PROVE  LET n == Length[c]
             r == Answer(c, n)
         IN  IF n > MaxBytes /\ MaxBytes \in SplitsAt[c]
             THEN r = [error |-> "encoding_error"]
             ELSE r = [returned |-> IF n > MaxBytes THEN MaxBytes ELSE n,
                       total |-> n, truncated |-> (n > MaxBytes)]
<1> DEFINE n == Length[c]
<1>1. n \in Nat /\ MaxBytes \in Nat /\ SplitsAt[c] \subseteq Nat /\ \A m \in SplitsAt[c] : m < n
  BY FileConstants
<1> HIDE DEF n
<1>2. ReadSize(n) = (IF n > MaxBytes THEN MaxBytes ELSE n) /\ ~(n < ReadSize(n))
  BY <1>1 DEF ReadSize
<1>3. Answer(c, n) = IF ReadSize(n) \in SplitsAt[c] THEN [error |-> "encoding_error"]
                     ELSE [returned |-> ReadSize(n), total |-> n, truncated |-> n > MaxBytes]
  BY <1>2, Zenon DEF Answer, n
<1>4. CASE n > MaxBytes /\ MaxBytes \in SplitsAt[c]
  <2>1. Answer(c, n) = [error |-> "encoding_error"]
    BY <1>2, <1>3, <1>4
  <2> QED BY <1>4, <2>1, Zenon DEF n
<1>5. CASE ~(n > MaxBytes /\ MaxBytes \in SplitsAt[c])
  <2>1. ReadSize(n) \notin SplitsAt[c]
    BY <1>1, <1>2, <1>5
  <2>2. Answer(c, n) = [returned |-> IF n > MaxBytes THEN MaxBytes ELSE n,
                        total |-> n, truncated |-> n > MaxBytes]
    BY <1>2, <1>3, <2>1, Zenon
  <2> QED BY <1>5, <2>2, Zenon DEF n
<1> QED BY <1>4, <1>5

(* A read that no rename overtook is answered with the file's length, the     *)
(* flag that says there is more, and no half character.                      *)
THEOREM ReadsAreFaithful == Spec => []UndisturbedReadIsFaithful
<1>1. Init => Current
  BY DEF Init, Current
<1>2. TypeInv /\ Current => UndisturbedReadIsFaithful
  <2> SUFFICES ASSUME TypeInv, Current, NEW a \in Actions, NEW f \in reading[a], a \notin raced
               PROVE  LET n == Length[files[f]]
                          r == Answer(files[f], totalBytes[a])
                      IN  IF n > MaxBytes /\ MaxBytes \in SplitsAt[files[f]]
                          THEN r = [error |-> "encoding_error"]
                          ELSE r = [returned |-> IF n > MaxBytes THEN MaxBytes ELSE n,
                                    total |-> n, truncated |-> (n > MaxBytes)]
    BY DEF UndisturbedReadIsFaithful
  <2>1. files[f] \in Contents /\ totalBytes[a] = Length[files[f]]
    BY DEF Current
  <2> QED BY <2>1, AnswerIsFaithful, Zenon
<1> QED BY <1>1, <1>2, CurrentNext, TypeInvCorrect, PTL DEF Spec

-----------------------------------------------------------------------------
(* The refinement.                                                           *)

Done == {a \in Actions : pc[a] = "renamed"}

(* What each action means to AtomicFiles: the rename alone takes effect.      *)
LEMMA AtomicStep == TypeInv /\ [Next]_vars => [Atomic!Next]_(Atomic!vars)
<1> SUFFICES ASSUME TypeInv, [Next]_vars PROVE Atomic!Next \/ UNCHANGED <<files, write, Done>>
  BY DEF Atomic!vars, Done
<1>0. FilesOK /\ LocalsOK /\ \A a \in Actions : ActionOK(a)
  BY DEF TypeInv
<1>w. Atomic!Writes = Writes
  BY DEF Atomic!Writes, Writes
<1>1. ASSUME NEW a \in Actions, NEW w \in Writes, BeginWrite(a, w) PROVE Atomic!Next
  <2>1. write[a] = NoWrite /\ write' = [write EXCEPT ![a] = w] /\ UNCHANGED files
    BY <1>0, <1>1 DEF BeginWrite, ActionOK, Writing
  <2>2. Done' = Done
    BY <1>0, <1>1 DEF BeginWrite, LocalsOK, Done
  <2>3. Atomic!Begin(a, w)
    BY <2>1, <2>2 DEF Atomic!Begin, Done
  <2> QED BY <1>w, <2>3 DEF Atomic!Next
<1>2. ASSUME NEW a \in Actions, CreateTemp(a) \/ FillTemp(a)
      PROVE  UNCHANGED <<files, write, Done>>
  BY <1>0, <1>2 DEF CreateTemp, FillTemp, LocalsOK, Done
<1>3. ASSUME NEW a \in Actions, Rename(a) PROVE Atomic!Next
  <2>1. write[a] # NoWrite /\ temp[a] = write[a].content /\ a \notin Done
    BY <1>0, <1>3 DEF Rename, ActionOK, Writing, Done
  <2>2. files' = [files EXCEPT ![write[a].target] = write[a].content] /\ UNCHANGED write
    BY <1>3, <2>1 DEF Rename
  <2>3. Done' = Done \cup {a}
    BY <1>0, <1>3 DEF Rename, LocalsOK, Done
  <2>4. Atomic!TakeEffect(a)
    BY <2>1, <2>2, <2>3 DEF Atomic!TakeEffect, Done
  <2> QED BY <2>4 DEF Atomic!Next
<1>4. ASSUME NEW a \in Actions, WriteSucceeds(a) PROVE Atomic!Next
  <2>1. a \in Done /\ write' = [write EXCEPT ![a] = NoWrite] /\ UNCHANGED files
    BY <1>4 DEF WriteSucceeds, Return, Done
  <2>2. Done' = Done \ {a}
    BY <1>0, <1>4 DEF WriteSucceeds, Return, LocalsOK, Done
  <2>3. Atomic!Succeed(a)
    BY <2>1, <2>2 DEF Atomic!Succeed, Done
  <2> QED BY <2>3 DEF Atomic!Next
<1>5. ASSUME NEW a \in Actions, WriteFails(a) PROVE Atomic!Next
  <2>1. /\ write[a] # NoWrite /\ a \notin Done
        /\ write' = [write EXCEPT ![a] = NoWrite] /\ UNCHANGED files
    BY <1>0, <1>5 DEF WriteFails, Return, ActionOK, Writing, Done
  <2>2. Done' = Done
    BY <1>0, <1>5 DEF WriteFails, Return, LocalsOK, Done
  <2>3. Atomic!Fail(a)
    BY <2>1, <2>2 DEF Atomic!Fail, Done
  <2> QED BY <2>3 DEF Atomic!Next
<1>6. ASSUME NEW a \in Actions, Read(a) \/ \E f \in Targets : Look(a, f)
      PROVE  UNCHANGED <<files, write, Done>>
  <2>1. UNCHANGED files /\ Done' = Done
    BY <1>0, <1>6 DEF Read, Look, Return, LocalsOK, Done
  <2>2. write' = write
    <3>1. CASE Read(a)
      <4>1. write[a] = NoWrite /\ write' = [write EXCEPT ![a] = NoWrite]
        BY <1>0, <3>1 DEF Read, Return, ActionOK, Writing
      <4> QED BY <1>0, <4>1 DEF LocalsOK
    <3>2. CASE \E f \in Targets : Look(a, f)
      BY <3>2 DEF Look
    <3> QED BY <1>6, <3>1, <3>2
  <2> QED BY <2>1, <2>2
<1>7. CASE Crash
  <2>1. Atomic!Crash
    BY <1>7 DEF Crash, AllIdle, Atomic!Crash
  <2> QED BY <2>1 DEF Atomic!Next
<1>8. CASE Start
  <2>1. \A a \in Actions : write[a] = NoWrite
    BY <1>0, <1>8 DEF Start, ActionOK, Writing
  <2>2. UNCHANGED <<write, Done>>
    BY <1>8 DEF Start, action, Done
  <2>3. PICK keptFiles \in SUBSET TempNamed :
           files' = [f \in Targets |-> IF f \in TempNamed \ keptFiles THEN Absent ELSE files[f]]
    BY <1>8 DEF Start
  <2>4. Atomic!Start
    BY <2>1, <2>2, <2>3 DEF Atomic!Start, Done
  <2> QED BY <2>4 DEF Atomic!Next
<1>9. CASE UNCHANGED vars
  BY <1>9 DEF vars, Done
<1> QED BY <1>1, <1>2, <1>3, <1>4, <1>5, <1>6, <1>7, <1>8, <1>9 DEF Next, Step

(* Whatever interleaves, fails and crashes, a file goes from whole content to *)
(* whole content in one step, once per write that is answered with success.  *)
THEOREM WritesAreAtomic == Spec => ImplementsAtomicFiles
<1>1. Init => Atomic!Init
  BY DEF Init, Atomic!Init
<1> QED BY <1>1, AtomicStep, TypeInvCorrect, PTL DEF Spec, ImplementsAtomicFiles, Atomic!Spec
=============================================================================
