----------------------------- MODULE FileActuator -----------------------------
(***************************************************************************)
(* file_write, file_read and cleanup_orphan_temps of                       *)
(* safa-core/src/actuator/file.rs: up to eight actions at a time, each on a *)
(* thread of its own, interleaved at every system call, with a crash of    *)
(* the daemon between any two.                                             *)
(*                                                                         *)
(* A content is a value with a length.  Once it is renamed into place a     *)
(* file is never written again, so a read needs no step between its open   *)
(* and its last byte.  Links and directories are left out: nothing here    *)
(* makes a target anything but a regular file.  A crash is one of the      *)
(* process: what was written stays written.                                *)
(***************************************************************************)
EXTENDS Naturals, FiniteSets

CONSTANTS
    Actions, Targets, Contents,
    Length,      \* [Contents -> Nat]
    SplitsAt,    \* [Contents -> SUBSET Nat], the lengths that cut a character
    MaxBytes,    \* max_bytes (524_288)
    TempNamed,   \* targets whose own name has ".ama." in it and ends in ".tmp"
    Absent, Partial, NoWrite

Writes == [target : Targets, content : Contents]

ASSUME FileConstants ==
    /\ Length \in [Contents -> Nat]
    /\ SplitsAt \in [Contents -> SUBSET Nat]
    /\ \A c \in Contents : \A n \in SplitsAt[c] : n > 0 /\ n < Length[c]
    /\ MaxBytes \in Nat
    /\ TempNamed \subseteq Targets
    /\ Absent \notin Contents /\ Partial \notin Contents /\ Absent # Partial
    /\ NoWrite \notin Writes

VARIABLES
    serving,   \* the daemon is up
    files,     \* the file at each target
    pc,        \* where each action is
    write,     \* the write it carries out
    temp,      \* its temporary file
    reading,   \* the targets it has looked at (at most one)
    totalBytes,  \* metadata's length, a local of file_read
    orphans,   \* targets beside which a temporary file was left
    raced,     \* history: readers whose file was replaced since they looked
    excused    \* history: a remove_file failed since the last clean start

action  == <<pc, write, temp, reading, totalBytes>>
vars    == <<serving, files, pc, write, temp, reading, totalBytes, orphans, raced, excused>>

TypeOK ==
    /\ serving \in BOOLEAN
    /\ files \in [Targets -> Contents \cup {Absent}]
    /\ pc \in [Actions -> {"idle", "begun", "created", "filled", "renamed", "looked"}]
    /\ write \in [Actions -> Writes \cup {NoWrite}]
    /\ temp \in [Actions -> Contents \cup {Absent, Partial}]
    /\ reading \in [Actions -> SUBSET Targets]
    /\ totalBytes \in [Actions -> Nat]
    /\ orphans \subseteq Targets
    /\ raced \subseteq Actions
    /\ excused \in BOOLEAN
    /\ \A a \in Actions :
          /\ write[a] # NoWrite <=> pc[a] \in {"begun", "created", "filled", "renamed"}
          /\ temp[a] = CASE pc[a] = "created" -> Partial
                         [] pc[a] = "filled"  -> write[a].content
                         [] OTHER             -> Absent
          /\ Cardinality(reading[a]) = IF pc[a] = "looked" THEN 1 ELSE 0
    /\ ~serving => \A a \in Actions : pc[a] = "idle"

AllIdle ==
    /\ pc' = [a \in Actions |-> "idle"]
    /\ write' = [a \in Actions |-> NoWrite]
    /\ temp' = [a \in Actions |-> Absent]
    /\ reading' = [a \in Actions |-> {}]
    /\ totalBytes' = [a \in Actions |-> 0]

Init ==
    /\ serving = TRUE
    /\ files = [f \in Targets |-> Absent]
    /\ pc = [a \in Actions |-> "idle"]
    /\ write = [a \in Actions |-> NoWrite]
    /\ temp = [a \in Actions |-> Absent]
    /\ reading = [a \in Actions |-> {}]
    /\ totalBytes = [a \in Actions |-> 0]
    /\ orphans = {}
    /\ raced = {}
    /\ excused = FALSE

(* The action returns, and its locals go with it.                            *)
Return(a) ==
    /\ pc' = [pc EXCEPT ![a] = "idle"]
    /\ write' = [write EXCEPT ![a] = NoWrite]
    /\ temp' = [temp EXCEPT ![a] = Absent]
    /\ reading' = [reading EXCEPT ![a] = {}]
    /\ totalBytes' = [totalBytes EXCEPT ![a] = 0]
    /\ raced' = raced \ {a}

-----------------------------------------------------------------------------
(* file_write: the checks and the directories.  An error here is answered    *)
(* from "begun".                                                             *)
BeginWrite(a, w) ==
    /\ serving /\ pc[a] = "idle"
    /\ pc' = [pc EXCEPT ![a] = "begun"]
    /\ write' = [write EXCEPT ![a] = w]
    /\ UNCHANGED <<serving, files, temp, reading, totalBytes, orphans, raced, excused>>

(* Mutant: the target is opened in place of a temporary file.                *)
CreateInPlace(a) ==
    /\ pc[a] = "begun"
    /\ files' = [files EXCEPT ![write[a].target] = Partial]
    /\ temp' = [temp EXCEPT ![a] = Partial]
    /\ pc' = [pc EXCEPT ![a] = "created"]
    /\ UNCHANGED <<serving, write, reading, totalBytes, orphans, raced, excused>>

(* fs::write, first the file and then its bytes.                             *)
CreateTemp(a) ==
    /\ pc[a] = "begun"
    /\ temp' = [temp EXCEPT ![a] = Partial]
    /\ pc' = [pc EXCEPT ![a] = "created"]
    /\ UNCHANGED <<serving, files, write, reading, totalBytes, orphans, raced, excused>>

(* Mutant: bytes reach the target before the rename.                         *)
FillInPlace(a) ==
    /\ pc[a] = "created"
    /\ temp' = [temp EXCEPT ![a] = write[a].content]
    /\ files' = [files EXCEPT ![write[a].target] = write[a].content]
    /\ pc' = [pc EXCEPT ![a] = "filled"]
    /\ UNCHANGED <<serving, write, reading, totalBytes, orphans, raced, excused>>

FillTemp(a) ==
    /\ pc[a] = "created"
    /\ temp' = [temp EXCEPT ![a] = write[a].content]
    /\ pc' = [pc EXCEPT ![a] = "filled"]
    /\ UNCHANGED <<serving, files, write, reading, totalBytes, orphans, raced, excused>>

(* let _ = fs::remove_file: its own failure is not looked at.                *)
RemoveTemp(a) ==
    \/ UNCHANGED <<orphans, excused>>
    \/ /\ temp[a] # Absent
       /\ orphans' = orphans \cup {write[a].target}
       /\ excused' = TRUE

(* Mutant: a failed write returns without removing its temporary file.       *)
WriteFailsUncleaned(a) ==
    /\ pc[a] \in {"begun", "created", "filled"}
    /\ orphans' = IF temp[a] # Absent THEN orphans \cup {write[a].target} ELSE orphans
    /\ Return(a)
    /\ UNCHANGED <<serving, files, excused>>

(* Any of the calls fails, the rename included: the temporary file is        *)
(* removed and the write answered with an error.                            *)
WriteFails(a) ==
    /\ pc[a] \in {"begun", "created", "filled"}
    /\ RemoveTemp(a)
    /\ Return(a)
    /\ UNCHANGED <<serving, files>>

Rename(a) ==
    LET f == write[a].target IN
    /\ pc[a] = "filled"
    /\ files' = [files EXCEPT ![f] = temp[a]]
    /\ temp' = [temp EXCEPT ![a] = Absent]
    /\ pc' = [pc EXCEPT ![a] = "renamed"]
    /\ raced' = raced \cup {b \in Actions : f \in reading[b]}
    /\ UNCHANGED <<serving, write, reading, totalBytes, orphans, excused>>

WriteSucceeds(a) ==
    /\ pc[a] = "renamed"
    /\ Return(a)
    /\ UNCHANGED <<serving, files, orphans, excused>>

-----------------------------------------------------------------------------
(* file_read up to metadata's length.  A missing file is a 503 at once.      *)
Look(a, f) ==
    /\ serving /\ pc[a] = "idle"
    /\ files[f] # Absent
    /\ pc' = [pc EXCEPT ![a] = "looked"]
    /\ reading' = [reading EXCEPT ![a] = {f}]
    /\ totalBytes' = [totalBytes EXCEPT ![a] = Length[files[f]]]
    /\ UNCHANGED <<serving, files, write, temp, orphans, raced, excused>>

(* What a file with content c is answered with, when metadata said total.    *)
ReadSize(total) == IF total < MaxBytes THEN total ELSE MaxBytes

(* Mutant: a file of exactly max_bytes is reported as truncated.             *)
AnswerAtLimit(c, total) ==
    IF Length[c] < ReadSize(total) THEN [error |-> "read error"]
    ELSE IF ReadSize(total) \in SplitsAt[c] THEN [error |-> "encoding_error"]
    ELSE [returned |-> ReadSize(total), total |-> total, truncated |-> total >= MaxBytes]

Answer(c, total) ==
    IF Length[c] < ReadSize(total) THEN [error |-> "read error"]
    ELSE IF ReadSize(total) \in SplitsAt[c] THEN [error |-> "encoding_error"]
    ELSE [returned |-> ReadSize(total), total |-> total, truncated |-> total > MaxBytes]

(* open, read_exact, and the answer.                                         *)
Read(a) ==
    /\ pc[a] = "looked"
    /\ Return(a)
    /\ UNCHANGED <<serving, files, orphans, excused>>

-----------------------------------------------------------------------------
(* The process dies; temporary files that exist are left behind.             *)
Crash ==
    /\ serving
    /\ serving' = FALSE
    /\ AllIdle
    /\ orphans' = orphans \cup {write[a].target : a \in {b \in Actions : temp[b] # Absent}}
    /\ raced' = {}
    /\ UNCHANGED <<files, excused>>

(* cleanup_orphan_temps, before the listener is bound: every file with the    *)
(* name of a temporary is removed, and one that cannot be is passed over.   *)
Start ==
    /\ ~serving
    /\ serving' = TRUE
    /\ \E keptTemps \in SUBSET orphans, keptFiles \in SUBSET TempNamed :
          /\ orphans' = keptTemps
          /\ files' = [f \in Targets |-> IF f \in TempNamed \ keptFiles THEN Absent
                                          ELSE files[f]]
          /\ excused' = (keptTemps # {})
    /\ UNCHANGED <<action, raced>>

Step(a) ==
    \/ \E w \in Writes : BeginWrite(a, w)
    \/ CreateTemp(a)
    \/ FillTemp(a)
    \/ WriteFails(a)
    \/ Rename(a)
    \/ WriteSucceeds(a)
    \/ \E f \in Targets : Look(a, f)
    \/ Read(a)

Next == Crash \/ Start \/ \E a \in Actions : Step(a)

Spec == Init /\ [][Next]_vars

-----------------------------------------------------------------------------
(* Properties.                                                               *)

Atomic == INSTANCE AtomicFiles WITH done <- {a \in Actions : pc[a] = "renamed"}

(* However writes of one file, their failures and crashes interleave, each   *)
(* file goes from whole content to whole content in one step, at most once  *)
(* per write, and never for a write that is answered with an error.          *)
ImplementsAtomicFiles == Atomic!Spec

(* "Failed writes delete their temporary file. No orphan files", and those   *)
(* of a crash are cleaned on the next start: while the daemon serves, a      *)
(* temporary file without a write is one that could not be removed.          *)
NoOrphans == serving /\ ~excused => orphans = {}

(* A read that no rename overtook tells the truth: all of the file up to     *)
(* max_bytes, flagged as truncated exactly when there is more.  A cut in the  *)
(* middle of a character is refused.                                         *)
UndisturbedReadIsFaithful ==
    \A a \in Actions : \A f \in reading[a] : a \notin raced =>
        LET n == Length[files[f]]
            r == Answer(files[f], totalBytes[a])
        IN  IF n > MaxBytes /\ MaxBytes \in SplitsAt[files[f]]
            THEN r = [error |-> "encoding_error"]
            ELSE r = [returned |-> IF n > MaxBytes THEN MaxBytes ELSE n,
                      total |-> n, truncated |-> (n > MaxBytes)]
=============================================================================
