------------------------------ MODULE AtomicFiles ------------------------------
(***************************************************************************)
(* What SAFA promises of file_write: a file changes in one indivisible step *)
(* to the whole content of one write; a write that is answered with an      *)
(* error changed nothing, one that is answered with success changed the     *)
(* file; a crash leaves the old file or the new one (THREAT_MODEL.md).      *)
(***************************************************************************)
CONSTANTS Actions, Targets, Contents, Absent, NoWrite,
          TempNamed   \* the targets that a start of the daemon cleans away

Writes == [target : Targets, content : Contents]

VARIABLES
    files,   \* [Targets -> Contents or Absent]
    write,   \* the write each action carries out
    done     \* the actions whose write has taken effect

vars == <<files, write, done>>

Init ==
    /\ files = [f \in Targets |-> Absent]
    /\ write = [a \in Actions |-> NoWrite]
    /\ done = {}

Begin(a, w) ==
    /\ write[a] = NoWrite
    /\ write' = [write EXCEPT ![a] = w]
    /\ UNCHANGED <<files, done>>

TakeEffect(a) ==
    /\ write[a] # NoWrite /\ a \notin done
    /\ files' = [files EXCEPT ![write[a].target] = write[a].content]
    /\ done' = done \cup {a}
    /\ UNCHANGED write

Succeed(a) ==
    /\ a \in done
    /\ done' = done \ {a}
    /\ write' = [write EXCEPT ![a] = NoWrite]
    /\ UNCHANGED files

Fail(a) ==
    /\ write[a] # NoWrite /\ a \notin done
    /\ write' = [write EXCEPT ![a] = NoWrite]
    /\ UNCHANGED <<files, done>>

Crash ==
    /\ write' = [a \in Actions |-> NoWrite]
    /\ done' = {}
    /\ UNCHANGED files

Start ==
    /\ \A a \in Actions : write[a] = NoWrite
    /\ \E S \in SUBSET TempNamed :
          files' = [f \in Targets |-> IF f \in S THEN Absent ELSE files[f]]
    /\ UNCHANGED <<write, done>>

Next ==
    \/ \E a \in Actions :
          \/ \E w \in Writes : Begin(a, w)
          \/ TakeEffect(a)
          \/ Succeed(a)
          \/ Fail(a)
    \/ Crash
    \/ Start

Spec == Init /\ [][Next]_vars
=============================================================================
