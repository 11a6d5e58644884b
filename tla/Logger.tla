------------------------------- MODULE Logger -------------------------------
(***************************************************************************)
(* iot::Logger (include/utils/logger.h): every thread writes to std::cout  *)
(* piece by piece, under the one mutex that also guards the levels.        *)
(***************************************************************************)
EXTENDS Sequences

CONSTANTS
    Threads,       \* who logs
    Subjects,      \* what a message can be about
    Free           \* mutex_ is not held

Levels   == {"DEBUG", "INFO", "WARNING", "ERROR"}
Messages == [level : Levels, about : Subjects]

VARIABLES
    mutex,         \* the thread in log(), or Free
    enabled,       \* enabledLevels_
    writing,       \* what each thread is writing, if anything
    line,          \* the threads whose pieces are on the line of std::cout
    lines          \* history: the messages printed

logVars == <<mutex, enabled, writing, line, lines>>

Init ==
    /\ mutex = Free
    /\ enabled = [l \in Levels |-> TRUE]
    /\ writing = [t \in Threads |-> {}]
    /\ line = <<>>
    /\ lines = {}

LockNot(t) == UNCHANGED mutex    \* mutant: log() without its lock_guard
Lock(t) == mutex = Free /\ mutex' = t

\* log(): a message of a disabled level is dropped; else its line begins.
Log(t, m) ==
    /\ \/ /\ ~enabled[m.level]
          /\ mutex = Free
          /\ UNCHANGED <<mutex, writing, line>>
       \/ /\ enabled[m.level]
          /\ Lock(t)
          /\ writing' = [writing EXCEPT ![t] = {m}]
          /\ line' = Append(line, t)
    /\ UNCHANGED <<enabled, lines>>

\* The message itself and std::endl; the lock is given back.
LogEnd(t) ==
    /\ writing[t] # {}
    /\ mutex' = Free
    /\ line' = <<>>
    /\ lines' = lines \cup writing[t]
    /\ writing' = [writing EXCEPT ![t] = {}]
    /\ UNCHANGED enabled

SetLevelEnabled(l, on) ==
    /\ mutex = Free
    /\ enabled' = [enabled EXCEPT ![l] = on]
    /\ UNCHANGED <<mutex, writing, line, lines>>

\* The types of the variables.
TypeOK ==
    /\ mutex \in Threads \cup {Free}
    /\ enabled \in [Levels -> BOOLEAN]
    /\ writing \in [Threads -> SUBSET Messages]
    /\ line \in Seq(Threads)
    /\ lines \subseteq Messages

\* Lines are whole: two threads never have pieces on the same line.
LinesWhole == \A i, j \in DOMAIN line : line[i] = line[j]

=============================================================================
