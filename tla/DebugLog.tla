------------------------------ MODULE DebugLog ------------------------------
(***************************************************************************)
(* The log every process of the product appends to: each process opens the *)
(* file when it first has something to write and keeps it open, and the    *)
(* file is looked at, moved aside and begun anew when one opens it.        *)
(*                                                                         *)
(* A process is one thread here.  Sizes are counted in lines.  A file that *)
(* somebody has open without sharing its deletion cannot be moved.         *)
(***************************************************************************)
EXTENDS Integers, FiniteSets

CONSTANTS
    Processes,
    MAX_LOG_LINES,   \* MAX_LOG_BYTES, in lines
    Retry,           \* the time until the next attempt to open, 5000 ms
    Wrap,            \* GetTickCount starts again here, 2^32 ms
    Room,            \* how far past MAX_LOG_LINES the log may get
    Absent

VARIABLES
    logging,    \* the registry value Logging
    log,        \* the lines in acuvoice.log
    previous,   \* the lines in acuvoice.1.log
    now,
    pc,         \* where each process is in Log
    cached,     \* what Enabled has read
    file,       \* whether a process has the log open
    next_try

vars == <<logging, log, previous, now, pc, cached, file, next_try>>

Init ==
    /\ logging = 1
    /\ log = Absent /\ previous = Absent
    /\ now \in 0..(Wrap - 1)
    /\ pc = [p \in Processes |-> "idle"]
    /\ cached = [p \in Processes |-> -1]
    /\ file = [p \in Processes |-> FALSE]
    /\ next_try = [p \in Processes |-> 0]

Enabled(p) == IF cached[p] < 0 THEN logging ELSE cached[p]

TooEarly(p) == next_try[p] # 0 /\ now < next_try[p]

Go(p, to) == pc' = [pc EXCEPT ![p] = to]

\* A line that is to be written, and Handle up to Rotate.
Log(p) ==
    /\ pc[p] = "idle"
    /\ cached' = [cached EXCEPT ![p] = Enabled(p)]
    /\ \/ /\ Enabled(p) = 0 \/ (~file[p] /\ TooEarly(p))
          /\ UNCHANGED <<pc, next_try>>
       \/ /\ Enabled(p) # 0 /\ file[p]
          /\ Go(p, "write")
          /\ UNCHANGED next_try
       \/ /\ Enabled(p) # 0 /\ ~file[p] /\ ~TooEarly(p)
          /\ next_try' = [next_try EXCEPT ![p] = (now + Retry) % Wrap]
          /\ Go(p, "rotate")
    /\ UNCHANGED <<logging, log, previous, now, file>>

\* Rotate looks at the size, deletes the previous copy and moves the log.
Look(p) ==
    /\ pc[p] = "rotate"
    /\ Go(p, IF log # Absent /\ log >= MAX_LOG_LINES THEN "delete" ELSE "open")
    /\ UNCHANGED <<logging, log, previous, now, cached, file, next_try>>

Delete(p) ==
    /\ pc[p] = "delete"
    /\ previous' = Absent
    /\ Go(p, "move")
    /\ UNCHANGED <<logging, log, now, cached, file, next_try>>

CanMove == log # Absent /\ previous = Absent /\ \A q \in Processes : ~file[q]

Move(p) ==
    /\ pc[p] = "move"
    /\ IF CanMove THEN previous' = log /\ log' = Absent ELSE UNCHANGED <<log, previous>>
    /\ Go(p, "open")
    /\ UNCHANGED <<logging, now, cached, file, next_try>>

Open(p) ==
    /\ pc[p] = "open"
    /\ \/ /\ file' = [file EXCEPT ![p] = TRUE]
          /\ log' = IF log = Absent THEN 0 ELSE log
          /\ Go(p, "write")
       \/ /\ Go(p, "idle")
          /\ UNCHANGED <<file, log>>
    /\ UNCHANGED <<logging, previous, now, cached, next_try>>

Write(p) ==
    /\ pc[p] = "write"
    /\ log < MAX_LOG_LINES + Room
    /\ log' = log + 1
    /\ Go(p, "idle")
    /\ UNCHANGED <<logging, previous, now, cached, file, next_try>>

\* The process ends, wherever it is; another may start in its place.
End(p) ==
    /\ Go(p, "idle")
    /\ cached' = [cached EXCEPT ![p] = -1]
    /\ file' = [file EXCEPT ![p] = FALSE]
    /\ next_try' = [next_try EXCEPT ![p] = 0]
    /\ UNCHANGED <<logging, log, previous, now>>

Tick ==
    /\ now' = (now + 1) % Wrap
    /\ UNCHANGED <<logging, log, previous, pc, cached, file, next_try>>

SetLogging ==
    /\ logging' \in {0, 1}
    /\ UNCHANGED <<log, previous, now, pc, cached, file, next_try>>

Process(p) ==
    Log(p) \/ Look(p) \/ Delete(p) \/ Move(p) \/ Open(p) \/ Write(p) \/ End(p)

Next == Tick \/ SetLogging \/ \E p \in Processes : Process(p)

Spec == Init /\ [][Next]_vars

-----------------------------------------------------------------------------
\* debug_log.h: "The file is capped and rotated to one previous copy, so
\* leaving it on cannot fill a disk during a long session."  The cap may be
\* passed by the line that reaches it, in each process.
Capped == log # Absent => log <= MAX_LOG_LINES + Cardinality(Processes)

=============================================================================
