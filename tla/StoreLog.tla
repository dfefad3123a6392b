------------------------------- MODULE StoreLog -------------------------------
(***************************************************************************)
(* The observations of one route in serve/storage.ts: the ring in memory,  *)
(* its .jsonl file, and the count of lines that decides when the file is   *)
(* rewritten from the ring.  The process may die inside a write.           *)
(***************************************************************************)
EXTENDS Integers, FiniteSets, Sequences, SequencesExt

CONSTANTS
  RING,          \* observations kept in memory, and by a compaction (500)
  COMPACT_AT,    \* lines a file may have (5000)
  MaxStored,     \* bound: observations stored
  MaxCrashes     \* bound: crashes inside a write

ASSUME LogAssumption ==
  /\ RING \in Nat \ {0} /\ COMPACT_AT \in Nat /\ RING <= COMPACT_AT
  /\ MaxStored \in Nat /\ MaxCrashes \in Nat

Garbage == 0    \* a line that does not parse

VARIABLES
  alive,      \* the process runs
  ring,       \* the observations in memory, oldest first
  lines,      \* what the process takes for the number of lines in the file
  log,        \* the lines of the file
  open,       \* the last of them has no newline
  \* history, not in the code
  stored,     \* observations stored so far: 1 .. stored, in this order
  crashes,    \* crashes inside an append
  gutted      \* a crash inside a compaction

inMemory == <<alive, ring, lines>>
onDisk == <<log, open>>
logHistory == <<stored, crashes, gutted>>
logVars == <<inMemory, onDisk, logHistory>>

LogInit ==
  /\ alive = FALSE /\ ring = <<>> /\ lines = 0
  /\ log = <<>> /\ open = FALSE
  /\ stored = 0 /\ crashes = 0 /\ gutted = FALSE

Newest(s, n) == SubSeq(s, IF Len(s) > n THEN Len(s) - n + 1 ELSE 1, Len(s))

\* readJsonl skips what does not parse.
readJsonl(file) ==
  LET parsed[n \in 0 .. Len(file)] ==
        IF n = 0 THEN <<>>
        ELSE IF file[n] = Garbage THEN parsed[n - 1] ELSE Append(parsed[n - 1], file[n])
  IN  parsed[Len(file)]
Loaded(file) == Newest(readJsonl(file), RING)

Load ==
  /\ ~alive
  /\ alive' = TRUE
  /\ ring' = Loaded(log)
  /\ lines' = Len(readJsonl(log))
  /\ UNCHANGED <<onDisk, logHistory>>

Gone == alive' = FALSE /\ ring' = <<>> /\ lines' = 0

Exit == alive /\ Gone /\ UNCHANGED <<onDisk, logHistory>>

Pushed == Newest(Append(ring, stored + 1), RING)

\* A line written behind one without a newline continues it.
Extended(line) == IF open THEN Append(Front(log), Garbage) ELSE Append(log, line)

\* Mutant: the file is rewritten from the ring as it was.
StoreCompactsStale ==
  /\ alive /\ stored < MaxStored
  /\ stored' = stored + 1
  /\ ring' = Pushed
  /\ IF lines + 1 > COMPACT_AT
     THEN log' = ring /\ lines' = Len(ring)
     ELSE log' = Extended(stored + 1) /\ lines' = lines + 1
  /\ open' = FALSE
  /\ UNCHANGED <<alive, crashes, gutted>>

\* appendObservation: the ring first, then the file, rewritten once it is long.
Store ==
  /\ alive /\ stored < MaxStored
  /\ stored' = stored + 1
  /\ ring' = Pushed
  /\ IF lines + 1 > COMPACT_AT
     THEN log' = Pushed /\ lines' = Len(Pushed)
     ELSE log' = Extended(stored + 1) /\ lines' = lines + 1
  /\ open' = FALSE
  /\ UNCHANGED <<alive, crashes, gutted>>

\* The process dies inside the append: of the line nothing is there, or a
\* part, or all but its newline.
CrashInAppend ==
  /\ alive /\ stored < MaxStored /\ crashes < MaxCrashes
  /\ lines + 1 <= COMPACT_AT
  /\ stored' = stored + 1 /\ crashes' = crashes + 1
  /\ \/ UNCHANGED onDisk
     \/ \E part \in {Garbage, stored + 1} : log' = Extended(part) /\ open' = TRUE
  /\ Gone
  /\ UNCHANGED gutted

\* ... inside the rewriting, which has emptied the file.
CrashInCompact ==
  /\ alive /\ stored < MaxStored
  /\ lines + 1 > COMPACT_AT
  /\ stored' = stored + 1 /\ gutted' = TRUE
  /\ \E n \in 0 .. Len(Pushed) : log' = SubSeq(Pushed, 1, n)
  /\ open' \in BOOLEAN
  /\ open' => log' # <<>>
  /\ Gone
  /\ UNCHANGED crashes

LogNext == Load \/ Exit \/ Store \/ CrashInAppend \/ CrashInCompact
-----------------------------------------------------------------------------
(***************************************************************************)
(* A restart shows the history that was there: of the newest observations  *)
(* a process loads the same that the last one held, in their order, but    *)
(* for at most two per crash inside an append (the line that was cut, and  *)
(* the one that was written behind it).  Compactions lose nothing, unless  *)
(* the process dies inside one (storage.ts:11-12, 56-68, 111-126).         *)
(***************************************************************************)
RestartKeepsHistory ==
  ~gutted =>
    LET window == {i \in 1 .. stored : i > stored - RING}
        kept   == {Loaded(log)[i] : i \in DOMAIN Loaded(log)}
    IN  /\ \A i, j \in DOMAIN Loaded(log) : i < j => Loaded(log)[i] < Loaded(log)[j]
        /\ Cardinality(window \ kept) <= 2 * crashes
        /\ crashes = 0 /\ alive => ring = Loaded(log)
=============================================================================
