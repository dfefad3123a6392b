----------------------------- MODULE CommandLine -----------------------------
(***************************************************************************)
(* index.ts: one process runs one command, and what it found leaves it as  *)
(* the exit code that a CI job or a cron line acts on.  The one-shot       *)
(* commands (modules Settlement, OracleHygiene, MessageProof, PqReadiness) *)
(* share these variables; module OneShots puts them behind the dispatcher. *)
(***************************************************************************)
EXTENDS Integers

VARIABLES
  argv,       \* the command and its parsed options
  pc,         \* the await the process is at
  exit        \* process.exitCode, or Running

commandLine == <<argv, pc, exit>>

Running == -1

COMMANDS ==
  {"audit", "audit-bridge", "authority", "deps", "solvency", "upgradeability", "admin-power",
   "oracle-hygiene", "compiler-bugs", "verification-status", "settlement", "pq-readiness",
   "mint-authority", "pause-guardian", "freeze-authority", "message-proof", "serve"}

Exit(code) == pc' = "done" /\ exit' = code

\* main().catch: whatever a handler throws is printed, and the exit code is 1.
Throw == Exit(1)

\* A word that names no handler is an error; help is not.
main ==
  /\ pc = "main"
  /\ IF argv.cmd \in COMMANDS THEN pc' = "begin" /\ UNCHANGED exit
     ELSE Exit(IF argv.cmd \in {"", "help", "--help", "-h"} THEN 0 ELSE 1)
  /\ UNCHANGED argv
=============================================================================
