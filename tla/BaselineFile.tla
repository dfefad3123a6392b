----------------------------- MODULE BaselineFile -----------------------------
(***************************************************************************)
(* evmsec authority snapshot and check, of commands/authority.ts, on the   *)
(* level of the baseline file.  Several processes, started by people and   *)
(* by cron, capture the monitored addresses (module AuthorityCapture       *)
(* models one capture read by read), read the file, merge into it and      *)
(* write it, or compare with it.  Each may be killed at any moment.  The   *)
(* file is rewritten in place: it is emptied, then filled.                 *)
(***************************************************************************)
EXTENDS Integers, FiniteSets

CONSTANTS
  Addresses,     \* chain:address of what may be monitored
  States,        \* what a capture may make of an address (one that cannot be read, too)
  Processes,     \* who runs commands
  MaxCommands,   \* bound: commands started
  MaxDrift     \* bound: how often an address changes

ASSUME BaselineAssumption ==
  /\ States # {}
  /\ MaxCommands \in Nat /\ MaxDrift \in Nat

None == <<>>    \* no entries
Absent == [form |-> "absent", snapshots |-> None]
Torn == [form |-> "torn", snapshots |-> None]
Whole(entries) == [form |-> "whole", snapshots |-> entries]

\* Of two entries for an address the first one's stays.
Over(first, second) ==
  [a \in DOMAIN first \cup DOMAIN second |-> IF a \in DOMAIN first THEN first[a] ELSE second[a]]

VARIABLES
  world,       \* address -> what a capture makes of it now
  drifts,      \* how often one changed
  file,        \* the baseline file
  commands,    \* commands started
  run,         \* process -> its command: where it is, its options, what it read
  \* history, not in the code
  recorded,    \* what the snapshots that succeeded recorded, since the last plain one
  overlapped   \* two processes were between reading and writing at once

chains == <<world, drifts>>
fileHistory == <<recorded, overlapped>>
fileVars == <<chains, file, commands, run, fileHistory>>

\* A process without a command.  Of one that ended nothing is left but the
\* exit code, and of that only the 0 of a check or a watch is looked at.
Resting ==
  [at |-> "idle", sub |-> "none", asked |-> {}, append |-> FALSE, route |-> FALSE,
   base |-> None, taken |-> None,
   vouched |-> None,    \* history: what was recorded when it loaded the file
   exit |-> -1]

\* There is no baseline yet, or a committed one.
BaselineInit ==
  /\ world \in [Addresses -> States] /\ drifts = 0
  /\ \E known \in SUBSET Addresses : recorded = [a \in known |-> world[a]]
  /\ file = IF recorded = None THEN Absent ELSE Whole(recorded)
  /\ commands = 0
  /\ run = [p \in Processes |-> Resting]
  /\ overlapped = FALSE

AddressChanges(a) ==
  /\ drifts < MaxDrift
  /\ drifts' = drifts + 1
  /\ \E s \in States \ {world[a]} : world' = [world EXCEPT ![a] = s]
  /\ UNCHANGED <<file, commands, run, fileHistory>>
-----------------------------------------------------------------------------
Becomes(p, r) == run' = [run EXCEPT ![p] = r]

\* Bound: none begins beside a watch that has loaded its baseline, and will
\* not look at the file again.
Begin(p, command) ==
  /\ run[p].at = "idle"
  /\ \A q \in Processes : run[q].sub = "watch" => run[q].at \in {"loading", "idle"}
  /\ commands < MaxCommands /\ commands' = commands + 1
  /\ Becomes(p, command)
  /\ UNCHANGED <<chains, file, fileHistory>>

\* snapshot --address .. or --route, with --append or without.
BeginSnapshot(p) ==
  \E asked \in (SUBSET Addresses) \ {{}}, append, route \in BOOLEAN :
    Begin(p, [Resting EXCEPT !.at = "capturing", !.sub = "snapshot",
                                 !.asked = asked, !.append = append, !.route = route])

\* check, or watch (module AuthorityWatch).
BeginFromBaseline(p, sub) == Begin(p, [Resting EXCEPT !.at = "loading", !.sub = sub])

Killed(p) ==
  /\ run[p].at # "idle"
  /\ Becomes(p, Resting)
  /\ UNCHANGED <<chains, file, commands, fileHistory>>
-----------------------------------------------------------------------------
Wanted(p) == IF run[p].sub = "snapshot" THEN run[p].asked ELSE DOMAIN run[p].base
Captured(p) == run[p].at = "capturing" /\ DOMAIN run[p].taken = Wanted(p)

\* captureAll, at one moment (module AuthorityCapture has its reads).
Capture(p) ==
  /\ run[p].at = "capturing" /\ ~Captured(p)
  /\ Becomes(p, [run[p] EXCEPT !.taken = [a \in Wanted(p) |-> world[a]]])
  /\ UNCHANGED <<chains, file, commands, fileHistory>>

\* snapshotRoute, its contracts captured: their authority is captured too, if
\* one is found; a contract whose authority cannot be read has none.
ResolveAuthority(p) ==
  /\ Captured(p) /\ run[p].route
  /\ \E found \in {{}} \cup {{a} : a \in Addresses} :
       Becomes(p, [run[p] EXCEPT
         !.route = FALSE, !.asked = @ \cup found,
         !.taken = Over(@, [a \in found |-> world[a]])])
  /\ UNCHANGED <<chains, file, commands, fileHistory>>

ToMerge(p) == Captured(p) /\ run[p].sub = "snapshot" /\ ~run[p].route

Merge(p) ==
  /\ Becomes(p, [run[p] EXCEPT !.at = "merged", !.base = IF run[p].append THEN file.snapshots ELSE @])
  /\ overlapped' = (overlapped \/ \E q \in Processes \ {p} : run[q].at \in {"merged", "emptied"})
  /\ UNCHANGED <<chains, file, commands, recorded>>

\* Mutant: a file that does not parse is taken for none.
ReadExistingTolerant(p) == ToMerge(p) /\ Merge(p)

\* --append reads the file there is; only that there is none is forgiven.
ReadExisting(p) ==
  /\ ToMerge(p)
  /\ IF run[p].append /\ file = Torn
     THEN Becomes(p, Resting) /\ UNCHANGED <<chains, file, commands, fileHistory>>
     ELSE Merge(p)

\* writeFileSync empties the file ...
Empty(p) ==
  /\ run[p].at = "merged"
  /\ file' = Torn
  /\ Becomes(p, [run[p] EXCEPT !.at = "emptied"])
  /\ UNCHANGED <<chains, commands, fileHistory>>

\* incoming wins.
mergeSnapshots(existing, incoming) == Over(incoming, existing)

\* ... and writes from its start: what another process wrote meanwhile may
\* stick out behind.
Write(p) ==
  /\ run[p].at = "emptied"
  /\ LET written == Whole(mergeSnapshots(run[p].base, run[p].taken))
     IN  file' \in IF file = Torn THEN {written} ELSE {written, Torn}
  /\ recorded' = IF run[p].append THEN mergeSnapshots(recorded, run[p].taken) ELSE run[p].taken
  /\ Becomes(p, Resting)
  /\ UNCHANGED <<chains, commands, overlapped>>
-----------------------------------------------------------------------------
\* loadBaseline: a file that is not there, or not whole, is an error.
Load(p) ==
  /\ run[p].at = "loading"
  /\ Becomes(p, IF file.form # "whole" THEN Resting
                ELSE [run[p] EXCEPT !.at = "capturing", !.base = file.snapshots,
                                    !.vouched = IF run[p].sub = "check" THEN recorded ELSE @])
  /\ UNCHANGED <<chains, file, commands, fileHistory>>

diffBaselines(baseline, current) ==
  {a \in DOMAIN baseline : a \notin DOMAIN current \/ baseline[a] # current[a]}

Diff(p) == diffBaselines(run[p].base, run[p].taken)

Compare(p) ==
  /\ Captured(p) /\ run[p].sub = "check"
  /\ Becomes(p, IF Diff(p) # {} THEN Resting ELSE [run[p] EXCEPT !.at = "idle", !.exit = 0])
  /\ UNCHANGED <<chains, file, commands, fileHistory>>

FileCommand(p) ==
  \/ BeginSnapshot(p) \/ BeginFromBaseline(p, "check")
  \/ Capture(p) \/ ResolveAuthority(p) \/ ReadExisting(p) \/ Empty(p) \/ Write(p)
  \/ Load(p) \/ Compare(p)
-----------------------------------------------------------------------------
(***************************************************************************)
(* A check that exits with 0 has compared every address that the           *)
(* snapshots recorded, the appended ones included, with what the last of   *)
(* them to succeed recorded of it: no process that was killed half-way,    *)
(* and no file that it left, can drop an address from the watch without a  *)
(* non-zero exit.  It takes that no two processes were rewriting the file  *)
(* at the same time (authority.ts:131-140, 153-174).                       *)
(***************************************************************************)
CleanCheckVouchesForAll ==
  ~overlapped =>
    \A p \in Processes :
      run[p].sub = "check" /\ run[p].exit = 0 =>
        \A a \in DOMAIN run[p].vouched :
          a \in DOMAIN run[p].taken /\ run[p].taken[a] = run[p].vouched[a]
=============================================================================
