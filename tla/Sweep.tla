------------------------------- MODULE Sweep -------------------------------
(***************************************************************************)
(* The parallel sweep of run_exploration.py: execute_simulations() hands   *)
(* one job per design point to a pool of processes, which run ./destiny    *)
(* and leave on disk either a result CSV file or a row in the CSV file of  *)
(* failures and a marker.  A later launch resumes from what is on disk.    *)
(*                                                                         *)
(* One action is one system call on a shared file, or a stretch of code    *)
(* that touches none.  A crash is the death of all processes: it loses     *)
(* everything but the files.  Nothing is ever synced to the disk, and what *)
(* the files come to if the machine stops is not modelled.                 *)
(***************************************************************************)
EXTENDS Naturals, Sequences, FiniteSets

CONSTANTS
  NumJobs,      \* simulation_args, in order of submission
  NumWorkers,   \* max_workers
  MaxLaunches,  \* bound on the times the script is started
  MaxCrashes    \* bound on the launches that are cut short

ASSUME SweepAssumption ==
  /\ NumJobs \in Nat /\ NumWorkers \in Nat \ {0}
  /\ MaxLaunches \in Nat \ {0} /\ MaxCrashes \in Nat

Jobs     == 1..NumJobs
Workers  == 1..NumWorkers
Outcomes == {"good", "exit", "missing", "useless", "unreadable"}

VARIABLES
  outcome,   \* what ./destiny and its CSV file come to, for each job
  \* files
  final,     \* exploration_results/<tech>/<stem>.csv
  temp,      \* <temp_dir>/<stem>.csv, written by ./destiny
  cfgs,      \* jobs whose <temp_dir>/<stem>.cfg exists
  marked,    \* jobs whose markers/<stem>.done exists
  exists,    \* whether <tech>_failed.csv exists
  lines,     \* its lines: Header or the job of a row
  \* the pool
  parent,    \* state of the main process
  nextJob,   \* next job of the call queue
  pc,        \* what each worker does next
  job,       \* the job it works on
  header,    \* its local variable write_header
  lock,      \* worker that holds the file lock, 0 if none
  result,    \* the futures
  success,   \* success_count
  launches, crashes

files == <<final, temp, cfgs, marked, exists, lines>>
vars  == <<outcome, files, parent, nextJob, pc, job, header, lock, result,
           success, launches, crashes>>

Header == 0
Steps  == {"idle", "run", "check", "exists", "open", "lock", "unlock", "flush",
           "mark", "save", "write", "discard", "cleanup"}

Init ==
  /\ outcome \in [Jobs -> Outcomes]
  /\ final = [j \in Jobs |-> "absent"] /\ temp = [j \in Jobs |-> "absent"]
  /\ cfgs = {} /\ marked = {} /\ exists = FALSE /\ lines = <<>>
  /\ parent = "running" /\ nextJob = 1
  /\ pc = [w \in Workers |-> "idle"] /\ job = [w \in Workers |-> 0]
  /\ header = [w \in Workers |-> FALSE] /\ lock = 0
  /\ result = [j \in Jobs |-> "none"] /\ success = 0
  /\ launches = 1 /\ crashes = 0

At(w, step)   == parent \in {"running", "raising"} /\ pc[w] = step
Goto(w, step) == pc' = [pc EXCEPT ![w] = step]
Pool == <<parent, success, launches, crashes, outcome>>

-----------------------------------------------------------------------------
(* run_single_simulation().                                                 *)

(* Slips: a result on disk is simulated again; a marker is not looked for.  *)
RedoSaved(j)  == FALSE
RedoMarked(j) == FALSE

AlreadySaved(j)  == final[j] # "absent"
AlreadyMarked(j) == j \in marked

(* Slip: a skipped job counts as not saved.                                 *)
NothingNew(j) == "false"

(* What the resume checks return.                                           *)
Skipped(j) == IF AlreadySaved(j) THEN "true" ELSE "false"

(* Slip: the call queue hands out the same job again.                       *)
TakeSame == UNCHANGED nextJob

TakeNext == nextJob' = nextJob + 1

(* A worker takes the next job; unless the disk holds its verdict, it       *)
(* writes the configuration file.                                           *)
Start(w) ==
  /\ At(w, "idle") /\ nextJob <= NumJobs
  /\ TakeNext
  /\ LET j == nextJob IN
     IF AlreadySaved(j) \/ AlreadyMarked(j)
     THEN /\ result' = [result EXCEPT ![j] = Skipped(j)]
          /\ UNCHANGED <<cfgs, pc, job>>
     ELSE /\ cfgs' = cfgs \union {j}
          /\ job' = [job EXCEPT ![w] = j]
          /\ Goto(w, "run")
          /\ UNCHANGED result
  /\ UNCHANGED <<final, temp, marked, exists, lines, header, lock, Pool>>

(* ./destiny truncates and writes its CSV file, or leaves the program after *)
(* the header line.                                                         *)
Destiny(w) ==
  /\ At(w, "run") /\ Goto(w, "check")
  /\ temp' = IF outcome[job[w]] = "missing" THEN temp
             ELSE [temp EXCEPT ![job[w]] = "written"]
  /\ UNCHANGED <<final, cfgs, marked, exists, lines, nextJob, job, header,
                 lock, result, Pool>>

(* Slip: the rows are not looked at.                                        *)
TrustsRows(o) == IF o \in {"good", "useless"} THEN "save"
                 ELSE IF o = "unreadable" THEN "cleanup" ELSE "exists"

(* Where the worker goes from the exit status and the CSV file.             *)
Judge(o) == IF o = "good" THEN "save"
            ELSE IF o = "unreadable" THEN "cleanup" ELSE "exists"

(* A file without usable rows is removed; one that cannot be parsed raises. *)
Check(w) ==
  LET j == job[w] IN
  /\ At(w, "check") /\ Goto(w, Judge(outcome[j]))
  /\ temp' = IF outcome[j] = "useless" THEN [temp EXCEPT ![j] = "absent"]
             ELSE temp
  /\ UNCHANGED <<final, cfgs, marked, exists, lines, nextJob, job, header,
                 lock, result, Pool>>

(* _append_row_to_csv(): the existence of the file is tested before it is   *)
(* opened and locked; the row stays in the buffer of the file object until  *)
(* `with' closes it, after the lock was released.                           *)
TestExists(w) ==
  /\ At(w, "exists") /\ Goto(w, "open")
  /\ header' = [header EXCEPT ![w] = ~exists]
  /\ UNCHANGED <<files, nextJob, job, lock, result, Pool>>

Open(w) ==
  /\ At(w, "open") /\ Goto(w, "lock")
  /\ exists' = TRUE
  /\ UNCHANGED <<final, temp, cfgs, marked, lines, nextJob, job, header, lock,
                 result, Pool>>

Lock(w) ==
  /\ At(w, "lock") /\ lock = 0 /\ Goto(w, "unlock")
  /\ lock' = w
  /\ UNCHANGED <<files, nextJob, job, header, result, Pool>>

Unlock(w) ==
  /\ At(w, "unlock") /\ Goto(w, "flush")
  /\ lock' = 0
  /\ UNCHANGED <<files, nextJob, job, header, result, Pool>>

(* Slips: the buffer never reaches the file; the row names no design point. *)
LoseRow(w)      == UNCHANGED lines
WriteUnknown(w) == lines' = Append(lines, NumJobs + 1)

WriteRow(w) ==
  lines' = lines \o (IF header[w] THEN <<Header>> ELSE <<>>) \o <<job[w]>>

Flush(w) ==
  /\ At(w, "flush") /\ Goto(w, "mark")
  /\ WriteRow(w)
  /\ UNCHANGED <<final, temp, cfgs, marked, exists, nextJob, job, header, lock,
                 result, Pool>>

(* The last statement of _save_failure().                                   *)
Mark(w) ==
  /\ At(w, "mark") /\ Goto(w, "cleanup")
  /\ marked' = marked \union {job[w]}
  /\ UNCHANGED <<final, temp, cfgs, exists, lines, nextJob, job, header, lock,
                 result, Pool>>

(* df.to_csv(final_csv): the file exists before its contents do.            *)
Save(w) ==
  /\ At(w, "save") /\ Goto(w, "write")
  /\ final' = [final EXCEPT ![job[w]] = "partial"]
  /\ UNCHANGED <<temp, cfgs, marked, exists, lines, nextJob, job, header, lock,
                 result, Pool>>

Write(w) ==
  /\ At(w, "write") /\ Goto(w, "discard")
  /\ final' = [final EXCEPT ![job[w]] = "complete"]
  /\ UNCHANGED <<temp, cfgs, marked, exists, lines, nextJob, job, header, lock,
                 result, Pool>>

Discard(w) ==
  /\ At(w, "discard") /\ Goto(w, "cleanup")
  /\ temp' = [temp EXCEPT ![job[w]] = "absent"]
  /\ UNCHANGED <<final, cfgs, marked, exists, lines, nextJob, job, header, lock,
                 result, Pool>>

(* Slip: only a result that was saved removes the configuration file.       *)
RemoveIfSaved(j) == cfgs' = IF outcome[j] = "good" THEN cfgs \ {j} ELSE cfgs

RemoveCfg(j) == cfgs' = cfgs \ {j}

(* The `finally' clause; then the future has its value or exception.        *)
Cleanup(w) ==
  LET j == job[w] IN
  /\ At(w, "cleanup") /\ Goto(w, "idle")
  /\ RemoveCfg(j)
  /\ job' = [job EXCEPT ![w] = 0]
  /\ result' = [result EXCEPT ![j] =
                  CASE outcome[j] = "good" -> "true"
                    [] outcome[j] = "unreadable" -> "raised"
                    [] OTHER -> "false"]
  /\ UNCHANGED <<final, temp, marked, exists, lines, nextJob, header, lock, Pool>>

Worker(w) ==
  \/ Start(w) \/ Destiny(w) \/ Check(w)
  \/ TestExists(w) \/ Open(w) \/ Lock(w) \/ Unlock(w) \/ Flush(w) \/ Mark(w)
  \/ Save(w) \/ Write(w) \/ Discard(w) \/ Cleanup(w)

-----------------------------------------------------------------------------
(* execute_simulations().                                                   *)

(* as_completed() hands over a future; an exception leaves the loop.        *)
Collect(j) ==
  /\ parent = "running" /\ result[j] \in {"true", "false", "raised"}
  /\ IF result[j] = "raised"
     THEN parent' = "raising" /\ UNCHANGED success
     ELSE /\ success' = IF result[j] = "true" THEN success + 1 ELSE success
          /\ UNCHANGED parent
  /\ result' = [result EXCEPT ![j] = "taken"]
  /\ UNCHANGED <<outcome, files, nextJob, pc, job, header, lock, launches, crashes>>

(* All futures are collected: the number of successes is printed.           *)
Finish ==
  /\ parent = "running" /\ \A j \in Jobs : result[j] = "taken"
  /\ parent' = "done"
  /\ UNCHANGED <<outcome, files, nextJob, pc, job, header, lock, result, success,
                 launches, crashes>>

(* Slip: the pool does not wait for its pending jobs.                       *)
NotWaiting == TRUE

Drained == nextJob > NumJobs /\ \A w \in Workers : pc[w] = "idle"

(* An exception leaves the `with' statement, which waits for all jobs.      *)
Raise ==
  /\ parent = "raising" /\ Drained
  /\ parent' = "raised"
  /\ UNCHANGED <<outcome, files, nextJob, pc, job, header, lock, result, success,
                 launches, crashes>>

Main == Finish \/ Raise \/ \E j \in Jobs : Collect(j)

-----------------------------------------------------------------------------
(* All processes are killed: buffers, locks and futures are gone, and what  *)
(* was handed to the kernel stays in the files.                             *)
Crash ==
  /\ parent \in {"running", "raising"} /\ crashes < MaxCrashes
  /\ parent' = "down" /\ crashes' = crashes + 1
  /\ pc' = [w \in Workers |-> "idle"] /\ job' = [w \in Workers |-> 0]
  /\ header' = [w \in Workers |-> FALSE] /\ lock' = 0
  /\ UNCHANGED <<outcome, files, nextJob, result, success, launches>>

(* The script is started again over the same cells.                         *)
Launch ==
  /\ parent \in {"down", "done", "raised"} /\ launches < MaxLaunches
  /\ parent' = "running" /\ launches' = launches + 1
  /\ nextJob' = 1 /\ success' = 0
  /\ result' = [j \in Jobs |-> "none"]
  /\ UNCHANGED <<outcome, files, pc, job, header, lock, crashes>>

Stopped ==
  /\ parent \in {"down", "done", "raised"} /\ launches = MaxLaunches
  /\ UNCHANGED vars

Next == (\E w \in Workers : Worker(w)) \/ Main \/ Crash \/ Launch \/ Stopped

Spec ==
  /\ Init /\ [][Next]_vars
  /\ \A w \in Workers : WF_vars(Worker(w))
  /\ WF_vars(Main)

-----------------------------------------------------------------------------
(* Properties.                                                              *)

TypeOK ==
  /\ outcome \in [Jobs -> Outcomes]
  /\ final \in [Jobs -> {"absent", "partial", "complete"}]
  /\ temp \in [Jobs -> {"absent", "written"}]
  /\ cfgs \subseteq Jobs /\ marked \subseteq Jobs
  /\ exists \in BOOLEAN /\ lines \in Seq(Jobs \union {Header})
  /\ parent \in {"running", "raising", "done", "raised", "down"}
  /\ nextJob \in 1..NumJobs + 1
  /\ pc \in [Workers -> Steps] /\ job \in [Workers -> Jobs \union {0}]
  /\ header \in [Workers -> BOOLEAN] /\ lock \in Workers \union {0}
  /\ result \in [Jobs -> {"none", "true", "false", "raised", "taken"}]
  /\ success \in Nat /\ launches \in Nat /\ crashes \in Nat

Rows(j)  == Cardinality({i \in DOMAIN lines : lines[i] = j})
Saved    == {j \in Jobs : final[j] = "complete"}
Ended    == parent \in {"done", "raised"}
Verdict  == [j \in Jobs |-> IF final[j] = "complete" THEN "valid"
                            ELSE IF j \in marked THEN "failed" ELSE "none"]
Verdicts == INSTANCE SweepVerdicts WITH verdict <- Verdict

(* A design point gets at most one verdict, the right one, and keeps it     *)
(* over kills and launches (resume checks at run_exploration.py:173-174).   *)
KeepsVerdicts == Verdicts!Spec

(* A marker means that the file of failures has the row, even if the        *)
(* processes were killed in between (order of _save_failure, 157-160).      *)
MarkedHasRow ==
  \A j \in marked : \E i \in DOMAIN lines : lines[i] = j

(* A failed design point is recorded once; a crash between the row and the  *)
(* marker makes the next launch record it again, once for each crash.       *)
RowsBounded == \A j \in Jobs : Rows(j) <= 1 + crashes

(* What is settled is not done again: neither its result nor its rows       *)
(* change in any later step or launch (173-174).                            *)
SettledStays ==
  [][\A j \in Jobs : Verdict[j] # "none" =>
       final'[j] = final[j] /\ Rows(j)' = Rows(j)]_vars

(* Without a crash every launch that ends has settled every design point    *)
(* whose CSV file can be parsed: the exception of one job does not lose the *)
(* jobs behind it (351-358).                                                *)
AllSettled ==
  Ended /\ crashes = 0 =>
    \A j \in Jobs : outcome[j] # "unreadable" => Verdict[j] # "none"

(* Without a crash the number printed as saved is the number of complete    *)
(* result files, in the first launch and when resuming (360).               *)
SavedCount ==
  parent = "done" /\ crashes = 0 => success = Cardinality(Saved)

(* Without a crash no configuration file is left, nor the CSV file of a     *)
(* design point that was saved or had no usable rows (231, 238, 255, 258).  *)
NoLitter ==
  Ended /\ crashes = 0 =>
    /\ cfgs = {}
    /\ \A j \in Jobs : outcome[j] \in {"good", "useless"} => temp[j] = "absent"

(* A launch that is not cut short ends, with its report or its exception.   *)
Ends == [](parent \in {"running", "raising"} =>
             <>(parent \in {"done", "raised", "down"}))

(* "Append one dict row to a CSV, serialised with an exclusive file lock":  *)
(* the file starts with its header and has no other.                        *)
OneHeader == \A i \in DOMAIN lines : lines[i] = Header <=> i = 1

(* "already succeeded", "simulations saved": what is counted as saved is a  *)
(* complete result, also after a crash (173, 360).                          *)
CountedIsSaved == parent = "done" => success = Cardinality(Saved)
=============================================================================
