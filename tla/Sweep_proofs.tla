---------------------------- MODULE Sweep_proofs ----------------------------
(***************************************************************************)
(* Proofs about the sweep, for every number of jobs, workers, launches and *)
(* kills: wherever it is killed, a design point gets at most one           *)
(* verdict, the right one, and a marker never lacks its row; and what a    *)
(* sweep comes to: how often a failure is recorded, and, as long as        *)
(* nothing is killed, that every design point is settled, counted and      *)
(* cleaned up after.                                                       *)
(***************************************************************************)
EXTENDS Sweep, FiniteSetTheorems, TLAPS

Active(w) == pc[w] # "idle"

(* The jobs the pool works on: each by one worker, none of them done.       *)
PoolOK ==
  /\ \A w \in Workers : Active(w) => job[w] \in Jobs /\ job[w] < nextJob
  /\ \A v, w \in Workers : v # w /\ Active(v) /\ Active(w) => job[v] # job[w]
  /\ \A w \in Workers : Active(w) => result[job[w]] = "none"
  /\ parent \in {"running", "raising", "done", "raised"} =>
       \A j \in Jobs : j >= nextJob => result[j] = "none"
  /\ parent \in {"done", "raised", "down"} => \A w \in Workers : ~Active(w)

Failing == {"exit", "missing", "useless"}

HasRow(j) == \E i \in DOMAIN lines : lines[i] = j

(* What the files say of a job at each step of its worker.                  *)
Undecided(j) == final[j] = "absent" /\ j \notin marked

StepOK(w) ==
  /\ pc[w] \in {"run", "check"} => Undecided(job[w])
  /\ pc[w] = "save" => outcome[job[w]] = "good" /\ Undecided(job[w])
  /\ pc[w] = "write" =>
       /\ outcome[job[w]] = "good" /\ job[w] \notin marked
       /\ final[job[w]] = "partial"
  /\ pc[w] \in {"exists", "open", "lock", "unlock", "flush", "mark"} =>
       outcome[job[w]] \in Failing /\ Undecided(job[w])
  /\ pc[w] = "mark" => HasRow(job[w])

FilesOK ==
  /\ \A j \in marked : outcome[j] \in Failing /\ final[j] = "absent" /\ HasRow(j)
  /\ \A j \in Jobs : final[j] # "absent" => outcome[j] = "good"

Inv == TypeOK /\ PoolOK /\ (\A w \in Workers : StepOK(w)) /\ FilesOK

USE SweepAssumption

-----------------------------------------------------------------------------
LEMMA InitInv == Init => Inv
<1> SUFFICES ASSUME Init PROVE Inv
  OBVIOUS
<1> USE DEF Init
<1>1. TypeOK
  <2>1. lines \in Seq(Jobs \union {Header}) /\ nextJob \in 1..NumJobs + 1
    OBVIOUS
  <2>2. /\ pc \in [Workers -> Steps] /\ job \in [Workers -> Jobs \union {0}]
        /\ header \in [Workers -> BOOLEAN] /\ lock \in Workers \union {0}
    BY DEF Steps
  <2> QED
    BY <2>1, <2>2 DEF TypeOK
<1>2. PoolOK
  BY DEF PoolOK, Active
<1>3. \A w \in Workers : StepOK(w)
  BY DEF StepOK
<1>4. FilesOK
  BY DEF FilesOK
<1> QED
  BY <1>1, <1>2, <1>3, <1>4 DEF Inv

-----------------------------------------------------------------------------
(* Types.                                                                   *)

PoolTypes ==
  /\ parent \in {"running", "raising", "done", "raised", "down"}
  /\ nextJob \in 1..NumJobs + 1
  /\ pc \in [Workers -> Steps] /\ job \in [Workers -> Jobs \union {0}]
  /\ header \in [Workers -> BOOLEAN] /\ lock \in Workers \union {0}
  /\ result \in [Jobs -> {"none", "true", "false", "raised", "taken"}]
  /\ success \in Nat /\ launches \in Nat /\ crashes \in Nat

FileTypes ==
  /\ outcome \in [Jobs -> Outcomes]
  /\ final \in [Jobs -> {"absent", "partial", "complete"}]
  /\ temp \in [Jobs -> {"absent", "written"}]
  /\ cfgs \subseteq Jobs /\ marked \subseteq Jobs
  /\ exists \in BOOLEAN /\ lines \in Seq(Jobs \union {Header})

LEMMA TypeParts == TypeOK <=> PoolTypes /\ FileTypes
BY DEF TypeOK, PoolTypes, FileTypes

LEMMA TypePartsNext ==
  ASSUME PoolTypes', FileTypes'
  PROVE  TypeOK'
BY DEF TypeOK, PoolTypes, FileTypes

(* A worker that is not idle works on a job.                                *)
LEMMA ActiveJob ==
  ASSUME Inv, NEW w \in Workers, pc[w] # "idle"
  PROVE  job[w] \in Jobs
BY DEF Inv, PoolOK, Active

LEMMA WorkerTypes ==
  ASSUME Inv, NEW w \in Workers, Worker(w)
  PROVE  TypeOK'
<1>1. PoolTypes /\ FileTypes
  BY TypeParts DEF Inv
<1>2. pc[w] # "idle" => job[w] \in Jobs
  BY ActiveJob
<1> USE DEF At, Goto, Pool, files
<1>3. CASE Start(w)
  <2>1. nextJob \in Jobs /\ nextJob' = nextJob + 1 /\ nextJob' \in 1..NumJobs + 1
    BY <1>1, <1>3 DEF Start, TakeNext, PoolTypes, Jobs
  <2>2. Skipped(nextJob) \in {"true", "false"}
    BY DEF Skipped
  <2>3. /\ cfgs' = cfgs \/ cfgs' = cfgs \union {nextJob}
        /\ pc' = pc \/ pc' = [pc EXCEPT ![w] = "run"]
        /\ job' = job \/ job' = [job EXCEPT ![w] = nextJob]
        /\ result' = result \/ result' = [result EXCEPT ![nextJob] = Skipped(nextJob)]
        /\ UNCHANGED <<outcome, final, temp, marked, exists, lines, header, lock,
                       parent, success, launches, crashes>>
    BY <1>3 DEF Start
  <2> HIDE DEF Pool
  <2>4. PoolTypes'
    BY <1>1, <2>1, <2>2, <2>3 DEF PoolTypes, Steps
  <2>5. FileTypes'
    BY <1>1, <2>1, <2>3 DEF FileTypes
  <2> QED
    BY <2>4, <2>5, TypePartsNext
<1>4. CASE Destiny(w) \/ Check(w) \/ Discard(w)
  <2>1. PoolTypes'
    BY <1>1, <1>4 DEF Destiny, Check, Discard, PoolTypes, Steps, Judge
  <2>2. FileTypes'
    BY <1>1, <1>2, <1>4 DEF Destiny, Check, Discard, FileTypes
  <2> QED
    BY <2>1, <2>2, TypePartsNext
<1>5. CASE TestExists(w) \/ Open(w) \/ Lock(w) \/ Unlock(w)
  <2>1. PoolTypes'
    BY <1>1, <1>5 DEF TestExists, Open, Lock, Unlock, PoolTypes, FileTypes, Steps
  <2>2. FileTypes'
    BY <1>1, <1>5 DEF TestExists, Open, Lock, Unlock, FileTypes
  <2> QED
    BY <2>1, <2>2, TypePartsNext
<1>6. CASE Flush(w)
  <2>1. PoolTypes'
    BY <1>1, <1>6 DEF Flush, PoolTypes, Steps
  <2>2. lines' \in Seq(Jobs \union {Header})
    <3>1. job[w] \in Jobs /\ lines \in Seq(Jobs \union {Header})
      BY <1>1, <1>2, <1>6 DEF Flush, FileTypes
    <3> DEFINE head == IF header[w] THEN <<Header>> ELSE <<>>
               row  == <<job[w]>>
    <3>2. head \in Seq(Jobs \union {Header}) /\ row \in Seq(Jobs \union {Header})
      <4> DEFINE S == Jobs \union {Header}
      <4>1. Header \in S /\ job[w] \in S
        BY <3>1
      <4> HIDE DEF S
      <4>2. <<Header>> \in Seq(S) /\ <<job[w]>> \in Seq(S) /\ <<>> \in Seq(S)
        BY <4>1
      <4>3. head \in Seq(S) /\ row \in Seq(S)
        BY <4>2
      <4> QED
        BY <4>3 DEF S
    <3>3. lines' = lines \o head \o row
      BY <1>6 DEF Flush, WriteRow
    <3> HIDE DEF head, row
    <3>4. lines \o head \in Seq(Jobs \union {Header})
      BY <3>1, <3>2
    <3> QED
      BY <3>2, <3>3, <3>4
  <2>3. FileTypes'
    BY <1>1, <1>6, <2>2 DEF Flush, FileTypes
  <2> QED
    BY <2>1, <2>3, TypePartsNext
<1>7. CASE Mark(w) \/ Save(w) \/ Write(w)
  <2>1. PoolTypes'
    BY <1>1, <1>7 DEF Mark, Save, Write, PoolTypes, Steps
  <2>2. FileTypes'
    BY <1>1, <1>2, <1>7 DEF Mark, Save, Write, FileTypes
  <2> QED
    BY <2>1, <2>2, TypePartsNext
<1>8. CASE Cleanup(w)
  <2>1. PoolTypes'
    BY <1>1, <1>8 DEF Cleanup, PoolTypes, Steps
  <2>2. FileTypes'
    BY <1>1, <1>8 DEF Cleanup, RemoveCfg, FileTypes
  <2> QED
    BY <2>1, <2>2, TypePartsNext
<1> QED
  BY <1>3, <1>4, <1>5, <1>6, <1>7, <1>8 DEF Worker

(* The steps of the main process and of the world around it.                *)
Others == Main \/ Crash \/ Launch \/ UNCHANGED vars

LEMMA OtherTypes ==
  ASSUME Inv, Others
  PROVE  TypeOK'
<1>1. PoolTypes /\ FileTypes
  BY TypeParts DEF Inv
<1> USE DEF files
<1>2. FileTypes'
  BY <1>1 DEF Others, Main, Collect, Finish, Raise, Crash, Launch, vars, FileTypes
<1>3. PoolTypes'
  <2>1. CASE \E j \in Jobs : Collect(j)
    <3>1. success' \in Nat
      BY <1>1, <2>1 DEF Collect, PoolTypes
    <3> QED
      BY <1>1, <2>1, <3>1 DEF Collect, PoolTypes
  <2>2. CASE Finish \/ Raise
    BY <1>1, <2>2 DEF Finish, Raise, PoolTypes
  <2>3. CASE Crash
    BY <1>1, <2>3 DEF Crash, PoolTypes, Steps
  <2>4. CASE Launch
    <3>1. nextJob' \in 1..NumJobs + 1
      BY <2>4 DEF Launch
    <3> QED
      BY <1>1, <2>4, <3>1 DEF Launch, PoolTypes
  <2>5. CASE UNCHANGED vars
    BY <1>1, <2>5 DEF vars, PoolTypes
  <2> QED
    BY <2>1, <2>2, <2>3, <2>4, <2>5 DEF Others, Main
<1> QED
  BY <1>2, <1>3, TypePartsNext

-----------------------------------------------------------------------------
(* Steps of a worker.                                                       *)

(* Rows are only ever added.                                                *)
LEMMA RowsStay ==
  ASSUME TypeOK, NEW w \in Workers, Worker(w), NEW j, HasRow(j)
  PROVE  HasRow(j)'
<1> USE DEF Pool, files
<1>1. CASE Flush(w)
  <2> DEFINE head == IF header[w] THEN <<Header>> ELSE <<>>
  <2>1. PICK i \in DOMAIN lines : lines[i] = j
    BY DEF HasRow
  <2>2. lines \in Seq(Jobs \union {Header})
    BY DEF TypeOK
  <2>3. lines' = lines \o head \o <<job[w]>>
    BY <1>1 DEF Flush, WriteRow
  <2>4. head \in Seq({Header})
    <3>1. <<Header>> \in Seq({Header}) /\ <<>> \in Seq({Header})
      OBVIOUS
    <3> HIDE DEF Header
    <3> QED
      BY <3>1
  <2> HIDE DEF head
  <2>5. i \in DOMAIN (lines \o head) /\ (lines \o head)[i] = lines[i]
    BY <2>1, <2>2, <2>4
  <2>6. i \in DOMAIN lines' /\ lines'[i] = j
    BY <2>1, <2>2, <2>3, <2>4, <2>5
  <2> QED
    BY <2>6 DEF HasRow
<1>2. CASE UNCHANGED lines
  BY <1>2 DEF HasRow
<1> QED
  BY <1>1, <1>2 DEF Worker, Start, Destiny, Check, TestExists, Open, Lock, Unlock,
     Mark, Save, Write, Discard, Cleanup

(* A step of a worker that keeps its job: it is enough to look at what the  *)
(* step does to the files of that job.                                      *)
LEMMA OwnStep ==
  ASSUME Inv, TypeOK', NEW w \in Workers, NEW step \in Steps \ {"idle"},
         Worker(w), pc[w] # "idle", parent \in {"running", "raising"},
         pc' = [pc EXCEPT ![w] = step],
         UNCHANGED <<outcome, job, nextJob, result, parent>>,
         \A j \in Jobs : j # job[w] =>
           final'[j] = final[j] /\ (j \in marked' <=> j \in marked),
         StepOK(w)',
         job[w] \in marked' =>
           /\ outcome[job[w]] \in Failing /\ final'[job[w]] = "absent"
           /\ HasRow(job[w])',
         final'[job[w]] # "absent" => outcome[job[w]] = "good"
  PROVE  Inv'
<1>1. TypeOK
  BY DEF Inv
<1>2. pc \in [Workers -> Steps] /\ marked' \subseteq Jobs
  BY DEF Inv, TypeOK
<1>3. \A v \in Workers : v # w => pc'[v] = pc[v]
  BY <1>2
<1>4. pc'[w] = step /\ step # "idle"
  BY <1>2
<1>5. \A v \in Workers : Active(v)' <=> Active(v)
  BY <1>3, <1>4 DEF Active
<1>6. PoolOK'
  BY <1>5 DEF PoolOK, Inv
<1>7. \A v \in Workers : StepOK(v)'
  <2> SUFFICES ASSUME NEW v \in Workers, v # w PROVE StepOK(v)'
    OBVIOUS
  <2>1. CASE pc[v] = "idle"
    BY <1>3, <2>1 DEF StepOK
  <2>2. CASE pc[v] # "idle"
    <3>1. job[v] # job[w] /\ job[v] \in Jobs
      BY <2>2 DEF Inv, PoolOK, Active
    <3>2. /\ final'[job[v]] = final[job[v]]
          /\ Undecided(job[v])' <=> Undecided(job[v])
          /\ job[v] \in marked' <=> job[v] \in marked
      BY <3>1 DEF Undecided
    <3>3. HasRow(job[v]) => HasRow(job[v])'
      BY <1>1, RowsStay
    <3>4. job'[v] = job[v] /\ pc'[v] = pc[v] /\ outcome' = outcome
      BY <1>3
    <3>5. StepOK(v)
      BY DEF Inv
    <3> QED
      BY <3>2, <3>3, <3>4, <3>5 DEF StepOK, Undecided, HasRow
  <2> QED
    BY <2>1, <2>2
<1>8. FilesOK'
  <2>1. ASSUME NEW j \in marked'
        PROVE  outcome'[j] \in Failing /\ final'[j] = "absent" /\ HasRow(j)'
    <3>1. CASE j = job[w]
      BY <3>1
    <3>2. CASE j # job[w]
      <4>1. j \in Jobs /\ j \in marked
        BY <1>2, <3>2
      <4>2. outcome[j] \in Failing /\ final[j] = "absent" /\ HasRow(j)
        BY <4>1 DEF Inv, FilesOK
      <4> QED
        BY <1>1, <3>2, <4>1, <4>2, RowsStay
    <3> QED
      BY <3>1, <3>2
  <2>2. ASSUME NEW j \in Jobs, final'[j] # "absent"
        PROVE  outcome'[j] = "good"
    BY <2>2 DEF Inv, FilesOK
  <2> QED
    BY <2>1, <2>2 DEF FilesOK
<1> QED
  BY <1>6, <1>7, <1>8 DEF Inv

(* The steps between the start and the end of a job.                        *)
Middle(w) ==
  \/ Destiny(w) \/ Check(w) \/ TestExists(w) \/ Open(w) \/ Lock(w) \/ Unlock(w)
  \/ Flush(w) \/ Mark(w) \/ Save(w) \/ Write(w) \/ Discard(w)

LEMMA MiddleInv ==
  ASSUME Inv, NEW w \in Workers, Middle(w)
  PROVE  Inv'
<1> DEFINE j == job[w]
<1> USE DEF files
<1>1. Worker(w) /\ TypeOK'
  BY WorkerTypes DEF Middle, Worker
<1>2. pc[w] # "idle" /\ parent \in {"running", "raising"}
  BY DEF Middle, Destiny, Check, TestExists, Open, Lock, Unlock, Flush, Mark,
     Save, Write, Discard, At
<1>3. j \in Jobs
  BY <1>2, ActiveJob
<1>4. /\ TypeOK /\ StepOK(w) /\ FilesOK
      /\ pc \in [Workers -> Steps] /\ outcome[j] \in Outcomes
      /\ final \in [Jobs -> {"absent", "partial", "complete"}]
      /\ marked \subseteq Jobs
  BY <1>3 DEF Inv, TypeOK
<1>5. /\ outcome' = outcome /\ job' = job /\ nextJob' = nextJob
      /\ result' = result /\ parent' = parent
  BY DEF Middle, Destiny, Check, TestExists, Open, Lock, Unlock, Flush, Mark,
     Save, Write, Discard, Pool
<1>6. HasRow(j) => HasRow(j)'
  BY <1>1, <1>4, <1>5, RowsStay DEF HasRow
(* The facts that remain for each step: where it goes and what it leaves.   *)
<1>7. ASSUME NEW step \in Steps \ {"idle"}, pc' = [pc EXCEPT ![w] = step],
             final' = final, marked' = marked, StepOK(w)'
      PROVE  Inv'
  <2>1. j \in marked => outcome[j] \in Failing /\ final[j] = "absent" /\ HasRow(j)
    BY <1>4 DEF FilesOK
  <2>2. final[j] # "absent" => outcome[j] = "good"
    BY <1>3, <1>4 DEF FilesOK
  <2> QED
    BY <1>1, <1>2, <1>5, <1>6, <1>7, <2>1, <2>2, OwnStep
<1>8. CASE Destiny(w)
  <2>1. /\ pc[w] = "run" /\ pc' = [pc EXCEPT ![w] = "check"]
        /\ final' = final /\ marked' = marked
    BY <1>8 DEF Destiny, At, Goto
  <2>2. StepOK(w)'
    BY <1>4, <1>5, <2>1 DEF StepOK, Undecided
  <2> QED
    BY <1>7, <2>1, <2>2 DEF Steps
<1>9. CASE Check(w)
  <2>1. /\ pc[w] = "check" /\ pc' = [pc EXCEPT ![w] = Judge(outcome[j])]
        /\ final' = final /\ marked' = marked
    BY <1>9 DEF Check, At, Goto
  <2>2. Undecided(j)
    BY <1>4, <2>1 DEF StepOK
  <2>3. /\ Judge(outcome[j]) \in {"save", "cleanup", "exists"}
        /\ Judge(outcome[j]) = "save" => outcome[j] = "good"
        /\ Judge(outcome[j]) = "exists" => outcome[j] \in Failing
    BY <1>4 DEF Judge, Outcomes, Failing
  <2>4. StepOK(w)'
    BY <1>4, <1>5, <2>1, <2>2, <2>3 DEF StepOK, Undecided
  <2>5. Judge(outcome[j]) \in Steps \ {"idle"}
    BY <2>3 DEF Steps
  <2> QED
    BY <1>7, <2>1, <2>4, <2>5
<1>10. CASE TestExists(w) \/ Open(w) \/ Lock(w) \/ Unlock(w)
  <2>1. /\ pc[w] \in {"exists", "open", "lock", "unlock"}
        /\ final' = final /\ marked' = marked
    BY <1>10 DEF TestExists, Open, Lock, Unlock, At
  <2>2. PICK step \in {"open", "lock", "unlock", "flush"} :
          pc' = [pc EXCEPT ![w] = step]
    BY <1>10 DEF TestExists, Open, Lock, Unlock, Goto
  <2>3. StepOK(w)'
    BY <1>4, <1>5, <2>1, <2>2 DEF StepOK, Undecided
  <2> QED
    BY <1>7, <2>1, <2>2, <2>3 DEF Steps
<1>11. CASE Flush(w)
  <2>1. /\ pc[w] = "flush" /\ pc' = [pc EXCEPT ![w] = "mark"]
        /\ final' = final /\ marked' = marked
    BY <1>11 DEF Flush, At, Goto
  <2>2. HasRow(j)'
    <3>1. lines \in Seq(Jobs \union {Header})
      BY <1>4 DEF TypeOK
    <3>2. lines' = lines \o (IF header[w] THEN <<Header>> ELSE <<>>) \o <<j>>
      BY <1>11 DEF Flush, WriteRow
    <3> DEFINE before == lines \o (IF header[w] THEN <<Header>> ELSE <<>>)
    <3>3. before \in Seq(Jobs \union {Header})
      <4>1. <<Header>> \in Seq(Jobs \union {Header}) /\ <<>> \in Seq(Jobs \union {Header})
        OBVIOUS
      <4> HIDE DEF Header
      <4> QED
        BY <3>1, <4>1
    <3> HIDE DEF before
    <3>4. /\ lines' = before \o <<j>>
          /\ Len(before) + 1 \in DOMAIN lines' /\ lines'[Len(before) + 1] = j
      <4>1. lines' = before \o <<j>>
        BY <3>2 DEF before
      <4> QED
        BY <3>3, <4>1
    <3> QED
      BY <1>5, <3>4 DEF HasRow
  <2>3. StepOK(w)'
    BY <1>4, <1>5, <2>1, <2>2 DEF StepOK, Undecided
  <2> QED
    BY <1>7, <2>1, <2>3 DEF Steps
<1>12. CASE Mark(w)
  <2>1. /\ pc[w] = "mark" /\ pc' = [pc EXCEPT ![w] = "cleanup"]
        /\ final' = final /\ marked' = marked \union {j}
    BY <1>12 DEF Mark, At, Goto
  <2>2. outcome[j] \in Failing /\ Undecided(j) /\ HasRow(j)
    BY <1>4, <2>1 DEF StepOK
  <2>3. StepOK(w)'
    BY <1>4, <1>5, <2>1 DEF StepOK
  <2>4. \A i \in Jobs : i # j =>
          final'[i] = final[i] /\ (i \in marked' <=> i \in marked)
    BY <2>1
  <2>5. final'[j] = "absent" /\ "cleanup" \in Steps \ {"idle"}
    BY <2>1, <2>2 DEF Undecided, Steps
  <2> QED
    BY <1>1, <1>2, <1>5, <1>6, <2>1, <2>2, <2>3, <2>4, <2>5, OwnStep
<1>13. CASE Save(w) \/ Write(w) \/ Discard(w)
  <2>1. PICK step \in {"write", "discard", "cleanup"} :
          pc' = [pc EXCEPT ![w] = step]
    BY <1>13 DEF Save, Write, Discard, Goto
  <2>2. /\ pc[w] = "save" => step = "write"
        /\ pc[w] = "write" => step = "discard"
        /\ pc[w] = "discard" => step = "cleanup"
        /\ pc[w] \in {"save", "write", "discard"}
    <3>1. pc'[w] = step
      BY <1>4, <2>1
    <3> QED
      BY <1>4, <1>13, <3>1 DEF Save, Write, Discard, At, Goto
  <2>3. /\ marked' = marked
        /\ \A i \in Jobs : i # j => final'[i] = final[i]
        /\ pc[w] = "discard" => final' = final
        /\ pc[w] = "save" => final'[j] = "partial"
    BY <1>3, <1>4, <1>13 DEF Save, Write, Discard, At
  <2>4. pc[w] \in {"save", "write"} => outcome[j] = "good" /\ j \notin marked
    BY <1>4 DEF StepOK, Undecided
  <2>5. StepOK(w)'
    BY <1>4, <1>5, <2>1, <2>2, <2>3, <2>4 DEF StepOK
  <2>6. j \in marked' => pc[w] = "discard" /\ outcome[j] \in Failing
                         /\ final'[j] = "absent" /\ HasRow(j)'
    BY <1>4, <1>6, <2>2, <2>3, <2>4 DEF FilesOK
  <2>7. final'[j] # "absent" => outcome[j] = "good"
    BY <1>3, <1>4, <2>2, <2>3, <2>4 DEF FilesOK
  <2>8. step \in Steps \ {"idle"}
    BY DEF Steps
  <2> QED
    BY <1>1, <1>2, <1>5, <2>1, <2>3, <2>5, <2>6, <2>7, <2>8, OwnStep
<1> QED
  BY <1>8, <1>9, <1>10, <1>11, <1>12, <1>13 DEF Middle

(* The start of a job.                                                      *)
LEMMA StartInv ==
  ASSUME Inv, NEW w \in Workers, Start(w)
  PROVE  Inv'
<1> DEFINE j == nextJob
<1>1. TypeOK' /\ TypeOK /\ PoolOK /\ FilesOK /\ \A v \in Workers : StepOK(v)
  BY WorkerTypes DEF Worker, Inv
<1>2. j \in Jobs /\ nextJob' = nextJob + 1 /\ pc[w] = "idle"
      /\ parent \in {"running", "raising"}
  BY <1>1 DEF Start, TakeNext, At, TypeOK, Jobs
<1>3. /\ pc \in [Workers -> Steps] /\ job \in [Workers -> Jobs \union {0}]
      /\ result \in [Jobs -> {"none", "true", "false", "raised", "taken"}]
  BY <1>1 DEF TypeOK
<1>4. UNCHANGED <<outcome, final, marked, lines, parent>>
  BY DEF Start, Pool
<1>5. \A v \in Workers : Active(v) => job[v] \in Jobs /\ job[v] # j /\ job[v] < j
  BY <1>2, <1>1 DEF PoolOK, Jobs
<1>6. \A i \in Jobs : i >= j => result[i] = "none"
  BY <1>1, <1>2 DEF PoolOK
<1>7. FilesOK'
  BY <1>1, <1>4 DEF FilesOK, HasRow
<1>8. CASE AlreadySaved(j) \/ AlreadyMarked(j)
  <2>1. pc' = pc /\ job' = job /\ result' = [result EXCEPT ![j] = Skipped(j)]
    BY <1>8 DEF Start
  <2>2. \A i \in Jobs : i # j => result'[i] = result[i]
    BY <1>3, <2>1
  <2>3. PoolOK'
    <3>1. \A v \in Workers : Active(v)' <=> Active(v)
      BY <2>1 DEF Active
    <3>2. \A v \in Workers : Active(v) => job[v] < nextJob'
      BY <1>2, <1>5 DEF Jobs
    <3>3. \A i \in Jobs : i >= nextJob' => result'[i] = "none"
      BY <1>2, <1>6, <2>2 DEF Jobs
    <3> QED
      BY <1>1, <1>2, <1>4, <1>5, <2>1, <2>2, <3>1, <3>2, <3>3 DEF PoolOK
  <2>4. \A v \in Workers : StepOK(v)'
    BY <1>1, <1>4, <2>1 DEF StepOK, Undecided, HasRow
  <2> QED
    BY <1>1, <1>7, <2>3, <2>4 DEF Inv
<1>9. CASE ~(AlreadySaved(j) \/ AlreadyMarked(j))
  <2>1. /\ pc' = [pc EXCEPT ![w] = "run"] /\ job' = [job EXCEPT ![w] = j]
        /\ result' = result
    BY <1>9 DEF Start, Goto
  <2>2. /\ pc'[w] = "run" /\ job'[w] = j
        /\ \A v \in Workers : v # w => pc'[v] = pc[v] /\ job'[v] = job[v]
    BY <1>3, <2>1
  <2>3. PoolOK'
    <3>1. \A v \in Workers : v # w => (Active(v)' <=> Active(v))
      BY <2>2 DEF Active
    <3>2. \A v \in Workers : Active(v)' => job'[v] \in Jobs /\ job'[v] < nextJob'
      BY <1>2, <1>5, <2>2, <3>1 DEF Jobs
    <3>3. \A u, v \in Workers : u # v /\ Active(u)' /\ Active(v)' => job'[u] # job'[v]
      BY <1>1, <1>5, <2>2, <3>1 DEF PoolOK
    <3>4. \A v \in Workers : Active(v)' => result'[job'[v]] = "none"
      <4>1. result[j] = "none"
        BY <1>2, <1>6 DEF Jobs
      <4> QED
        BY <1>1, <2>1, <2>2, <3>1, <4>1 DEF PoolOK
    <3>5. \A i \in Jobs : i >= nextJob' => result'[i] = "none"
      BY <1>2, <1>6, <2>1 DEF Jobs
    <3> QED
      BY <1>2, <1>4, <3>2, <3>3, <3>4, <3>5 DEF PoolOK
  <2>4. \A v \in Workers : StepOK(v)'
    <3>1. StepOK(w)'
      BY <1>4, <1>9, <2>2 DEF StepOK, Undecided, AlreadySaved, AlreadyMarked
    <3>2. ASSUME NEW v \in Workers, v # w PROVE StepOK(v)'
      BY <1>1, <1>4, <2>2, <3>2 DEF StepOK, Undecided, HasRow
    <3> QED
      BY <3>1, <3>2
  <2> QED
    BY <1>1, <1>7, <2>3, <2>4 DEF Inv
<1> QED
  BY <1>8, <1>9

(* The end of a job.                                                        *)
LEMMA CleanupInv ==
  ASSUME Inv, NEW w \in Workers, Cleanup(w)
  PROVE  Inv'
<1>1. TypeOK' /\ TypeOK /\ PoolOK /\ FilesOK /\ \A v \in Workers : StepOK(v)
  BY WorkerTypes DEF Worker, Inv
<1>2. pc[w] = "cleanup" /\ pc' = [pc EXCEPT ![w] = "idle"]
      /\ job' = [job EXCEPT ![w] = 0] /\ parent \in {"running", "raising"}
  BY DEF Cleanup, At, Goto
<1>3. job[w] \in Jobs /\ job[w] < nextJob
  BY <1>1, <1>2 DEF PoolOK, Active
<1>4. UNCHANGED <<outcome, final, marked, lines, parent, nextJob>>
  BY DEF Cleanup, Pool
<1>5. \A i \in Jobs : i # job[w] => result'[i] = result[i]
  BY <1>1 DEF Cleanup, TypeOK
<1>6. /\ pc'[w] = "idle"
      /\ \A v \in Workers : v # w => pc'[v] = pc[v] /\ job'[v] = job[v]
  BY <1>1, <1>2 DEF TypeOK
<1>7. FilesOK'
  BY <1>1, <1>4 DEF FilesOK, HasRow
<1>8. \A v \in Workers : StepOK(v)'
  BY <1>1, <1>4, <1>6 DEF StepOK, Undecided, HasRow
<1>9. PoolOK'
  <2>1. \A v \in Workers : Active(v)' => v # w /\ Active(v) /\ job'[v] = job[v]
                                        /\ job[v] # job[w]
    BY <1>1, <1>2, <1>6 DEF Active, PoolOK
  <2>2. \A v \in Workers : Active(v)' => job'[v] \in Jobs /\ job'[v] < nextJob'
                                        /\ result'[job'[v]] = "none"
    BY <1>1, <1>4, <1>5, <2>1 DEF PoolOK
  <2>3. \A u, v \in Workers : u # v /\ Active(u)' /\ Active(v)' => job'[u] # job'[v]
    BY <1>1, <2>1 DEF PoolOK
  <2>4. \A i \in Jobs : i >= nextJob' => result'[i] = "none"
    <3>1. nextJob \in Nat
      BY <1>1 DEF TypeOK
    <3> QED
      BY <1>1, <1>2, <1>3, <1>4, <1>5, <3>1 DEF PoolOK, Jobs
  <2> QED
    BY <1>2, <1>4, <2>2, <2>3, <2>4 DEF PoolOK
<1> QED
  BY <1>1, <1>7, <1>8, <1>9 DEF Inv

(* The main process and the world around it.                                *)
LEMMA OtherInv ==
  ASSUME Inv, Others
  PROVE  Inv'
<1> USE DEF files
<1>1. TypeOK' /\ TypeOK /\ PoolOK /\ FilesOK /\ \A v \in Workers : StepOK(v)
  BY OtherTypes DEF Inv
<1>2. UNCHANGED <<outcome, final, marked, lines>>
  BY DEF Others, Main, Collect, Finish, Raise, Crash, Launch, vars
<1>3. FilesOK'
  BY <1>1, <1>2 DEF FilesOK, HasRow
<1>4. CASE Crash \/ Launch
  <2>1. \A v \in Workers : pc'[v] = "idle"
    BY <1>1, <1>4 DEF Crash, Launch, PoolOK, Active
  <2>2. \/ parent' = "down"
        \/ parent' = "running" /\ \A j \in Jobs : result'[j] = "none"
    BY <1>4 DEF Crash, Launch
  <2>3. PoolOK'
    BY <2>1, <2>2 DEF PoolOK, Active
  <2>4. \A v \in Workers : StepOK(v)'
    BY <2>1 DEF StepOK
  <2> QED
    BY <1>1, <1>3, <2>3, <2>4 DEF Inv
<1>5. CASE Main \/ UNCHANGED vars
  <2>1. UNCHANGED <<pc, job, nextJob>>
    BY <1>5 DEF Main, Collect, Finish, Raise, vars
  <2>2. \A v \in Workers : StepOK(v)'
    BY <1>1, <1>2, <2>1 DEF StepOK, Undecided, HasRow
  <2>3. /\ \A v \in Workers : Active(v)' <=> Active(v)
        /\ \A i \in Jobs : result[i] = "none" => result'[i] = "none"
    BY <1>1, <1>5, <2>1 DEF Main, Collect, Finish, Raise, vars, Active, TypeOK
  <2>4. parent' \in {"done", "raised", "down"} => \A v \in Workers : ~Active(v)
    <3>1. CASE Finish
      BY <1>1, <3>1 DEF Finish, PoolOK
    <3>2. CASE Raise
      BY <3>2 DEF Raise, Drained, Active
    <3>3. CASE \E j \in Jobs : Collect(j)
      BY <1>1, <3>3 DEF Collect
    <3>4. CASE UNCHANGED vars
      BY <1>1, <3>4 DEF vars, PoolOK
    <3> QED
      BY <1>5, <3>1, <3>2, <3>3, <3>4 DEF Main
  <2>5. parent' \in {"running", "raising", "done", "raised"} =>
          parent \in {"running", "raising", "done", "raised"}
    BY <1>5 DEF Main, Collect, Finish, Raise, vars
  <2>6. PoolOK'
    BY <1>1, <2>1, <2>3, <2>4, <2>5 DEF PoolOK
  <2> QED
    BY <1>1, <1>3, <2>2, <2>6 DEF Inv
<1> QED
  BY <1>4, <1>5 DEF Others

LEMMA NextInv == Inv /\ [Next]_vars => Inv'
<1> SUFFICES ASSUME Inv, [Next]_vars PROVE Inv'
  OBVIOUS
<1>1. CASE \E w \in Workers : Worker(w)
  BY <1>1, StartInv, MiddleInv, CleanupInv DEF Worker, Middle
<1>2. CASE Others
  BY <1>2, OtherInv
<1> QED
  BY <1>1, <1>2 DEF Next, Others, Stopped

-----------------------------------------------------------------------------
(* The theorems.                                                            *)

(* The invariant holds for every number of jobs, workers, launches, crashes *)
(* and for every outcome of the simulations.                                *)
THEOREM SweepInvariance == Spec => []Inv
BY InitInv, NextInv, PTL DEF Spec

(* The variables keep their types.                                          *)
THEOREM SweepTypes == Spec => []TypeOK
<1>1. Inv => TypeOK
  BY DEF Inv
<1> QED
  BY <1>1, SweepInvariance, PTL

(* Wherever the processes of the sweep are killed, a marker never lacks the *)
(* row of its failure (_save_failure, run_exploration.py:157-160).          *)
THEOREM SweepMarkers == Spec => []MarkedHasRow
<1>1. Inv => MarkedHasRow
  BY DEF Inv, FilesOK, HasRow, MarkedHasRow
<1> QED
  BY <1>1, SweepInvariance, PTL

(* The files carry out the abstract specification: every step gives a       *)
(* design point the verdict it deserves, or changes no verdict.             *)
LEMMA WorkerDecides ==
  ASSUME Inv, NEW w \in Workers, Worker(w)
  PROVE  Verdicts!Next \/ (Verdict' = Verdict /\ outcome' = outcome)
<1> DEFINE j == job[w]
<1> USE DEF files, Pool
<1>1. /\ TypeOK /\ FilesOK /\ StepOK(w)
      /\ final \in [Jobs -> {"absent", "partial", "complete"}]
  BY DEF Inv, TypeOK
<1>2. outcome' = outcome
  BY DEF Worker, Start, Destiny, Check, TestExists, Open, Lock, Unlock, Flush,
     Mark, Save, Write, Discard, Cleanup
<1>3. CASE Mark(w) \/ Write(w)
  <2>1. j \in Jobs
    BY <1>3, ActiveJob DEF Mark, Write, At
  <2>2. /\ outcome[j] # "unreadable" /\ Verdict[j] = "none"
        /\ Verdict' = [Verdict EXCEPT ![j] =
                         IF outcome[j] = "good" THEN "valid" ELSE "failed"]
    <3>1. CASE Mark(w)
      <4>1. /\ final' = final /\ marked' = marked \union {j}
            /\ outcome[j] \in Failing /\ Undecided(j)
        BY <1>1, <3>1 DEF Mark, At, StepOK
      <4>2. outcome[j] # "good" /\ outcome[j] # "unreadable"
        BY <4>1 DEF Failing
      <4> QED
        BY <2>1, <4>1, <4>2 DEF Verdict, Undecided
    <3>2. CASE Write(w)
      <4>1. /\ final' = [final EXCEPT ![j] = "complete"] /\ marked' = marked
            /\ outcome[j] = "good" /\ j \notin marked
        BY <1>1, <3>2 DEF Write, At, StepOK
      <4>2. final[j] # "complete"
        BY <1>1, <3>2 DEF Write, At, StepOK
      <4> QED
        BY <1>1, <2>1, <4>1, <4>2 DEF Verdict
    <3> QED
      BY <1>3, <3>1, <3>2
  <2>3. j \in Verdicts!Jobs
    BY <2>1 DEF Jobs, Verdicts!Jobs
  <2>4. Verdicts!Decide(j)
    BY <1>2, <2>2 DEF Verdicts!Decide
  <2> QED
    BY <2>3, <2>4 DEF Verdicts!Next
<1>4. CASE Save(w)
  <2>1. j \in Jobs
    BY <1>4, ActiveJob DEF Save, At
  <2>2. Undecided(j) /\ final' = [final EXCEPT ![j] = "partial"] /\ marked' = marked
    BY <1>1, <1>4 DEF Save, At, StepOK
  <2>3. Verdict' = Verdict
    BY <1>1, <2>1, <2>2 DEF Verdict, Undecided
  <2> QED
    BY <1>2, <2>3
<1>5. CASE UNCHANGED <<final, marked>>
  BY <1>2, <1>5 DEF Verdict
<1> QED
  BY <1>3, <1>4, <1>5 DEF Worker, Start, Destiny, Check, TestExists, Open, Lock,
     Unlock, Flush, Discard, Cleanup

LEMMA NextDecides ==
  Inv /\ [Next]_vars => [Verdicts!Next]_<<outcome, Verdict>>
<1> SUFFICES ASSUME Inv, [Next]_vars
             PROVE  Verdicts!Next \/ (Verdict' = Verdict /\ outcome' = outcome)
  OBVIOUS
<1>1. CASE \E w \in Workers : Worker(w)
  BY <1>1, WorkerDecides
<1>2. CASE Others
  <2>1. UNCHANGED <<outcome, final, marked>>
    BY <1>2 DEF Others, Main, Collect, Finish, Raise, Crash, Launch, vars, files
  <2> QED
    BY <2>1 DEF Verdict
<1> QED
  BY <1>1, <1>2 DEF Next, Others, Stopped

(* A design point gets at most one verdict, the one its simulation          *)
(* deserves, and keeps it, whatever is interrupted (resume checks,          *)
(* run_exploration.py:173-174).                                             *)
THEOREM SweepKeepsVerdicts == Spec => KeepsVerdicts
<1>1. Init => Verdicts!Init
  BY DEF Init, Verdicts!Init, Verdict, Jobs, Verdicts!Jobs, Outcomes, Verdicts!Outcomes
<1> QED
  BY <1>1, NextDecides, SweepInvariance, PTL DEF Spec, KeepsVerdicts, Verdicts!Spec

Positions(s, x) == {i \in DOMAIN s : s[i] = x}

(* Lines that are not x leave the positions of x where they are.            *)
LEMMA SamePositions ==
  ASSUME NEW S, NEW s \in Seq(S), NEW t \in Seq(S), NEW x,
         \A i \in DOMAIN t : t[i] # x
  PROVE  Positions(s \o t, x) = Positions(s, x)
<1>1. /\ Len(s) \in Nat /\ Len(t) \in Nat
      /\ DOMAIN s = 1..Len(s) /\ DOMAIN t = 1..Len(t)
      /\ DOMAIN (s \o t) = 1..Len(s) + Len(t)
  OBVIOUS
<1>2. \A i \in 1..Len(s) : (s \o t)[i] = s[i]
  BY <1>1
<1>3. ASSUME NEW i \in DOMAIN (s \o t), i > Len(s) PROVE (s \o t)[i] # x
  <2>1. i - Len(s) \in DOMAIN t /\ (s \o t)[i] = t[i - Len(s)]
    BY <1>1, <1>3
  <2> QED
    BY <2>1
<1> QED
  BY <1>1, <1>2, <1>3 DEF Positions

(* What is settled stays as it is: only a worker of an undecided job writes *)
(* a result file or a row.                                                  *)
LEMMA WorkerLeavesSettled ==
  ASSUME Inv, NEW w \in Workers, Worker(w), NEW j \in Jobs, Verdict[j] # "none"
  PROVE  final'[j] = final[j] /\ Rows(j)' = Rows(j)
<1> USE DEF files, Pool
<1>1. TypeOK /\ StepOK(w) /\ ~Undecided(j)
      /\ (final[j] # "complete" => j \in marked)
  BY DEF Inv, Undecided, Verdict
<1>2. final \in [Jobs -> {"absent", "partial", "complete"}]
  BY <1>1 DEF TypeOK
<1>3. CASE Flush(w)
  <2>1. job[w] \in Jobs /\ job[w] # j
    BY <1>1, <1>3, ActiveJob DEF Flush, At, StepOK
  <2> DEFINE S    == Jobs \union {Header}
             head == IF header[w] THEN <<Header>> ELSE <<>>
             row  == <<job[w]>>
  <2>2. lines \in Seq(S)
    BY <1>1 DEF TypeOK
  <2>3. /\ head \in Seq(S) /\ row \in Seq(S)
        /\ \A i \in DOMAIN head : head[i] # j
        /\ \A i \in DOMAIN row : row[i] # j
    <3>1. Header # j /\ Header \in S /\ job[w] \in S
      BY <2>1 DEF Header, Jobs
    <3> HIDE DEF S, Header
    <3>2. <<Header>> \in Seq(S) /\ <<>> \in Seq(S) /\ row \in Seq(S)
      BY <3>1
    <3>3. CASE header[w]
      <4>1. head = <<Header>>
        BY <3>3
      <4> HIDE DEF head
      <4> QED
        BY <2>1, <3>1, <3>2, <4>1
    <3>4. CASE ~header[w]
      <4>1. head = <<>>
        BY <3>4
      <4> HIDE DEF head
      <4> QED
        BY <2>1, <3>1, <3>2, <4>1
    <3> QED
      BY <3>3, <3>4
  <2>4. lines' = lines \o head \o row
    BY <1>3 DEF Flush, WriteRow
  <2> HIDE DEF S, head, row
  <2>5. lines \o head \in Seq(S)
    BY <2>2, <2>3
  <2>6. Positions(lines', j) = Positions(lines, j)
    <3>1. Positions(lines \o head, j) = Positions(lines, j)
      BY <2>2, <2>3, SamePositions
    <3>2. Positions((lines \o head) \o row, j) = Positions(lines \o head, j)
      BY <2>3, <2>5, SamePositions
    <3> QED
      BY <2>4, <3>1, <3>2
  <2> QED
    BY <1>3, <2>6 DEF Flush, Rows, Positions
<1>4. CASE Save(w) \/ Write(w)
  <2>1. job[w] \in Jobs /\ job[w] # j
    BY <1>1, <1>4, ActiveJob DEF Save, Write, At, StepOK
  <2> QED
    BY <1>2, <1>4, <2>1 DEF Save, Write, Rows
<1>5. CASE UNCHANGED <<final, lines>>
  BY <1>5 DEF Rows
<1> QED
  BY <1>3, <1>4, <1>5 DEF Worker, Start, Destiny, Check, TestExists, Open, Lock,
     Unlock, Mark, Discard, Cleanup

(* Neither the result nor the rows of a settled design point change in any  *)
(* later step or launch (run_exploration.py:173-174).                       *)
THEOREM SweepSettledStays == Spec => SettledStays
<1>1. ASSUME Inv, [Next]_vars
      PROVE  \A j \in Jobs : Verdict[j] # "none" =>
               final'[j] = final[j] /\ Rows(j)' = Rows(j)
  <2>1. CASE \E w \in Workers : Worker(w)
    BY <1>1, <2>1, WorkerLeavesSettled
  <2>2. CASE Others
    <3>1. UNCHANGED <<final, lines>>
      BY <2>2 DEF Others, Main, Collect, Finish, Raise, Crash, Launch, vars, files
    <3> QED
      BY <3>1 DEF Rows
  <2> QED
    BY <1>1, <2>1, <2>2 DEF Next, Others, Stopped
<1> QED
  BY <1>1, SweepInvariance, PTL DEF Spec, SettledStays

-----------------------------------------------------------------------------
(* The totals of a sweep.                                                   *)

Working(j) == \E w \in Workers : Active(w) /\ job[w] = j
Settled(j) == outcome[j] = "unreadable" \/ final[j] = "complete" \/ j \in marked

(* What holds of a design point as long as nothing was killed: who writes   *)
(* its result, who settles it, who removes its files, what its future says. *)
JobOK(j) ==
  /\ final[j] = "partial" => \E w \in Workers : pc[w] = "write" /\ job[w] = j
  /\ j < nextJob \/ Ended => Working(j) \/ Settled(j)
  /\ j \in cfgs => Working(j)
  /\ temp[j] = "written" /\ outcome[j] \in {"good", "useless"} =>
       \E w \in Workers : pc[w] \in {"check", "save", "write", "discard"} /\ job[w] = j
  /\ result[j] = "true" => final[j] = "complete"
  /\ result[j] \in {"false", "raised"} => final[j] # "complete"

LastSteps(w) ==
  /\ pc[w] = "discard" => final[job[w]] = "complete"
  /\ pc[w] = "cleanup" => Settled(job[w])

(* The results the main process has counted.                                *)
Counted == {j \in Jobs : result[j] = "taken" /\ final[j] = "complete"}

ParentOK ==
  /\ success = Cardinality(Counted)
  /\ parent = "done" => \A j \in Jobs : result[j] = "taken"

Steady == (\A j \in Jobs : JobOK(j)) /\ (\A w \in Workers : LastSteps(w)) /\ ParentOK

Uninterrupted == crashes = 0 => Steady

-----------------------------------------------------------------------------
LEMMA InitUninterrupted == Init => Uninterrupted
<1> SUFFICES ASSUME Init PROVE Steady
  BY DEF Uninterrupted
<1>1. \A j \in Jobs : JobOK(j)
  BY DEF Init, JobOK, Ended, Jobs
<1>2. \A w \in Workers : LastSteps(w)
  BY DEF Init, LastSteps
<1>3. Counted = {} /\ success = 0 /\ parent = "running"
  BY DEF Init, Counted
<1> QED
  BY <1>1, <1>2, <1>3, FS_EmptySet DEF Steady, ParentOK

(* No worker changes what the main process has counted.                     *)
LEMMA WorkerCounts ==
  ASSUME Inv, Steady, NEW w \in Workers, Worker(w)
  PROVE  ParentOK'
<1> USE DEF files, Pool
<1>1. /\ TypeOK /\ PoolOK /\ UNCHANGED <<parent, success>>
      /\ parent \in {"running", "raising"}
  BY DEF Inv, Worker, Start, Destiny, Check, TestExists, Open, Lock, Unlock, Flush,
     Mark, Save, Write, Discard, Cleanup, At
<1>2. ASSUME NEW j \in Jobs
      PROVE  /\ result'[j] = "taken" <=> result[j] = "taken"
             /\ result[j] = "taken" => final'[j] = final[j]
  <2>1. /\ final \in [Jobs -> {"absent", "partial", "complete"}]
        /\ result \in [Jobs -> {"none", "true", "false", "raised", "taken"}]
    BY <1>1 DEF TypeOK
  <2>2. CASE Start(w)
    <3>1. nextJob \in Jobs /\ result[nextJob] = "none" /\ final' = final
      BY <1>1, <2>2 DEF Start, At, PoolOK, TypeOK, Jobs
    <3>2. Skipped(nextJob) # "taken"
      BY DEF Skipped
    <3> QED
      BY <2>1, <2>2, <3>1, <3>2 DEF Start
  <2>3. CASE Cleanup(w)
    <3>1. job[w] \in Jobs /\ result[job[w]] = "none" /\ final' = final
      BY <1>1, <2>3 DEF Cleanup, At, PoolOK, Active
    <3> QED
      BY <2>1, <2>3, <3>1 DEF Cleanup
  <2>4. CASE Save(w) \/ Write(w)
    <3>1. job[w] \in Jobs /\ result[job[w]] = "none" /\ result' = result
      BY <1>1, <2>4 DEF Save, Write, At, PoolOK, Active
    <3> QED
      BY <2>1, <2>4, <3>1 DEF Save, Write
  <2>5. CASE UNCHANGED <<final, result>>
    BY <2>5
  <2> QED
    BY <2>2, <2>3, <2>4, <2>5 DEF Worker, Destiny, Check, TestExists, Open, Lock,
       Unlock, Flush, Mark, Discard
<1>3. Counted' = Counted
  BY <1>2 DEF Counted
<1> QED
  BY <1>1, <1>3 DEF Steady, ParentOK

(* A worker starts a job, or skips one whose verdict is on disk; a result   *)
(* file that exists is complete.                                            *)
LEMMA StartSteady ==
  ASSUME Inv, Steady, NEW w \in Workers, Start(w)
  PROVE  Steady'
<1> DEFINE k == nextJob
<1> USE DEF files, Pool
<1>1. TypeOK /\ PoolOK /\ FilesOK /\ ParentOK'
  BY WorkerCounts DEF Inv, Worker
<1>2. /\ k \in Jobs /\ nextJob' = k + 1 /\ pc[w] = "idle" /\ ~Ended /\ ~Ended'
      /\ UNCHANGED <<final, temp, marked, outcome, parent>>
      /\ pc \in [Workers -> Steps] /\ job \in [Workers -> Jobs \union {0}]
      /\ result \in [Jobs -> {"none", "true", "false", "raised", "taken"}]
      /\ final \in [Jobs -> {"absent", "partial", "complete"}]
  BY <1>1 DEF Start, TakeNext, At, TypeOK, Jobs, Ended
<1>3. \A v \in Workers : v # w => pc'[v] = pc[v] /\ job'[v] = job[v]
  BY <1>2 DEF Start, Goto
<1>4. \A j \in Jobs : Working(j) => Working(j)'
  BY <1>2, <1>3 DEF Working, Active
<1>5. \A j \in Jobs : Settled(j)' <=> Settled(j)
  BY <1>2 DEF Settled
<1>6. \A j \in Jobs : j < nextJob' => j < k \/ j = k
  BY <1>2 DEF Jobs
<1>7. ~Working(k) /\ final[k] # "partial"
  <2>1. ~Working(k)
    BY <1>1, <1>2 DEF Working, PoolOK, Jobs
  <2> QED
    BY <1>2, <2>1 DEF Steady, JobOK, Working, Active
<1>8. \A v \in Workers : LastSteps(v)'
  <2>1. pc'[w] \in {"idle", "run"}
    BY <1>2 DEF Start, Goto
  <2> QED
    BY <1>2, <1>3, <2>1 DEF Steady, LastSteps, Settled
<1>9. ASSUME NEW j \in Jobs PROVE JobOK(j)'
  <2>1. JobOK(j)
    BY DEF Steady
  <2>2. final'[j] = "partial" => \E v \in Workers : pc'[v] = "write" /\ job'[v] = j
    BY <1>2, <1>3, <2>1 DEF JobOK
  <2>3. temp'[j] = "written" /\ outcome'[j] \in {"good", "useless"} =>
          \E v \in Workers : pc'[v] \in {"check", "save", "write", "discard"} /\ job'[v] = j
    BY <1>2, <1>3, <2>1 DEF JobOK
  <2>4. CASE AlreadySaved(k) \/ AlreadyMarked(k)
    <3>1. cfgs' = cfgs /\ result' = [result EXCEPT ![k] = Skipped(k)] /\ Settled(k)
      BY <1>2, <1>7, <2>4 DEF Start, AlreadySaved, AlreadyMarked, Settled
    <3>2. /\ Skipped(k) = "true" => final[k] = "complete"
          /\ Skipped(k) = "false" => final[k] # "complete"
          /\ Skipped(k) \in {"true", "false"}
      BY <1>2, <1>7 DEF Skipped, AlreadySaved
    <3>3. /\ result'[j] = "true" => final'[j] = "complete"
          /\ result'[j] \in {"false", "raised"} => final'[j] # "complete"
      BY <1>2, <2>1, <3>1, <3>2 DEF JobOK
    <3>4. j < nextJob' \/ Ended' => Working(j)' \/ Settled(j)'
      BY <1>2, <1>4, <1>5, <1>6, <2>1, <3>1 DEF JobOK
    <3>5. j \in cfgs' => Working(j)'
      BY <1>4, <2>1, <3>1 DEF JobOK
    <3> QED
      BY <2>2, <2>3, <3>3, <3>4, <3>5 DEF JobOK
  <2>5. CASE ~(AlreadySaved(k) \/ AlreadyMarked(k))
    <3>1. /\ cfgs' = cfgs \union {k} /\ result' = result
          /\ pc' = [pc EXCEPT ![w] = "run"] /\ job' = [job EXCEPT ![w] = k]
      BY <2>5 DEF Start, Goto
    <3>2. j = k => Working(j)'
      <4>1. pc'[w] # "idle" /\ job'[w] = k
        BY <1>2, <3>1
      <4> QED
        BY <4>1 DEF Working, Active
    <3>3. j < nextJob' \/ Ended' => Working(j)' \/ Settled(j)'
      BY <1>2, <1>4, <1>5, <1>6, <2>1, <3>2 DEF JobOK
    <3>4. j \in cfgs' => Working(j)'
      BY <1>4, <2>1, <3>1, <3>2 DEF JobOK
    <3> QED
      BY <1>2, <2>1, <2>2, <2>3, <3>1, <3>3, <3>4 DEF JobOK
  <2> QED
    BY <2>4, <2>5
<1> QED
  BY <1>1, <1>8, <1>9 DEF Steady

(* The steps between: a worker keeps its job, and changes only its files.   *)
LEMMA MiddleSteady ==
  ASSUME Inv, Steady, NEW w \in Workers, Middle(w)
  PROVE  Steady'
<1> DEFINE k == job[w]
<1> USE DEF files, Pool
<1>1. TypeOK /\ PoolOK /\ FilesOK /\ StepOK(w) /\ ParentOK'
  BY WorkerCounts DEF Inv, Worker, Middle
<1>2. /\ pc \in [Workers -> Steps]
      /\ final \in [Jobs -> {"absent", "partial", "complete"}]
      /\ temp \in [Jobs -> {"absent", "written"}]
      /\ outcome \in [Jobs -> Outcomes]
  BY <1>1 DEF TypeOK
<1>3. /\ pc[w] # "idle" /\ ~Ended /\ ~Ended' /\ job' = job /\ cfgs' = cfgs
      /\ UNCHANGED <<outcome, nextJob, result, parent>>
  BY DEF Middle, Destiny, Check, TestExists, Open, Lock, Unlock, Flush, Mark,
     Save, Write, Discard, At, Ended
<1>4. k \in Jobs /\ result[k] = "none"
  BY <1>1, <1>3 DEF PoolOK, Active
<1>5. /\ pc'[w] # "idle"
      /\ \A v \in Workers : v # w => pc'[v] = pc[v]
  BY <1>2 DEF Middle, Destiny, Check, TestExists, Open, Lock, Unlock, Flush, Mark,
     Save, Write, Discard, Goto, Judge
<1>6. \A j \in Jobs : Working(j)' <=> Working(j)
  BY <1>3, <1>5 DEF Working, Active
<1>7. \A j \in Jobs : j # k =>
        final'[j] = final[j] /\ temp'[j] = temp[j] /\ (j \in marked' <=> j \in marked)
  BY <1>2 DEF Middle, Destiny, Check, TestExists, Open, Lock, Unlock, Flush, Mark,
     Save, Write, Discard
<1>8. \A v \in Workers : v # w /\ pc[v] # "idle" => job[v] \in Jobs /\ job[v] # k
  BY <1>1, <1>3 DEF PoolOK, Active
<1>9. ASSUME NEW j \in Jobs, j # k PROVE JobOK(j)'
  <2>1. JobOK(j) /\ (Settled(j)' <=> Settled(j))
    BY <1>3, <1>7, <1>9 DEF Steady, Settled
  <2>2. \A v \in Workers : job[v] = j => pc'[v] = pc[v]
    BY <1>5, <1>9
  <2>3. final'[j] = "partial" => \E v \in Workers : pc'[v] = "write" /\ job'[v] = j
    BY <1>3, <1>7, <1>9, <2>1, <2>2 DEF JobOK
  <2>4. temp'[j] = "written" /\ outcome'[j] \in {"good", "useless"} =>
          \E v \in Workers : pc'[v] \in {"check", "save", "write", "discard"} /\ job'[v] = j
    BY <1>3, <1>7, <1>9, <2>1, <2>2 DEF JobOK
  <2> QED
    BY <1>3, <1>6, <1>7, <1>9, <2>1, <2>3, <2>4 DEF JobOK
<1>10. /\ final'[k] = "partial" => pc'[w] = "write"
       /\ temp'[k] = "written" /\ outcome[k] \in {"good", "useless"} =>
            pc'[w] \in {"check", "save", "write", "discard"}
       /\ LastSteps(w)'
  <2>1. /\ final[k] = "partial" => pc[w] = "write"
        /\ temp[k] = "written" /\ outcome[k] \in {"good", "useless"} =>
             pc[w] \in {"check", "save", "write", "discard"}
        /\ LastSteps(w)
    BY <1>4, <1>8 DEF Steady, JobOK
  <2>2. CASE Destiny(w)
    BY <1>2, <1>4, <2>1, <2>2 DEF Destiny, At, Goto, LastSteps
  <2>3. CASE Check(w)
    <3>1. /\ pc[w] = "check" /\ pc'[w] = Judge(outcome[k]) /\ final' = final
          /\ outcome[k] = "useless" => temp'[k] = "absent"
      BY <1>2, <1>4, <2>3 DEF Check, At, Goto, Judge, Steps
    <3> QED
      BY <1>3, <2>1, <3>1 DEF Judge, LastSteps, Settled
  <2>4. CASE TestExists(w) \/ Open(w) \/ Lock(w) \/ Unlock(w) \/ Flush(w)
    BY <1>2, <2>1, <2>4 DEF TestExists, Open, Lock, Unlock, Flush, At, Goto, LastSteps
  <2>5. CASE Mark(w)
    BY <1>2, <1>3, <2>1, <2>5 DEF Mark, At, Goto, LastSteps, Settled
  <2>6. CASE Save(w)
    BY <1>2, <1>4, <2>1, <2>6 DEF Save, At, Goto, LastSteps
  <2>7. CASE Write(w)
    BY <1>2, <1>3, <1>4, <2>1, <2>7 DEF Write, At, Goto, LastSteps
  <2>8. CASE Discard(w)
    BY <1>2, <1>3, <1>4, <2>1, <2>8 DEF Discard, At, Goto, LastSteps, Settled
  <2> QED
    BY <2>2, <2>3, <2>4, <2>5, <2>6, <2>7, <2>8 DEF Middle
<1>11. ASSUME NEW j \in Jobs, j = k PROVE JobOK(j)'
  <2>1. Working(j)'
    BY <1>3, <1>5, <1>11 DEF Working, Active
  <2> QED
    BY <1>3, <1>4, <1>10, <1>11, <2>1 DEF JobOK
<1>12. ASSUME NEW v \in Workers, v # w PROVE LastSteps(v)'
  BY <1>3, <1>5, <1>7, <1>8, <1>12 DEF Steady, LastSteps, Settled
<1> QED
  BY <1>1, <1>9, <1>10, <1>11, <1>12 DEF Steady

(* A worker is done: its job is settled, and its future says which way.     *)
LEMMA CleanupSteady ==
  ASSUME Inv, Steady, NEW w \in Workers, Cleanup(w)
  PROVE  Steady'
<1> DEFINE k == job[w]
<1> USE DEF files, Pool
<1>1. TypeOK /\ PoolOK /\ FilesOK /\ ParentOK'
  BY WorkerCounts DEF Inv, Worker
<1>2. /\ pc \in [Workers -> Steps] /\ job \in [Workers -> Jobs \union {0}]
      /\ outcome \in [Jobs -> Outcomes]
      /\ result \in [Jobs -> {"none", "true", "false", "raised", "taken"}]
  BY <1>1 DEF TypeOK
<1>3. /\ pc[w] = "cleanup" /\ ~Ended /\ ~Ended' /\ cfgs' = cfgs \ {k}
      /\ UNCHANGED <<final, temp, marked, outcome, nextJob, parent>>
  BY DEF Cleanup, At, Ended, RemoveCfg
<1>4. k \in Jobs /\ Settled(k)
  BY <1>1, <1>3 DEF PoolOK, Active, Steady, LastSteps
<1>5. \A v \in Workers : v # w => pc'[v] = pc[v] /\ job'[v] = job[v]
  BY <1>2 DEF Cleanup, Goto
<1>6. pc'[w] = "idle"
  BY <1>2 DEF Cleanup, Goto
<1>7. \A v \in Workers : LastSteps(v)'
  BY <1>3, <1>5, <1>6 DEF Steady, LastSteps, Settled
<1>8. ASSUME NEW j \in Jobs PROVE JobOK(j)'
  <2>1. JobOK(j) /\ (Settled(j)' <=> Settled(j))
    BY <1>3 DEF Steady, Settled
  <2>2. j # k => (Working(j) => Working(j)')
    BY <1>5 DEF Working, Active
  <2>3. j < nextJob' \/ Ended' => Working(j)' \/ Settled(j)'
    BY <1>3, <1>4, <2>1, <2>2 DEF JobOK
  <2>4. j \in cfgs' => Working(j)'
    BY <1>3, <2>1, <2>2 DEF JobOK
  <2>5. final'[j] = "partial" => \E v \in Workers : pc'[v] = "write" /\ job'[v] = j
    BY <1>3, <1>5, <2>1 DEF JobOK
  <2>6. temp'[j] = "written" /\ outcome'[j] \in {"good", "useless"} =>
          \E v \in Workers : pc'[v] \in {"check", "save", "write", "discard"} /\ job'[v] = j
    BY <1>3, <1>5, <2>1 DEF JobOK
  <2>7. /\ result'[j] = "true" => final'[j] = "complete"
        /\ result'[j] \in {"false", "raised"} => final'[j] # "complete"
    <3>1. CASE j = k
      <4>1. /\ outcome[k] = "good" => result'[k] = "true" /\ final[k] = "complete"
            /\ outcome[k] # "good" => result'[k] # "true" /\ final[k] = "absent"
        <5>1. outcome[k] = "good" => final[k] = "complete"
          BY <1>1, <1>4 DEF Settled, FilesOK, Failing
        <5>2. outcome[k] # "good" => final[k] = "absent"
          BY <1>1, <1>4 DEF FilesOK
        <5>3. /\ outcome[k] = "good" => result'[k] = "true"
              /\ outcome[k] # "good" => result'[k] # "true"
          BY <1>2, <1>4 DEF Cleanup
        <5> QED
          BY <5>1, <5>2, <5>3
      <4> QED
        BY <1>3, <3>1, <4>1
    <3>2. CASE j # k
      BY <1>2, <1>3, <2>1, <3>2 DEF Cleanup, JobOK
    <3> QED
      BY <3>1, <3>2
  <2> QED
    BY <2>3, <2>4, <2>5, <2>6, <2>7 DEF JobOK
<1> QED
  BY <1>1, <1>7, <1>8 DEF Steady

(* The main process counts a future that says "true", of a complete result, *)
(* and has counted all of them when it is done.                             *)
LEMMA CollectCounts ==
  ASSUME Inv, Steady, NEW k \in Jobs, Collect(k)
  PROVE  ParentOK'
<1>1. /\ result \in [Jobs -> {"none", "true", "false", "raised", "taken"}]
      /\ success \in Nat /\ success = Cardinality(Counted)
  BY DEF Inv, TypeOK, Steady, ParentOK
<1>2. /\ final' = final /\ result[k] \in {"true", "false", "raised"}
      /\ result' = [result EXCEPT ![k] = "taken"] /\ parent' # "done"
      /\ success' = IF result[k] = "true" THEN success + 1 ELSE success
  BY DEF Collect, files
<1>3. (result[k] = "true") <=> (final[k] = "complete")
  BY <1>2 DEF Steady, JobOK
<1>4. k \notin Counted
  BY <1>2 DEF Counted
<1>5. CASE result[k] = "true"
  <2>1. Counted' = Counted \union {k}
    BY <1>1, <1>2, <1>3, <1>5 DEF Counted
  <2>2. IsFiniteSet(Counted)
    <3>1. IsFiniteSet(Jobs)
      <4>1. 1 \in Int /\ NumJobs \in Int
        BY SweepAssumption
      <4> QED
        BY <4>1, FS_Interval DEF Jobs
    <3> QED
      BY <3>1, FS_Subset DEF Counted
  <2> QED
    BY <1>1, <1>2, <1>4, <1>5, <2>1, <2>2, FS_AddElement DEF ParentOK
<1>6. CASE result[k] # "true"
  <2>1. Counted' = Counted
    BY <1>1, <1>2, <1>3, <1>6 DEF Counted
  <2> QED
    BY <1>1, <1>2, <1>6, <2>1 DEF ParentOK
<1> QED
  BY <1>5, <1>6

LEMMA MainSteady ==
  ASSUME Inv, Steady, Main
  PROVE  Steady'
<1> USE DEF files
<1>1. /\ PoolOK /\ UNCHANGED <<outcome, final, temp, marked, cfgs, nextJob, pc, job>>
      /\ result \in [Jobs -> {"none", "true", "false", "raised", "taken"}]
      /\ nextJob \in 1..NumJobs + 1
  BY DEF Inv, TypeOK, Main, Collect, Finish, Raise
<1>2. ParentOK'
  <2>1. CASE Finish \/ Raise
    BY <2>1 DEF Finish, Raise, Steady, ParentOK, Counted
  <2> QED
    BY <2>1, CollectCounts DEF Main
<1>3. \A w \in Workers : LastSteps(w)'
  BY <1>1 DEF Steady, LastSteps, Settled
<1>4. ASSUME NEW j \in Jobs PROVE JobOK(j)'
  <2>1. JobOK(j) /\ (Settled(j)' <=> Settled(j)) /\ (Working(j)' <=> Working(j))
    BY <1>1 DEF Steady, Settled, Working, Active
  <2>2. result'[j] \in {result[j], "taken"}
    BY <1>1 DEF Main, Collect, Finish, Raise
  <2>3. Ended' => Working(j) \/ Settled(j)
    <3>1. CASE Finish
      <4>1. result[j] # "none" /\ parent = "running"
        BY <3>1 DEF Finish
      <4>2. j < nextJob
        BY <1>1, <4>1 DEF PoolOK, Jobs
      <4> QED
        BY <2>1, <4>2 DEF JobOK
    <3>2. CASE Raise
      <4>1. nextJob > NumJobs
        BY <3>2 DEF Raise, Drained
      <4>2. NumJobs \in Int
        BY SweepAssumption
      <4>3. nextJob \in 1..NumJobs + 1
        BY <1>1
      <4>4. j \in Int /\ j <= NumJobs
        BY DEF Jobs
      <4>5. j < nextJob
        BY <4>1, <4>2, <4>3, <4>4
      <4> QED
        BY <2>1, <4>5 DEF JobOK
    <3>3. CASE \E k \in Jobs : Collect(k)
      BY <3>3 DEF Collect, Ended
    <3> QED
      BY <3>1, <3>2, <3>3 DEF Main
  <2>4. /\ result'[j] = "true" => final'[j] = "complete"
        /\ result'[j] \in {"false", "raised"} => final'[j] # "complete"
    BY <1>1, <2>1, <2>2 DEF JobOK
  <2> QED
    BY <1>1, <2>1, <2>3, <2>4 DEF JobOK
<1> QED
  BY <1>2, <1>3, <1>4 DEF Steady

(* A new launch starts from what the last one left: nothing is being worked *)
(* on, and nothing has been counted.                                        *)
LEMMA LaunchSteady ==
  ASSUME Inv, Steady, Launch
  PROVE  Steady'
<1> USE DEF files
<1>1. /\ UNCHANGED <<outcome, final, temp, marked, cfgs, pc, job>>
      /\ nextJob' = 1 /\ success' = 0 /\ parent' = "running"
      /\ result' = [j \in Jobs |-> "none"]
  BY DEF Launch
<1>2. ParentOK'
  <2>1. Counted' = {}
    BY <1>1 DEF Counted
  <2> QED
    BY <1>1, <2>1, FS_EmptySet DEF ParentOK
<1>3. \A w \in Workers : LastSteps(w)'
  BY <1>1 DEF Steady, LastSteps, Settled
<1>4. ASSUME NEW j \in Jobs PROVE JobOK(j)'
  <2>1. JobOK(j) /\ (Working(j)' <=> Working(j)) /\ ~(j < nextJob') /\ ~Ended'
    BY <1>1 DEF Steady, Working, Active, Ended, Jobs
  <2> QED
    BY <1>1, <2>1 DEF JobOK
<1> QED
  BY <1>2, <1>3, <1>4 DEF Steady

LEMMA NextUninterrupted == Inv /\ Uninterrupted /\ [Next]_vars => Uninterrupted'
<1> SUFFICES ASSUME Inv, Uninterrupted, [Next]_vars, crashes' = 0 PROVE Steady'
  BY DEF Uninterrupted
<1>1. CASE \E w \in Workers : Worker(w)
  <2>1. PICK w \in Workers : Worker(w)
    BY <1>1
  <2>2. crashes' = crashes
    BY <2>1 DEF Worker, Start, Destiny, Check, TestExists, Open, Lock, Unlock,
       Flush, Mark, Save, Write, Discard, Cleanup, Pool
  <2> QED
    BY <2>1, <2>2, StartSteady, MiddleSteady, CleanupSteady
       DEF Uninterrupted, Worker, Middle
<1>2. CASE Main
  <2>1. crashes' = crashes
    BY <1>2 DEF Main, Collect, Finish, Raise
  <2> QED
    BY <1>2, <2>1, MainSteady DEF Uninterrupted
<1>3. CASE Launch
  <2>1. crashes' = crashes
    BY <1>3 DEF Launch
  <2> QED
    BY <1>3, <2>1, LaunchSteady DEF Uninterrupted
<1>4. CASE Crash
  BY <1>4 DEF Crash, Inv, TypeOK
<1>5. CASE UNCHANGED vars
  <2>1. crashes' = crashes /\ (Steady' <=> Steady)
    BY <1>5 DEF vars, files, Steady, JobOK, LastSteps, ParentOK, Counted, Working,
       Settled, Active, Ended
  <2> QED
    BY <2>1 DEF Uninterrupted
<1> QED
  BY <1>1, <1>2, <1>3, <1>4, <1>5 DEF Next, Stopped

-----------------------------------------------------------------------------
(* As long as nothing was killed, every step keeps the books.               *)
THEOREM SweepUninterrupted == Spec => []Uninterrupted
BY InitUninterrupted, NextUninterrupted, SweepInvariance, PTL DEF Spec

(* A launch that ends without a crash has settled every design point whose  *)
(* CSV file can be parsed (run_exploration.py:351-358).                     *)
THEOREM SweepAllSettled == Spec => []AllSettled
<1>1. Inv /\ Uninterrupted => AllSettled
  <2> SUFFICES ASSUME Inv, Uninterrupted, Ended, crashes = 0,
                      NEW j \in Jobs, outcome[j] # "unreadable"
               PROVE  Verdict[j] # "none"
    BY DEF AllSettled
  <2>1. ~Working(j)
    BY DEF Inv, PoolOK, Ended, Working
  <2> QED
    BY <2>1 DEF Uninterrupted, Steady, JobOK, Settled, Verdict
<1> QED
  BY <1>1, SweepInvariance, SweepUninterrupted, PTL

(* Without a crash, "simulations saved" counts the complete result files    *)
(* (run_exploration.py:360).                                                *)
THEOREM SweepSavedCount == Spec => []SavedCount
<1>1. Uninterrupted => SavedCount
  <2> SUFFICES ASSUME Uninterrupted, parent = "done", crashes = 0
               PROVE  success = Cardinality(Saved)
    BY DEF SavedCount
  <2>1. Counted = Saved
    BY DEF Uninterrupted, Steady, ParentOK, Counted, Saved
  <2> QED
    BY <2>1 DEF Uninterrupted, Steady, ParentOK
<1> QED
  BY <1>1, SweepUninterrupted, PTL

(* Without a crash no configuration file is left behind, nor the CSV file   *)
(* of a design point that was saved or had no usable rows                   *)
(* (run_exploration.py:231, 238, 255, 258).                                 *)
THEOREM SweepNoLitter == Spec => []NoLitter
<1>1. Inv /\ Uninterrupted => NoLitter
  <2> SUFFICES ASSUME Inv, Uninterrupted, Ended, crashes = 0
               PROVE  /\ cfgs = {}
                      /\ \A j \in Jobs : outcome[j] \in {"good", "useless"} =>
                           temp[j] = "absent"
    BY DEF NoLitter
  <2>1. /\ \A w \in Workers : pc[w] = "idle"
        /\ cfgs \subseteq Jobs /\ temp \in [Jobs -> {"absent", "written"}]
    BY DEF Inv, TypeOK, PoolOK, Active, Ended
  <2>2. \A j \in Jobs : JobOK(j) /\ ~Working(j)
    BY <2>1 DEF Uninterrupted, Steady, Working, Active
  <2> QED
    BY <2>1, <2>2 DEF JobOK
<1> QED
  BY <1>1, SweepInvariance, SweepUninterrupted, PTL
-----------------------------------------------------------------------------
(* Rows and markers.  A design point whose failure has no marker, and no    *)
(* worker about to leave one, owes each of its rows to a crash.             *)
Recorded(j) == j \in marked \/ \E w \in Workers : pc[w] = "mark" /\ job[w] = j

Owed ==
  \A j \in Jobs :
    Rows(j) \in Nat /\ Rows(j) <= 1 + crashes /\ (~Recorded(j) => Rows(j) <= crashes)

LEMMA InitOwed == Init => Owed
<1> SUFFICES ASSUME Init, NEW j \in Jobs
             PROVE  Rows(j) = 0 /\ crashes = 0
  BY DEF Owed
<1>1. crashes = 0 /\ {i \in DOMAIN lines : lines[i] = j} = {}
  BY DEF Init
<1> QED
  BY <1>1, FS_EmptySet DEF Rows

(* A line x at the end is one more line x.                                  *)
LEMMA OneMorePosition ==
  ASSUME NEW S, NEW s \in Seq(S), NEW x \in S
  PROVE  /\ Cardinality(Positions(s, x)) \in Nat
         /\ Cardinality(Positions(s \o <<x>>, x)) = Cardinality(Positions(s, x)) + 1
<1> DEFINE n == Len(s)
           t == s \o <<x>>
<1>1. n \in Nat /\ DOMAIN s = 1..n
  OBVIOUS
<1>2. /\ DOMAIN t = 1..n + 1 /\ t[n + 1] = x
      /\ \A i \in 1..n : t[i] = s[i]
  OBVIOUS
<1> HIDE DEF n, t
<1>3. Positions(t, x) = Positions(s, x) \union {n + 1} /\ n + 1 \notin Positions(s, x)
  BY <1>1, <1>2 DEF Positions
<1>4. IsFiniteSet(Positions(s, x))
  <2>1. IsFiniteSet(1..n)
    BY <1>1, FS_Interval
  <2> QED
    BY <1>1, <2>1, FS_Subset DEF Positions
<1> QED
  BY <1>3, <1>4, FS_AddElement, FS_CardinalityType DEF t

(* A failure is recorded: one row more, for a design point without marker.  *)
LEMMA FlushOwes ==
  ASSUME Inv, Owed, NEW w \in Workers, Flush(w)
  PROVE  Owed'
<1> DEFINE k    == job[w]
           S    == Jobs \union {Header}
           head == IF header[w] THEN <<Header>> ELSE <<>>
<1> USE DEF files, Pool
<1>1. /\ TypeOK /\ PoolOK /\ StepOK(w) /\ pc[w] = "flush" /\ k \in Jobs
      /\ lines \in Seq(S) /\ pc \in [Workers -> Steps] /\ crashes \in Nat
  BY ActiveJob DEF Inv, TypeOK, Flush, At
<1>2. /\ pc' = [pc EXCEPT ![w] = "mark"] /\ lines' = lines \o head \o <<k>>
      /\ UNCHANGED <<marked, job, crashes>>
  BY DEF Flush, WriteRow, Goto
<1>3. Header # k /\ Header \in S /\ k \in S
  BY <1>1 DEF Header, Jobs
<1>4. head \in Seq(S) /\ \A i \in DOMAIN head : head[i] = Header
  <2> HIDE DEF S, Header, k
  <2>1. <<Header>> \in Seq(S) /\ <<>> \in Seq(S)
    BY <1>3
  <2>2. CASE header[w]
    <3>1. head = <<Header>>
      BY <2>2
    <3> HIDE DEF head
    <3> QED
      BY <2>1, <3>1
  <2>3. CASE ~header[w]
    <3>1. head = <<>>
      BY <2>3
    <3> HIDE DEF head
    <3> QED
      BY <2>1, <3>1
  <2> QED
    BY <2>2, <2>3
<1>5. ~Recorded(k)
  <2>1. k \notin marked
    BY <1>1 DEF StepOK, Undecided
  <2>2. ASSUME NEW v \in Workers, pc[v] = "mark", job[v] = k PROVE FALSE
    BY <1>1, <2>2 DEF PoolOK, Active
  <2> QED
    BY <2>1, <2>2 DEF Recorded
<1>6. Rows(k)' = Rows(k) + 1
  <2> HIDE DEF S, Header, k, head
  <2>1. Positions(lines \o head, k) = Positions(lines, k)
    BY <1>1, <1>3, <1>4, SamePositions
  <2>2. lines \o head \in Seq(S)
    BY <1>1, <1>4
  <2>3. Cardinality(Positions((lines \o head) \o <<k>>, k))
          = Cardinality(Positions(lines, k)) + 1
    BY <1>3, <2>1, <2>2, OneMorePosition
  <2>4. k' = k
    BY <1>2 DEF k
  <2> QED
    BY <1>2, <2>3, <2>4 DEF Rows, Positions
<1>7. Recorded(k)'
  BY <1>1, <1>2 DEF Recorded
<1>8. ASSUME NEW j \in Jobs, j # k
      PROVE  Rows(j)' = Rows(j) /\ (Recorded(j)' <=> Recorded(j))
  <2>1. Recorded(j)' <=> Recorded(j)
    BY <1>1, <1>2, <1>8 DEF Recorded
  <2>2. <<k>> \in Seq(S) /\ \A i \in DOMAIN <<k>> : <<k>>[i] # j
    <3> HIDE DEF k, S
    <3> QED
      BY <1>3, <1>8
  <2>3. Header # j
    BY DEF Header, Jobs
  <2> HIDE DEF S, Header, k, head
  <2>4. Positions(lines \o head, j) = Positions(lines, j)
    BY <1>1, <1>4, <2>3, SamePositions
  <2>5. lines \o head \in Seq(S)
    BY <1>1, <1>4
  <2>6. Positions((lines \o head) \o <<k>>, j) = Positions(lines, j)
    BY <2>2, <2>4, <2>5, SamePositions
  <2> QED
    BY <1>2, <2>1, <2>6 DEF Rows, Positions
<1>9. ASSUME NEW j \in Jobs
      PROVE  Rows(j)' \in Nat /\ Rows(j)' <= 1 + crashes' /\ (~Recorded(j)' => Rows(j)' <= crashes')
  <2>1. Rows(j) \in Nat /\ Rows(j) <= 1 + crashes /\ (~Recorded(j) => Rows(j) <= crashes)
    BY DEF Owed
  <2>2. CASE j = k
    <3>1. Rows(j)' = Rows(j) + 1 /\ Recorded(j)' /\ ~Recorded(j)
      <4>1. j' = j /\ k' = k
        BY <1>2
      <4> QED
        BY <1>5, <1>6, <1>7, <2>2, <4>1 DEF Rows, Recorded
    <3> QED
      BY <1>1, <1>2, <2>1, <3>1
  <2>3. CASE j # k
    BY <1>2, <1>8, <2>1, <2>3
  <2> QED
    BY <2>2, <2>3
<1> QED
  BY <1>9 DEF Owed

(* Every other step of a worker leaves the rows alone; only Mark changes    *)
(* what is recorded, from a marker due to a marker left.                    *)
LEMMA WorkerOwes ==
  ASSUME Inv, Owed, NEW w \in Workers, Worker(w), ~Flush(w)
  PROVE  Owed'
<1> USE DEF files, Pool
<1>1. /\ pc \in [Workers -> Steps] /\ job \in [Workers -> Jobs \union {0}]
      /\ outcome \in [Jobs -> Outcomes]
  BY DEF Inv, TypeOK
<1>2. lines' = lines /\ crashes' = crashes
  BY DEF Worker, Start, Destiny, Check, TestExists, Open, Lock, Unlock, Mark, Save,
     Write, Discard, Cleanup
<1>3. ASSUME NEW j \in Jobs PROVE Recorded(j)' <=> Recorded(j)
  <2>1. CASE Mark(w)
    <3>1. /\ pc[w] = "mark" /\ pc' = [pc EXCEPT ![w] = "cleanup"]
          /\ job' = job /\ marked' = marked \union {job[w]}
      BY <2>1 DEF Mark, At, Goto
    <3> QED
      BY <1>1, <3>1 DEF Recorded
  <2>2. CASE ~Mark(w)
    <3>1. /\ marked' = marked /\ pc[w] # "mark" /\ pc'[w] # "mark"
          /\ \A v \in Workers : v # w => pc'[v] = pc[v] /\ job'[v] = job[v]
      BY <1>1, <2>2 DEF Worker, Start, Destiny, Check, Judge, TestExists, Open, Lock,
         Unlock, Save, Write, Discard, Cleanup, At, Goto
    <3> QED
      BY <3>1 DEF Recorded
  <2> QED
    BY <2>1, <2>2
<1> QED
  BY <1>2, <1>3 DEF Owed, Rows

LEMMA NextOwed == Inv /\ Owed /\ [Next]_vars => Owed'
<1> SUFFICES ASSUME Inv, Owed, [Next]_vars PROVE Owed'
  OBVIOUS
<1>1. CASE \E w \in Workers : Worker(w)
  BY <1>1, FlushOwes, WorkerOwes
<1>2. CASE Main \/ Launch \/ UNCHANGED vars
  <2>1. UNCHANGED <<lines, crashes, marked, pc, job>>
    BY <1>2 DEF Main, Collect, Finish, Raise, Launch, vars, files
  <2> QED
    BY <2>1 DEF Owed, Rows, Recorded
<1>3. CASE Crash
  <2>1. UNCHANGED lines /\ crashes' = crashes + 1 /\ crashes \in Nat
    BY <1>3 DEF Crash, files, Inv, TypeOK
  <2>2. ASSUME NEW j \in Jobs PROVE Rows(j)' = Rows(j)
    BY <2>1 DEF Rows
  <2> QED
    BY <2>1, <2>2 DEF Owed
<1> QED
  BY <1>1, <1>2, <1>3 DEF Next, Stopped

(* A crash between a row and its marker makes the next launch record the    *)
(* failure again: there is one row for each crash, and one (_save_failure,  *)
(* run_exploration.py:157-160).                                             *)
THEOREM SweepRowsBounded == Spec => []RowsBounded
<1>1. Owed => RowsBounded
  BY DEF Owed, RowsBounded
<1> QED
  BY <1>1, InitOwed, NextOwed, SweepInvariance, PTL DEF Spec
=============================================================================
