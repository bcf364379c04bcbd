------------------------------ MODULE GpuFarm ------------------------------
(***************************************************************************)
(* tools/gpu_farm.py: the `serve' loop that runs one job per GPU, clients  *)
(* that `submit' jobs and one that `wait's for all of them, and the job    *)
(* processes.  The directories queue, running and done outlive `serve';    *)
(* its dictionary of running jobs does not.  Jobs run in a session of      *)
(* their own, so they outlive it too: their processes become orphans.      *)
(* Each change of a directory is an action, and a crash of `serve' may     *)
(* separate any two.  A client takes the time stamp of a job before the    *)
(* file of the job appears, and `serve' lists queue/ before it claims from *)
(* it: others act in between.  A job is the number of its time stamp; 0 is *)
(* a filler.                                                               *)
(***************************************************************************)
EXTENDS Integers, SequencesExt, FiniteSetsExt

CONSTANTS NumGpus,
          Priorities,     \* priorities that clients use
          MaxJobs,        \* bound on submissions
          MaxStops,       \* bound on crashes and SIGTERMs of serve
          HasFiller,      \* whether serve was given --filler
          HasWait,        \* whether a client waits for all jobs
          Broken          \* jobs that cannot be started: their directory is gone

ASSUME NumGpusAssumption == NumGpus \in Nat \ {0}
ASSUME PrioritiesAssumption == Priorities \subseteq -99 .. 9999
ASSUME MaxJobsAssumption == MaxJobs \in Nat
ASSUME MaxStopsAssumption == MaxStops \in Nat
ASSUME HasFillerAssumption == HasFiller \in BOOLEAN
ASSUME HasWaitAssumption == HasWait \in BOOLEAN
ASSUME BrokenAssumption == Broken \subseteq 1 .. MaxJobs

VARIABLES
  prio,                        \* prio[j]: priority of the job with stamp j
  writing,                     \* stamped jobs whose file has not appeared yet
  queue, running, done,        \* the jobs with a file in each directory
  up, stopping, stops,         \* serve: alive, asked to stop; times stopped
  pc, scan,                    \* serve: its place, the GPUs left in a loop
  listed,                      \* serve: the names in `_next_job'
  order,                       \* serve: busy GPUs in the order they started
  job, preempted,              \* serve: the job of a GPU, whether stopped
  started,                     \* the jobs this serve has started
  proc,                        \* the process of the job serve started on a GPU
  orphans,                     \* live processes of an earlier serve
  waitPc, waitPending,         \* wait: its place, whether it saw pending jobs
  waitKnown,                   \* wait: the jobs submitted when its poll began
  overtaken                    \* history: the jobs that saw a later one claimed

jobVars == <<prio, writing, overtaken>>
dirVars == <<queue, running, done>>
loopVars == <<pc, scan, listed, order, job, preempted>>
lifeVars == <<up, stopping, stops, started>>
waitVars == <<waitPc, waitPending, waitKnown>>
vars == <<jobVars, dirVars, lifeVars, loopVars, proc, orphans, waitVars>>
-----------------------------------------------------------------------------
Gpus == 0 .. NumGpus - 1
GpuList == [i \in 1 .. NumGpus |-> i - 1]
Filler == 0
NoJob == -1
Returned == 4
Submitted == DOMAIN prio \ writing

\* The order of the file names f"p{priority:03d}-{seq}...": '-' sorts before
\* the digits, a fourth digit shifts the others, and a sign comes first.
Dash == -1
NameKey(j) ==
  LET p == prio[j]
      a == IF p < 0 THEN -p ELSE p
      digits == <<(a \div 100) % 10, (a \div 10) % 10, a % 10>>
  IN (IF p < 0 THEN <<Dash, digits[2], digits[3]>>
      ELSE IF p < 1000 THEN digits ELSE <<a \div 1000>> \o digits) \o <<Dash>>
NameLess(i, j) ==
  LET a == NameKey(i)  b == NameKey(j) IN
  \/ a = b /\ i < j
  \/ \E k \in DOMAIN a \cap DOMAIN b :
       a[k] < b[k] /\ \A l \in 1 .. k - 1 : a[l] = b[l]
First_newest(j, jobs) == \A k \in jobs : k <= j
First(j, jobs) == \A k \in jobs \ {j} : NameLess(j, k)

Busy == ToSet(order)
Live == {"alive", "terminating"}
Terminate(p) == IF p = "alive" THEN "terminating" ELSE p

Init ==
  /\ prio = <<>> /\ writing = {} /\ overtaken = {}
  /\ queue = {} /\ running = {} /\ done = {}
  /\ up = TRUE /\ stopping = FALSE /\ stops = 0 /\ started = {}
  /\ pc = "requeue" /\ scan = <<>> /\ listed = {} /\ order = <<>>
  /\ job = [g \in Gpus |-> NoJob] /\ preempted = {}
  /\ proc = [g \in Gpus |-> "none"] /\ orphans = {}
  /\ waitPc = 1 /\ waitPending = FALSE /\ waitKnown = {}
-----------------------------------------------------------------------------
\* A client takes a time stamp, and later renames the file to its name: several
\* clients may do so in another order, and one that dies never does.
Stamp(p) ==
  /\ Len(prio) < MaxJobs
  /\ prio' = Append(prio, p) /\ writing' = writing \cup {Len(prio) + 1}
  /\ UNCHANGED <<overtaken, dirVars, lifeVars, loopVars, proc, orphans, waitVars>>
Submit ==
  /\ \E j \in writing : writing' = writing \ {j} /\ queue' = queue \cup {j}
  /\ UNCHANGED <<prio, overtaken, running, done>>
  /\ UNCHANGED <<lifeVars, loopVars, proc, orphans, waitVars>>

\* A job's process ends.
Ends(g) ==
  /\ proc[g] \in Live
  /\ proc' = [proc EXCEPT ![g] = "exited"] /\ UNCHANGED orphans
OrphanEnds == orphans # {} /\ \E o \in orphans : orphans' = orphans \ {o}
                /\ UNCHANGED proc
ProcessEnds ==
  /\ OrphanEnds \/ \E g \in Gpus : Ends(g)
  /\ UNCHANGED <<jobVars, dirVars, lifeVars, loopVars, waitVars>>
-----------------------------------------------------------------------------
\* A definition Name_fault is a faulty variant of the definition Name: the
\* checks of a property are tried against such a fault.

\* A new serve first moves the files left in running/ back to queue/.
LeftOver_none == {}
LeftOver == running
Requeue ==
  /\ pc = "requeue"
  /\ \/ \E j \in LeftOver : queue' = queue \cup {j} /\ running' = running \ {j}
                              /\ UNCHANGED pc
     \/ LeftOver = {} /\ pc' = "reap" /\ UNCHANGED <<queue, running>>
  /\ UNCHANGED <<done, up, scan, listed, order, job, preempted, proc, orphans>>

\* Reaping writes the result of an exited job, then removes its file.
WriteResult(j) ==
  done' = (IF j = Filler THEN done ELSE done \cup {j}) /\ UNCHANGED running
RemoveFile(j) == running' = running \ {j} /\ UNCHANGED done
ReapStep_swapped(first, j) == IF first THEN RemoveFile(j) ELSE WriteResult(j)
ReapStep(first, j) == IF first THEN WriteResult(j) ELSE RemoveFile(j)

Poll ==
  LET g == Head(scan) IN
  /\ pc = "reap" /\ scan # <<>>
  /\ IF proc[g] \in Live
     THEN scan' = Tail(scan) /\ UNCHANGED <<pc, running, done>>
     ELSE pc' = "remove" /\ ReapStep(TRUE, job[g]) /\ UNCHANGED scan
  /\ UNCHANGED <<queue, up, listed, order, job, preempted, proc, orphans>>

Forget ==
  LET g == Head(scan) IN
  /\ pc = "remove" /\ pc' = "reap" /\ scan' = Tail(scan)
  /\ ReapStep(FALSE, job[g])
  /\ job' = [job EXCEPT ![g] = NoJob] /\ preempted' = preempted \ {g}
  /\ \E i \in DOMAIN order : order[i] = g /\ order' = RemoveAt(order, i)
  /\ proc' = [proc EXCEPT ![g] = "none"]
  /\ UNCHANGED <<queue, up, listed, orphans>>

\* The processes serve forgets: they live on and nobody waits for them.
Left(gpus, procs) ==
  {[gpu |-> g, job |-> job[g]] : g \in {h \in gpus : procs[h] \in Live}}
Abandon(procs) ==
  /\ up' = FALSE /\ pc' = "requeue" /\ scan' = <<>> /\ listed' = {} /\ order' = <<>>
  /\ job' = [g \in Gpus |-> NoJob] /\ preempted' = {}
  /\ proc' = [g \in Gpus |-> "none"]
  /\ orphans' = orphans \cup Left(Gpus, procs)

\* SIGTERM: the jobs are signalled and left to end, their files in running/.
Quit ==
  /\ pc = "reap" /\ scan = <<>> /\ stopping
  /\ Abandon([g \in Gpus |-> Terminate(proc[g])])
  /\ UNCHANGED dirVars

\* Every GPU is busy and a job is queued: stop the youngest filler.
IsFiller(j) == j = Filler \/ (j \in Submitted /\ prio[j] >= 999)
Fillers == {i \in DOMAIN order : IsFiller(job[order[i]])
                                   /\ order[i] \notin preempted}
MustPreempt_never == FALSE
MustPreempt == Len(order) = NumGpus /\ queue # {} /\ Fillers # {}
Preempt ==
  /\ pc = "reap" /\ scan = <<>> /\ ~stopping
  /\ pc' = "start" /\ scan' = GpuList
  /\ IF MustPreempt
     THEN LET g == order[Max(Fillers)] IN
          /\ preempted' = preempted \cup {g}
          /\ proc' = [proc EXCEPT ![g] = Terminate(@)]
     ELSE UNCHANGED <<preempted, proc>>
  /\ UNCHANGED <<dirVars, up, listed, order, job, orphans>>

Run(g, j) ==
  /\ job' = [job EXCEPT ![g] = j] /\ proc' = [proc EXCEPT ![g] = "alive"]
  /\ order' = Append(order, g) /\ scan' = Tail(scan)
  /\ orphans' = orphans \cup Left({g}, proc)

\* The next idle GPU: list the names in queue/, and claim the first of them, or
\* start a filler, or pass.  Nobody else takes a file from queue/, so the first
\* rename succeeds.
Idle_any(g) == TRUE
Idle(g) == g \notin Busy
List ==
  /\ pc = "start" /\ scan # <<>> /\ Idle(Head(scan))
  /\ pc' = "claim" /\ listed' = queue
  /\ UNCHANGED <<dirVars, up, scan, order, job, preempted, proc, orphans>>
Unclaimed_copied(j) == queue
Unclaimed(j) == queue \ {j}
Claim ==
  /\ pc = "claim" /\ pc' = "launch" /\ listed' = {}
  /\ \E j \in listed :
       /\ First(j, listed)
       /\ queue' = Unclaimed(j) /\ running' = running \cup {j}
       /\ job' = [job EXCEPT ![Head(scan)] = j]
  /\ UNCHANGED <<done, up, scan, order, preempted, proc, orphans>>

\* Popen raises for a broken job, which ends serve.
Launch ==
  LET g == Head(scan) IN
  /\ pc = "launch"
  /\ \/ /\ job[g] \notin Broken /\ pc' = "start" /\ Run(g, job[g])
        /\ UNCHANGED <<up, listed, preempted>>
     \/ job[g] \in Broken /\ Abandon(proc)
  /\ UNCHANGED dirVars
StartFiller ==
  /\ pc = "claim" /\ listed = {} /\ HasFiller
  /\ pc' = "start" /\ Run(Head(scan), Filler)
  /\ UNCHANGED <<dirVars, up, listed, preempted>>
PassGpu ==
  /\ \/ pc = "start" /\ scan # <<>> /\ ~Idle(Head(scan))
     \/ pc = "claim" /\ listed = {} /\ ~HasFiller
  /\ pc' = "start" /\ scan' = Tail(scan)
  /\ UNCHANGED <<dirVars, up, listed, order, job, preempted, proc, orphans>>

\* The end of a turn: write the status, sleep, and poll the jobs again.
Sleep ==
  /\ pc = "start" /\ scan = <<>> /\ pc' = "reap" /\ scan' = order
  /\ UNCHANGED <<dirVars, up, listed, order, job, preempted, proc, orphans>>

\* The jobs a step leaves in queue/ while it takes one that should come later.
Precedes(j, k) == prio[j] < prio[k] \/ (prio[j] = prio[k] /\ j < k)
Overtaken == {k \in queue \cap queue' : \E j \in queue \ queue' : Precedes(k, j)}

Serve ==
  /\ up
  /\ \/ Requeue \/ Poll \/ Forget \/ Quit \/ Preempt \/ List \/ Claim \/ Launch
     \/ StartFiller \/ PassGpu \/ Sleep
  /\ started' = IF pc = "launch" THEN started \cup {job[Head(scan)]} ELSE started
  /\ overtaken' = overtaken \cup Overtaken
  /\ UNCHANGED <<prio, writing, stopping, stops, waitVars>>

\* serve gets a SIGTERM, or it dies between any two steps.
Stop ==
  /\ up /\ ~stopping /\ stops < MaxStops /\ stops' = stops + 1
  /\ \/ /\ stopping' = TRUE
        /\ UNCHANGED <<up, loopVars, proc, orphans>>
     \/ Abandon(proc) /\ UNCHANGED stopping
  /\ UNCHANGED <<jobVars, dirVars, started, waitVars>>

Restart ==
  /\ ~up /\ up' = TRUE /\ stopping' = FALSE /\ started' = {}
  /\ UNCHANGED <<jobVars, dirVars, stops, loopVars, proc, orphans, waitVars>>
-----------------------------------------------------------------------------
\* wait for all jobs: list queue/, then running/, then done/, and again.
Listing_swapped(k) == IF k = 1 THEN running ELSE queue
Listing(k) == IF k = 1 THEN queue ELSE running
WaitList ==
  \/ /\ waitPc \in {1, 2} /\ waitPc' = waitPc + 1
     /\ waitPending' = (Listing(waitPc) # {} \/ (waitPc = 2 /\ waitPending))
     /\ waitKnown' = IF waitPc = 1 THEN Submitted ELSE waitKnown
  \/ /\ waitPc = 3 /\ UNCHANGED <<waitPending, waitKnown>>
     /\ waitPc' = IF ~waitPending /\ done # {} THEN Returned ELSE 1
Wait ==
  /\ HasWait /\ WaitList
  /\ UNCHANGED <<jobVars, dirVars, lifeVars, loopVars, proc, orphans>>

Next == \/ (\E p \in Priorities : Stamp(p)) \/ Submit \/ ProcessEnds \/ Serve
        \/ Stop \/ Restart \/ Wait

\* serve keeps polling and is restarted; a job that is not a filler, or that
\* was signalled, ends (every job runs under a timeout); a filler need not.
RealEnds(g) ==
  /\ proc[g] = "terminating" \/ (proc[g] = "alive" /\ job[g] # Filler)
  /\ Ends(g)
  /\ UNCHANGED <<jobVars, dirVars, lifeVars, loopVars, waitVars>>
Fairness == /\ WF_vars(Serve) /\ WF_vars(Restart)
            /\ \A g \in Gpus : WF_vars(RealEnds(g))

Spec == Init /\ [][Next]_vars /\ Fairness
-----------------------------------------------------------------------------
\* Every variable has its type.
TypeOK ==
  /\ prio \in Seq(Priorities) /\ Len(prio) <= MaxJobs
  /\ writing \subseteq DOMAIN prio
  /\ {queue, running, done, started, waitKnown} \subseteq SUBSET Submitted
  /\ {listed, overtaken} \subseteq SUBSET Submitted
  /\ {up, stopping, waitPending} \subseteq BOOLEAN /\ stops \in 0 .. MaxStops
  /\ pc \in {"requeue", "reap", "remove", "start", "claim", "launch"}
  /\ scan \in Seq(Gpus) /\ order \in Seq(Gpus) /\ IsInjective(order)
  /\ job \in [Gpus -> Submitted \cup {Filler, NoJob}]
  /\ preempted \subseteq Busy
  /\ proc \in [Gpus -> {"none", "alive", "terminating", "exited"}]
  /\ orphans \subseteq [gpu : Gpus, job : Submitted \cup {Filler}]
  /\ waitPc \in 1 .. Returned

\* A submitted job is never lost: through claims, reaping, stops, crashes and
\* restarts it is queued, marked as running or done, and never queued while a
\* serve that is up runs it.
NoJobLost ==
  /\ Submitted = queue \cup running \cup done
  /\ queue \cap running = {}
  /\ \A g \in Gpus : job[g] \in {Filler, NoJob} \cup running \cup done

\* A job runs once, unless serve is stopped or dies: no serve starts a job that
\* it has started before, also not one that it stopped as a filler.
RunsOncePerServe ==
  up /\ pc = "launch" => job[Head(scan)] \notin started

\* "One job runs per GPU" (README): no two live processes share a GPU.
OneJobPerGpu ==
  /\ \A o \in orphans : proc[o.gpu] \notin Live
  /\ \A o, p \in orphans : o.gpu = p.gpu => o = p

\* "lowest priority number first, then submission order", as far as the code
\* keeps it: when a job is claimed, one that should come first may have appeared
\* in queue/ since serve listed it (or its client was late with the rename), but
\* it is never one that was listed, and never one that was overtaken before, by
\* this serve or another.  So a job yields its turn once at most.
PriorityOrder == [][Overtaken \cap (listed \cup overtaken) = {}]_vars

\* wait returns only when the jobs submitted before its last poll are done:
\* "Blocks until no queued/running job name contains `pattern'".
WaitSound == waitPc = Returned => waitKnown \subseteq done

\* Every job gets done, however long fillers would run: "fillers never delay
\* real work".  The exception is a job that cannot be started: it ends every
\* serve, in the loop that starts the others.
EveryJobDone ==
  \A j \in 1 .. MaxJobs :
    j \in Submitted ~> j \in done \/ Submitted \cap Broken # {}
=============================================================================
