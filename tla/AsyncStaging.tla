---------------------------- MODULE AsyncStaging ----------------------------
(***************************************************************************)
(* Double-buffered staging with asynchronous fills (streaming/layer.py,    *)
(* StreamingSwitchGLU with staged_sync = False): the main thread asks for  *)
(* expert sets with stage_experts, a pool thread resolves the bundles, the *)
(* future's done callback publishes them as the next set, and wait_staged  *)
(* or swap_staged promotes the next set to the one the forward reads.      *)
(*                                                                         *)
(* The n-th call of stage_experts asks for set n, and a fill, its future   *)
(* and its result are named by that number; 0 is None.  The actions are    *)
(* the steps between which another thread can run: what happens under      *)
(* _staging_lock is one action, except that a submitted fill runs, and may *)
(* finish, while the submitter still holds the lock.                       *)
(***************************************************************************)
EXTENDS Naturals

CONSTANTS Workers,    \* threads of _pool
          MaxStages   \* bound on the calls of stage_experts

ASSUME StageBound == MaxStages \in Nat
ASSUME ThreadNames == "main" \notin Workers /\ "free" \notin Workers

Threads == Workers \cup {"main"}
Sets == 1..MaxStages
Free == "free"

VARIABLES
  state,     \* _staged_state
  next,      \* _staged_state_next
  future,    \* _staging_future
  pendingSet, \* _staged_pending
  rearm,     \* _staged_rearm
  lock,      \* holder of _staging_lock, or Free
  fut,       \* concurrent.futures: state of each set's future
  attached,  \* sets whose future has _on_stage_done registered
  calls,     \* calls of stage_experts so far
  step,      \* what each thread does next
  job,       \* the fill each thread is building or publishing
  op,        \* the entry point the main thread is in, "none" past its drain
  waited,    \* the fill wait_staged took to wait for
  shown      \* history: the newest set ever active

staging == <<state, next, future, pendingSet, rearm>>
threads == <<step, job, op, waited>>
asyncVars == <<staging, lock, fut, attached, calls, threads, shown>>

Finished(v) == fut[v] \in {"done", "failed"}

AsyncInit ==
  /\ state = 0 /\ next = 0 /\ future = 0 /\ pendingSet = 0 /\ rearm = 0
  /\ lock = Free
  /\ fut = [v \in Sets |-> "none"] /\ attached = {}
  /\ calls = 0
  /\ step = [t \in Threads |-> "idle"] /\ job = [t \in Threads |-> 0]
  /\ op = "none" /\ waited = 0 /\ shown = 0

Goto(t, label) == step' = [step EXCEPT ![t] = label]

(* Where thread t goes when _on_stage_done or the submission is over: the  *)
(* main thread leaves its drain for the entry point's own part.            *)
Return(t) == Goto(t, IF t = "main" /\ op # "none" THEN "enter" ELSE "idle")

-----------------------------------------------------------------------------
(* Submitting and publishing a fill, on any thread.                         *)

(* _pool.submit in _submit_stage_locked, with the lock held by t. *)
Submit(t, v) ==
  /\ fut' = [fut EXCEPT ![v] = "queued"]
  /\ future' = v
  /\ lock' = t
  /\ Goto(t, "check")

(* Mutant: a fill that finished at once is forgotten. *)
CheckDoneForgets(t) ==
  /\ step[t] = "check"
  /\ IF Finished(future)
     THEN lock' = Free /\ Return(t)
     ELSE Goto(t, "attach") /\ UNCHANGED lock
  /\ UNCHANGED <<staging, fut, attached, calls, job, op, waited, shown>>

(* if not fut.done(): a finished fill is left for the next entry. *)
CheckDone(t) ==
  /\ step[t] = "check"
  /\ IF Finished(future)
     THEN rearm' = future /\ lock' = Free /\ Return(t)
     ELSE Goto(t, "attach") /\ UNCHANGED <<rearm, lock>>
  /\ UNCHANGED <<state, next, future, pendingSet, fut, attached, calls, job,
                 op, waited, shown>>

(* add_done_callback: a future that has finished by now runs the callback  *)
(* at once, on this thread, which still holds the lock.                     *)
AddDoneCallback(t) ==
  /\ step[t] = "attach"
  /\ IF Finished(future)
     THEN /\ job' = [job EXCEPT ![t] = future] /\ Goto(t, "publish")
          /\ UNCHANGED <<attached, lock>>
     ELSE /\ attached' = attached \cup {future}
          /\ lock' = Free /\ Return(t) /\ UNCHANGED job
  /\ UNCHANGED <<staging, fut, calls, op, waited, shown>>

(* _on_stage_done: a failed fill only clears the future; a good one        *)
(* becomes the next set and the pending set, if any, is submitted.         *)
OnStageDone(t) ==
  /\ step[t] = "publish" /\ lock = Free
  /\ next' = IF fut[job[t]] = "done" THEN job[t] ELSE next
  /\ IF fut[job[t]] = "done" /\ pendingSet # 0
     THEN Submit(t, pendingSet) /\ pendingSet' = 0
     ELSE /\ future' = 0 /\ Return(t)
          /\ UNCHANGED <<pendingSet, lock, fut>>
  /\ job' = [job EXCEPT ![t] = 0]
  /\ UNCHANGED <<state, rearm, attached, calls, op, waited, shown>>

-----------------------------------------------------------------------------
(* The pool.                                                                *)

StartFill(w, v) ==
  /\ step[w] = "idle" /\ fut[v] = "queued"
  /\ fut' = [fut EXCEPT ![v] = "running"]
  /\ job' = [job EXCEPT ![w] = v]
  /\ Goto(w, "build")
  /\ UNCHANGED <<staging, lock, attached, calls, op, waited, shown>>

(* _build_staged_bundles returns or raises; the future is finished, which  *)
(* wakes its waiters, before its callbacks run.                             *)
FinishFill(w, outcome) ==
  /\ step[w] = "build"
  /\ fut' = [fut EXCEPT ![job[w]] = outcome]
  /\ IF job[w] \in attached
     THEN Goto(w, "publish") /\ UNCHANGED job
     ELSE Goto(w, "idle") /\ job' = [job EXCEPT ![w] = 0]
  /\ UNCHANGED <<staging, lock, attached, calls, op, waited, shown>>

-----------------------------------------------------------------------------
(* The main thread.                                                         *)

Begin(o) ==
  /\ step["main"] = "idle"
  /\ op' = o
  /\ Goto("main", "drain")
  /\ UNCHANGED <<staging, lock, fut, attached, job, waited, shown>>

AsyncStageExperts == calls < MaxStages /\ Begin("stage") /\ calls' = calls + 1
WaitStaged == Begin("wait") /\ UNCHANGED calls
AsyncSwapStaged == Begin("swap") /\ UNCHANGED calls

(* Mutant: _on_stage_done is called without a look at _staged_rearm. *)
DrainRearmUnchecked ==
  /\ step["main"] = "drain"
  /\ job' = [job EXCEPT !["main"] = rearm]
  /\ rearm' = 0
  /\ Goto("main", "publish")
  /\ UNCHANGED <<state, next, future, pendingSet, lock, fut, attached, calls,
                 op, waited, shown>>

(* _drain_rearm, which every entry point runs first. *)
DrainRearm ==
  /\ step["main"] = "drain"
  /\ job' = [job EXCEPT !["main"] = rearm]
  /\ rearm' = 0
  /\ Goto("main", IF rearm # 0 THEN "publish" ELSE "enter")
  /\ UNCHANGED <<state, next, future, pendingSet, lock, fut, attached, calls,
                 op, waited, shown>>

(* Mutant: the fill in flight is not looked for. *)
StageEnterAtOnce ==
  /\ step["main"] = "enter" /\ op = "stage" /\ lock = Free
  /\ op' = "none"
  /\ Submit("main", calls)
  /\ UNCHANGED <<state, next, pendingSet, rearm, attached, calls, job, waited,
                 shown>>

(* stage_experts under the lock: one fill at a time, the newest other      *)
(* request waits its turn.                                                  *)
StageEnter ==
  /\ step["main"] = "enter" /\ op = "stage" /\ lock = Free
  /\ op' = "none"
  /\ IF future # 0
     THEN /\ pendingSet' = calls /\ Goto("main", "idle")
          /\ UNCHANGED <<future, lock, fut>>
     ELSE Submit("main", calls) /\ UNCHANGED pendingSet
  /\ UNCHANGED <<state, next, rearm, attached, calls, job, waited, shown>>

(* Mutant: the lock is kept while waiting. *)
WaitEnterKeepsLock ==
  /\ step["main"] = "enter" /\ op \in {"wait", "swap"} /\ lock = Free
  /\ waited' = future
  /\ lock' = "main"
  /\ Goto("main", IF future # 0 THEN "result" ELSE "promote")
  /\ UNCHANGED <<staging, fut, attached, calls, job, op, shown>>

(* wait_staged: take the future under the lock ... *)
WaitEnter ==
  /\ step["main"] = "enter" /\ op \in {"wait", "swap"} /\ lock = Free
  /\ waited' = future
  /\ Goto("main", IF future # 0 THEN "result" ELSE "promote")
  /\ UNCHANGED <<staging, lock, fut, attached, calls, job, op, shown>>

(* ... wait for its result outside ... *)
WaitResult ==
  /\ step["main"] = "result" /\ Finished(waited)
  /\ Goto("main", "promote")
  /\ UNCHANGED <<staging, lock, fut, attached, calls, job, op, waited, shown>>

PromoteNext ==
  /\ state' = IF next # 0 THEN next ELSE state
  /\ next' = 0
  /\ shown' = IF next > shown THEN next ELSE shown

(* ... and promote what has been published. *)
WaitPromote ==
  /\ step["main"] = "promote" /\ lock = Free
  /\ PromoteNext
  /\ IF op = "wait" THEN Goto("main", "idle") /\ op' = "none"
     ELSE Goto("main", "swap") /\ UNCHANGED op
  /\ UNCHANGED <<future, pendingSet, rearm, lock, fut, attached, calls, job,
                 waited>>

(* The rest of swap_staged promotes again and drops the pending set. *)
SwapPromote ==
  /\ step["main"] = "swap" /\ lock = Free
  /\ PromoteNext
  /\ pendingSet' = 0
  /\ Goto("main", "idle") /\ op' = "none"
  /\ UNCHANGED <<future, rearm, lock, fut, attached, calls, job, waited>>

(* reset drops both sets without the lock, then the pending one under it;  *)
(* a fill in flight is left alone.                                          *)
AsyncReset ==
  /\ step["main"] = "idle"
  /\ state' = 0 /\ next' = 0
  /\ Goto("main", "reset")
  /\ UNCHANGED <<future, pendingSet, rearm, lock, fut, attached, calls, job,
                 op, waited, shown>>

ResetPending ==
  /\ step["main"] = "reset" /\ lock = Free
  /\ pendingSet' = 0
  /\ Goto("main", "idle")
  /\ UNCHANGED <<state, next, future, rearm, lock, fut, attached, calls, job,
                 op, waited, shown>>

-----------------------------------------------------------------------------
Entry == AsyncStageExperts \/ WaitStaged \/ AsyncSwapStaged \/ AsyncReset

MainStep ==
  \/ DrainRearm \/ StageEnter \/ WaitEnter \/ WaitResult \/ WaitPromote
  \/ SwapPromote \/ ResetPending
  \/ CheckDone("main") \/ AddDoneCallback("main") \/ OnStageDone("main")

WorkerStep(w) ==
  \/ \E v \in Sets : StartFill(w, v)
  \/ \E outcome \in {"done", "failed"} : FinishFill(w, outcome)
  \/ CheckDone(w) \/ AddDoneCallback(w) \/ OnStageDone(w)

AsyncNext == Entry \/ MainStep \/ \E w \in Workers : WorkerStep(w)

(* Threads that can run do run; the main thread need not call again. *)
Fairness == /\ WF_asyncVars(MainStep)
            /\ \A w \in Workers : WF_asyncVars(WorkerStep(w))

AsyncSpec == AsyncInit /\ [][AsyncNext]_asyncVars /\ Fairness

-----------------------------------------------------------------------------
(* Correctness.                                                             *)

AsyncRanges ==
  /\ {state, next, future, pendingSet, rearm, waited, shown} \subseteq 0..calls
  /\ calls \in 0..MaxStages
  /\ lock \in Threads \cup {Free}
  /\ fut \in [Sets -> {"none", "queued", "running", "done", "failed"}]
  /\ attached \subseteq Sets
  /\ step \in [Threads -> {"idle", "build", "publish", "check", "attach",
                         "drain", "enter", "result", "promote", "swap",
                         "reset"}]
  /\ job \in [Threads -> 0..calls]
  /\ op \in {"stage", "wait", "swap", "none"}

(* Every variable keeps its type, no set is named that was not asked for,  *)
(* and where result() is called, by the callback, a drain or wait_staged,  *)
(* the future is not None: the AttributeError would be taken for a failed  *)
(* fill, by handlers that drop the fill in flight.                          *)
AsyncTypeOK ==
  /\ AsyncRanges
  /\ \A t \in Threads : step[t] \in {"build", "publish"} => job[t] # 0
  /\ step["main"] = "result" => waited # 0

(* Some thread waits for _staging_lock while holding it. *)
SelfDeadlock == \E t \in Threads : lock = t /\ step[t] = "publish"

(* The deadlock that the comment in _submit_stage_locked describes and     *)
(* claims to have fixed: the callback is never run on a thread that holds  *)
(* _staging_lock.                                                           *)
NoSelfDeadlock == ~SelfDeadlock

(* A finished fill that still occupies _staging_future always has someone  *)
(* to publish it: a thread in its callback or its submission, or the next  *)
(* entry point through _staged_rearm.  Otherwise every later stage_experts *)
(* would only overwrite the pending set and staging would be dead for the  *)
(* rest of the process.                                                     *)
NoOrphanFill ==
  (future # 0 /\ Finished(future)) =>
    \/ rearm = future
    \/ \E t \in Threads : \/ job[t] = future /\ step[t] = "publish"
                          \/ lock = t /\ step[t] \in {"check", "attach"}

(* At most one fill is between its submission and its publication, with    *)
(* submitters, callbacks and drains on several threads, so fills can not   *)
(* overtake each other.                                                     *)
OneFillAtATime ==
  \A v \in Sets :
    (\/ fut[v] \in {"queued", "running"}
     \/ \E t \in Threads : job[t] = v /\ step[t] = "publish") => v = future

(* As long as no fill has failed, the active set is never replaced by an   *)
(* older one than the forward has already read, whatever is promoted,      *)
(* dropped or reset in between.                                             *)
NeverOlder ==
  [][(\A v \in Sets : fut[v] # "failed") => (state' \in {0, state}
                                             \/ state' > shown)]_asyncVars

(* "Block until the in-flight staged fill lands, then promote it to the    *)
(* active state": when wait_staged has promoted, a fill it waited for, if  *)
(* it did not fail, is the active set (or a newer one is).                  *)
WaitPromotes ==
  [][(step["main"] = "promote" /\ step'["main"] # "promote" /\ waited # 0)
       => (fut[waited] = "failed" \/ state' >= waited)]_asyncVars

(* The only thing that can keep an entry point from returning is the self- *)
(* deadlock: no lost wakeup, and no cycle between the lock, the pool and   *)
(* the future that wait_staged blocks on.                                   *)
EntriesReturn ==
  (step["main"] # "idle") ~> (step["main"] = "idle" \/ SelfDeadlock)

=============================================================================
