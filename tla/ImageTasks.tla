------------------------------- MODULE ImageTasks -------------------------------
(***************************************************************************)
(* Preheating and deleting an OCI image (rust/src/lib.rs,                  *)
(* Proxy::preheat_image and Proxy::delete_image): a call resolves the      *)
(* image, spawns one task per manifest and blob, lets as many of them run  *)
(* as a semaphore has permits, and returns when all have succeeded, or     *)
(* with the first failure, which aborts the others.                        *)
(*                                                                         *)
(* A task preheats or deletes its target through Proxy::preheat or         *)
(* Proxy::delete.  What these do is the subject of FanOut; here they are   *)
(* one step on what a seed peer they address holds.  The seed peers know a *)
(* file by its task id only, and fetch nothing that they hold already      *)
(* (lib.rs:159-160).                                                       *)
(***************************************************************************)
EXTENDS Integers, FiniteSets

CONSTANTS
    Targets,        \* manifests and blobs, by their digests
    Images,         \* what the image reference may resolve to: sets of targets
    TaskId,         \* the task id the parameters of the requests give a target
    Permits         \* request.concurrent_task_count

ASSUME ImageAssumption ==
    /\ IsFiniteSet(Targets)
    /\ Images \subseteq (SUBSET Targets) \ {{}}
    /\ Permits \in Nat \ {0}

VARIABLES
    image,          \* what the reference resolves to now
    held,           \* the targets whose content a seed peer holds
    stray,          \* work of aborted tasks that may still be done
    pc,             \* the call
    kind,           \* what it does
    task,           \* its task for each target
    free,           \* the free permits of its semaphore
    calm            \* no work of the other kind was left when it began (history)

callVars == <<pc, kind, task, free, calm>>
vars == <<image, held, stray, callVars>>

Kinds == {"preheat", "delete"}

TaskStates == {"none", "waiting", "running", "done", "ok", "failed", "joined"}

NoTasks == [t \in Targets |-> "none"]

TypeOK ==
    /\ image \in Images
    /\ held \in SUBSET Targets
    /\ stray \in SUBSET (Kinds \X Targets)
    /\ pc \in {"idle", "joining", "ok", "failed"}
    /\ kind \in Kinds
    /\ task \in [Targets -> TaskStates]
    /\ free \in 0 .. Permits
    /\ calm \in BOOLEAN

Init ==
    /\ image \in Images
    /\ held = {}
    /\ stray = {}
    /\ pc = "idle"
    /\ kind = "preheat"
    /\ task = NoTasks
    /\ free = Permits
    /\ calm = FALSE

\* The reference is a tag, and the registry lets it point to another manifest.
Retag ==
    /\ image' \in Images \ {image}
    /\ UNCHANGED <<held, stray, callVars>>

--------------------------------------------------------------------------------
(* A call. *)

\* The manifest is pulled, its distinct digests become targets, and their tasks
\* are spawned.
Start(k) ==
    /\ pc = "idle"
    /\ pc' = "joining"
    /\ kind' = k
    /\ task' = [t \in Targets |-> IF t \in image THEN "waiting" ELSE "none"]
    /\ calm' = (\A work \in stray : work[1] = k)
    /\ UNCHANGED <<image, held, stray, free>>

\* The image cannot be resolved, or the registry gives no token.
ResolveFails(k) ==
    /\ pc = "idle"
    /\ pc' = "failed"
    /\ kind' = k
    /\ UNCHANGED <<image, held, stray, task, free, calm>>

SetTask(t, state) == task' = [task EXCEPT ![t] = state]

\* Mutant: the permit is not kept while the task runs (let _ instead of let _permit).
AcquireInVain(t) ==
    /\ task[t] = "waiting"
    /\ free > 0
    /\ SetTask(t, "running")
    /\ UNCHANGED <<image, held, stray, pc, kind, free, calm>>

\* A task gets a permit and calls preheat or delete.
Acquire(t) ==
    /\ task[t] = "waiting"
    /\ free > 0
    /\ SetTask(t, "running")
    /\ free' = free - 1
    /\ UNCHANGED <<image, held, stray, pc, kind, calm>>

\* The targets a seed peer takes for t.
SameTask(t) == {u \in Targets : TaskId[u] = TaskId[t]}

HeldAfter(k, t) ==
    IF k = "delete" THEN held \ SameTask(t)
    ELSE IF SameTask(t) \cap held # {} THEN held
    ELSE held \cup {t}

\* The seed peer has downloaded or deleted the target's task.
Work(t) ==
    /\ task[t] = "running"
    /\ held' = HeldAfter(kind, t)
    /\ SetTask(t, "done")
    /\ UNCHANGED <<image, stray, pc, kind, free, calm>>

\* Mutant: the permit is not given back (forget).
FinishKeepingPermit(t) ==
    /\ task[t] = "done"
    /\ SetTask(t, "ok")
    /\ UNCHANGED <<image, held, stray, pc, kind, free, calm>>

\* The task ends well, giving its permit back.
Finish(t) ==
    /\ task[t] = "done"
    /\ SetTask(t, "ok")
    /\ free' = free + 1
    /\ UNCHANGED <<image, held, stray, pc, kind, calm>>

\* preheat or delete fails, whatever the seed peers have done or may still do.
Fail(t) ==
    /\ task[t] \in {"running", "done"}
    /\ SetTask(t, "failed")
    /\ free' = free + 1
    /\ stray' = stray \cup {<<kind, t>>}
    /\ UNCHANGED <<image, held, pc, kind, calm>>

\* Work that nobody waits for any more is done, or is not.
Stray(k, t, done) ==
    /\ <<k, t>> \in stray
    /\ stray' = stray \ {<<k, t>>}
    /\ held' = IF done THEN HeldAfter(k, t) ELSE held
    /\ UNCHANGED <<image, callVars>>

InHand == {t \in Targets : task[t] \in {"running", "done"}}

\* The tasks that are left are aborted with the JoinSet, and the semaphore goes
\* with the last of them.
Abort ==
    /\ task' = NoTasks
    /\ free' = Permits
    /\ stray' = stray \cup {<<kind, t>> : t \in InHand}

\* Mutant: only one task is joined (if let instead of while let).
JoinEach(t) ==
    /\ pc = "joining"
    /\ task[t] = "ok"
    /\ task' = [u \in Targets |-> IF task[u] = "none" THEN "none" ELSE "joined"]
    /\ free' = Permits
    /\ stray' = stray \cup {<<kind, u>> : u \in InHand}
    /\ pc' = "ok"
    /\ UNCHANGED <<image, held, kind, calm>>

\* join_next: the first failure is returned at once, the last success returns Ok.
JoinOk(t) ==
    /\ pc = "joining"
    /\ task[t] = "ok"
    /\ SetTask(t, "joined")
    /\ pc' = IF \A u \in Targets \ {t} : task[u] \in {"none", "joined"} THEN "ok" ELSE pc
    /\ UNCHANGED <<image, held, stray, kind, free, calm>>

JoinFailed(t) ==
    /\ pc = "joining"
    /\ task[t] = "failed"
    /\ pc' = "failed"
    /\ Abort
    /\ UNCHANGED <<image, held, kind, calm>>

Forget ==
    /\ pc' = "idle"
    /\ kind' = "preheat"
    /\ calm' = FALSE
    /\ UNCHANGED <<image, held>>

\* The caller drops the call.
Drop == pc = "joining" /\ Abort /\ Forget

\* The caller takes the result and may call again.
TakeResult ==
    /\ pc \in {"ok", "failed"}
    /\ task' = NoTasks
    /\ Forget
    /\ UNCHANGED <<stray, free>>

--------------------------------------------------------------------------------

Progress(t) ==
    Acquire(t) \/ Work(t) \/ Finish(t) \/ Fail(t) \/ JoinOk(t) \/ JoinFailed(t)

\* A preheat of the target is under way, which may wait for a silent stream.
Streaming(t) == kind = "preheat" /\ t \in InHand

Next ==
    \/ Retag
    \/ \E k \in Kinds : Start(k) \/ ResolveFails(k)
    \/ \E k \in Kinds, t \in Targets, done \in BOOLEAN : Stray(k, t, done)
    \/ \E t \in Targets : Progress(t)
    \/ Drop
    \/ TakeResult

Spec == Init /\ [][Next]_vars

\* The tasks run, and every delete of a target ends; a preheat of one may not, where a
\* seed peer's stream stays silent for ever (EveryCallReturns of FanOut).
FairSpec == Spec /\ WF_vars(\E t \in Targets : ~Streaming(t) /\ Progress(t))

--------------------------------------------------------------------------------
(* Properties. *)

\* No more than concurrent_task_count targets are in hand at a time, whatever ends
\* well, fails or is dropped in between (lib.rs:1424-1425).
WithinTheLimit == Cardinality(InHand) <= Permits

\* A call that returned Ok has done its work for every target the image had when it
\* was resolved: its task is held, or is held no longer.
OkMeansEveryTarget ==
    pc = "ok" /\ calm =>
        \A t \in Targets :
            task[t] = "joined" => (SameTask(t) \cap held # {} <=> kind = "preheat")

\* Every call returns, unless the preheat of one of its targets never ends: no permit is
\* lost, so no task waits for one for ever.  That a preheat or a delete of a target ends
\* is FanOut's to say, and it does not of a preheat with a silent stream: such a target
\* keeps its permit and its call (lib.rs:1755-1760, 1449-1454).
EveryCallReturns ==
    (\A t \in Targets : []<>~Streaming(t)) => (pc = "joining" ~> pc # "joining")

\* The inductive invariant behind these: a permit is free or with a task in hand,
\* nothing is in hand when the call is over, and when it began calm all that may
\* still be done is of its kind, so that what is done stays done.
PermitsAddUp == free + Cardinality(InHand) = Permits

OverIsOver ==
    /\ pc = "idle" => ~calm
    /\ pc \in {"idle", "failed"} => task = NoTasks
    /\ pc = "ok" => \A t \in Targets : task[t] \in {"none", "joined"}

WorkStaysDone ==
    calm =>
        /\ \A work \in stray : work[1] = kind
        /\ \A t \in Targets :
               task[t] \in {"done", "ok", "joined"} =>
                   (SameTask(t) \cap held # {} <=> kind = "preheat")

IndInv == TypeOK /\ PermitsAddUp /\ OverIsOver /\ WorkStaysDone

\* What lib.rs:184-186 says of preheat_image: the seed peers download every config
\* and layer blob.
EveryBlobIsDownloaded ==
    pc = "ok" /\ calm /\ kind = "preheat" =>
        \A t \in Targets : task[t] = "joined" => t \in held
================================================================================
