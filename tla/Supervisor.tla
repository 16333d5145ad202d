----------------------------- MODULE Supervisor -----------------------------
(***************************************************************************)
(* One execution of an external collector: the supervisor                   *)
(* (internal/external), the reader of its output (internal/protocol/ndjson),*)
(* the process it starts, a helper that the process may leave behind, the   *)
(* goroutine of exec.CommandContext that kills the process when the context *)
(* ends, and the worker that writes down the outcome (internal/worker).     *)
(*                                                                          *)
(* A descriptor fits into the pipe, so that writing it never blocks.        *)
(***************************************************************************)
EXTENDS Naturals, Sequences

CONSTANTS
    MaxLines,   \* bound: lines that the process writes
    Helpers,    \* may the process start another one, in its process group?
    Ends,       \* how the context may end: "deadline", "cancelled"
    Faults,     \* may a process fail to start, an event fail to be recorded?
    None

ASSUME SupervisorAssumption ==
    /\ MaxLines \in Nat /\ {Helpers, Faults} \subseteq BOOLEAN
    /\ Ends \subseteq {"deadline", "cancelled"}
    /\ None \notin {"event", "done", "bad", "deadline", "cancelled", "emit", "exit"}

VARIABLES
    pc,         \* where Execute is
    line,       \* the line it has read
    parseErr,   \* its variable parseErr
    ctx,        \* "live", or how the context has ended
    child,      \* the process: "none", "running", "exited0", "exited1", "killed"
    helper,     \* "none", "piped" (it holds stdout and stderr), "apart", "gone"
    written,    \* the lines the process has written
    emitted,    \* the lines handed to emit and recorded
    watched,    \* Cancel of exec.Cmd: None, or the ctx.Err() that Wait may return
    reaped,     \* Wait has collected the process
    status      \* the status of the job

vars == <<pc, line, parseErr, ctx, child, helper, written, emitted, watched, reaped, status>>

Lines == {"event", "done", "bad"}
Errors == {"bad", "emit", "deadline", "cancelled"}

SupervisorTypeOK ==
    /\ pc \in {"start", "descriptor", "next", "reading", "emitting", "closing", "waiting",
               "ok", "failed", "deadline", "cancelled", "returned"}
    /\ line \in Lines \cup {None}
    /\ parseErr \in Errors \cup {None}
    /\ ctx \in {"live"} \cup Ends
    /\ child \in {"none", "running", "exited0", "exited1", "killed"}
    /\ helper \in {"none", "piped", "apart", "gone"}
    /\ written \in Seq(Lines) /\ Len(written) <= MaxLines
    /\ emitted \in Seq(Lines)
    /\ watched \in Ends \cup {None}
    /\ reaped \in BOOLEAN
    /\ status \in {"running", "succeeded", "failed", "timed_out"}

Init ==
    /\ pc = "start" /\ line = None /\ parseErr = None
    /\ ctx = "live"
    /\ child = "none" /\ helper = "none"
    /\ written = <<>> /\ emitted = <<>>
    /\ watched = None /\ reaped = FALSE
    /\ status = "running"

-----------------------------------------------------------------------------
(* The process, its helper and the context *)

ChildWrites(l) ==
    /\ child = "running" /\ Len(written) < MaxLines
    /\ written' = Append(written, l)
    /\ UNCHANGED <<pc, line, parseErr, ctx, child, helper, emitted, watched, reaped, status>>

ChildSpawns ==
    /\ Helpers /\ child = "running" /\ helper = "none"
    /\ helper' \in {"piped", "apart"}
    /\ UNCHANGED <<pc, line, parseErr, ctx, child, written, emitted, watched, reaped, status>>

ChildExits ==
    /\ child = "running"
    /\ child' \in {"exited0", "exited1"}
    /\ UNCHANGED <<pc, line, parseErr, ctx, helper, written, emitted, watched, reaped, status>>

HelperExits ==
    /\ helper \in {"piped", "apart"}
    /\ helper' = "gone"
    /\ UNCHANGED <<pc, line, parseErr, ctx, child, written, emitted, watched, reaped, status>>

\* The deadline of the job or of the catalog entry, or the shutdown of the
\* worker pool.
CtxEnds ==
    /\ ctx = "live"
    /\ ctx' \in Ends
    /\ UNCHANGED <<pc, line, parseErr, child, helper, written, emitted, watched, reaped, status>>

\* Defect: exec.Command instead of exec.CommandContext.
CtxKillsNothing ==
    /\ ctx # "live" /\ child # "none" /\ ~reaped /\ watched = None
    /\ watched' = ctx
    /\ UNCHANGED <<pc, line, parseErr, ctx, child, helper, written, emitted, reaped, status>>

\* exec.CommandContext: kills the process alone, not its group.  A process
\* that has exited and is not reaped yet takes the signal without effect.
CtxKills ==
    /\ ctx # "live" /\ child # "none" /\ ~reaped /\ watched = None
    /\ child' = IF child = "running" THEN "killed" ELSE child
    /\ watched' = ctx
    /\ UNCHANGED <<pc, line, parseErr, ctx, helper, written, emitted, reaped, status>>

-----------------------------------------------------------------------------
(* Supervisor.Execute *)

Start ==
    /\ pc = "start"
    /\ \/ ctx = "live" /\ pc' = "descriptor" /\ child' = "running"
       \/ (Faults \/ ctx # "live") /\ UNCHANGED child
          /\ pc' = IF ctx = "live" THEN "failed" ELSE ctx
    /\ UNCHANGED <<line, parseErr, ctx, helper, written, emitted, watched, reaped, status>>

\* Defect: nothing is killed.
KillNobody == UNCHANGED <<child, helper>>

\* Supervisor.kill: the whole process group.
Kill ==
    /\ child' = IF child = "running" THEN "killed" ELSE child
    /\ helper' = IF helper = "none" THEN "none" ELSE "gone"

\* A process that has gone breaks the pipe: kill, and return without Wait.
\* One that has closed its stdin does so too.
WriteDescriptor ==
    /\ pc = "descriptor"
    /\ \/ child = "running" /\ pc' = "next" /\ UNCHANGED <<child, helper>>
       \/ pc' = "failed" /\ Kill
    /\ UNCHANGED <<line, parseErr, ctx, written, emitted, watched, reaped, status>>

\* Reader.Next looks at the context, and only then blocks in a read.
Next0 ==
    /\ pc = "next"
    /\ IF ctx # "live"
       THEN parseErr' = ctx /\ pc' = "closing"
       ELSE pc' = "reading" /\ UNCHANGED parseErr
    /\ UNCHANGED <<line, ctx, child, helper, written, emitted, watched, reaped, status>>

\* Defect: the end of the process is taken for the end of its output.
EOFAtExit == child # "running"

\* The pipe is at its end once nobody holds it open and all has been read.
EOF == child # "running" /\ helper # "piped" /\ Len(emitted) = Len(written)

\* A line that does not parse ends the loop, too.
Read ==
    /\ pc = "reading"
    /\ \/ /\ Len(emitted) < Len(written)
          /\ line' = written[Len(emitted) + 1]
          /\ IF line' = "bad"
             THEN parseErr' = "bad" /\ pc' = "closing"
             ELSE pc' = "emitting" /\ UNCHANGED parseErr
       \/ EOF /\ pc' = "closing" /\ UNCHANGED <<line, parseErr>>
    /\ UNCHANGED <<ctx, child, helper, written, emitted, watched, reaped, status>>

\* emit writes to the database under the same context.
Emit ==
    /\ pc = "emitting"
    /\ \/ /\ ctx = "live"
          /\ emitted' = Append(emitted, line)
          /\ pc' = IF line = "done" THEN "closing" ELSE "next"
          /\ UNCHANGED parseErr
       \/ /\ Faults \/ ctx # "live"
          /\ parseErr' = IF ctx = "live" THEN "emit" ELSE ctx
          /\ pc' = "closing"
          /\ UNCHANGED emitted
    /\ line' = None
    /\ UNCHANGED <<ctx, child, helper, written, watched, reaped, status>>

\* waitOrKill, up to its call of Wait.
Close ==
    /\ pc = "closing"
    /\ IF parseErr # None \/ ctx # "live" THEN Kill ELSE UNCHANGED <<child, helper>>
    /\ pc' = "waiting"
    /\ UNCHANGED <<line, parseErr, ctx, written, emitted, watched, reaped, status>>

\* The error of Execute as the worker tells errors apart.
Outcome(err) ==
    IF err = None THEN "ok" ELSE IF err \in {"deadline", "cancelled"} THEN err ELSE "failed"

\* What Execute returns: parseErr, if there is one; else the exit status; and
\* what CtxKills has left only if the process has exited with 0.
WaitError ==
    IF parseErr # None THEN parseErr
    ELSE IF child # "exited0" THEN "exit" ELSE watched

\* Wait returns when the process has ended and nobody holds stderr.
Wait ==
    /\ pc = "waiting"
    /\ child # "running" /\ helper # "piped"
    /\ reaped' = TRUE
    /\ pc' = Outcome(WaitError)
    /\ UNCHANGED <<line, parseErr, ctx, child, helper, written, emitted, watched, status>>

-----------------------------------------------------------------------------
(* Pool.execute: what the worker does with the outcome *)

Statuses == [ok |-> "succeeded", failed |-> "failed", deadline |-> "timed_out"]

\* Defect: the outcome is written under a context of its own.
CompleteDetached ==
    /\ pc \in {"ok", "failed", "deadline", "cancelled"}
    /\ status' = IF pc = "cancelled" THEN "failed" ELSE Statuses[pc]
    /\ pc' = "returned"
    /\ UNCHANGED <<line, parseErr, ctx, child, helper, written, emitted, watched, reaped>>

\* A job that was preempted is left to the sweep.  At a shutdown the worker's
\* own context is cancelled, and queue.Complete fails whatever the outcome.
Complete ==
    /\ pc \in {"ok", "failed", "deadline", "cancelled"}
    /\ status' = IF pc = "cancelled" \/ ctx = "cancelled" THEN status ELSE Statuses[pc]
    /\ pc' = "returned"
    /\ UNCHANGED <<line, parseErr, ctx, child, helper, written, emitted, watched, reaped>>

Step ==
    \/ Start \/ WriteDescriptor \/ Next0 \/ Read \/ Emit \/ Close \/ Wait \/ Complete

Next ==
    \/ \E l \in Lines : ChildWrites(l)
    \/ ChildSpawns \/ ChildExits \/ HelperExits
    \/ CtxEnds \/ CtxKills
    \/ Step

Spec == Init /\ [][Next]_vars

\* The two goroutines run on, and the database answers.  Nothing is assumed
\* of the process and of its helper: they may run for ever.
FairSpec == Spec /\ WF_vars(Step) /\ WF_vars(CtxKills)

-----------------------------------------------------------------------------
(* Properties *)

\* The lines up to and including the first "done".
UpToDone(s) ==
    LET ends == {i \in 1 .. Len(s) : s[i] = "done"} IN
    IF ends = {} THEN s ELSE SubSeq(s, 1, CHOOSE i \in ends : \A k \in ends : i <= k)

\* A job that has succeeded has lost no event: all that the process wrote up
\* to its "done", or up to its end, is recorded, nothing of it was garbled, and
\* the process exited with 0, however its output, its exit and the deadline
\* interleave.
SuccessIsWhole ==
    status = "succeeded" => /\ emitted = UpToDone(written)
                            /\ child = "exited0"

\* worker.go:222: once the worker pool is shut down, no outcome is written: the
\* job is left for the sweep, also when the process was killed for it.
PreemptedIsLeft == [][ctx = "cancelled" => status' = status]_vars

\* The process is not running once Execute has returned, on any path; it need
\* not have been waited for (the descriptor that cannot be written,
\* supervisor.go:85), and its helpers may live on (GroupKilled).
NoChildLeft == pc = "returned" => child # "running"

\* Once the deadline is over or the pool shuts down, Execute returns, unless a
\* helper holds the pipes for ever: the read and Wait block for as long as it
\* does, whatever becomes of the process itself.
TimeoutEnds ==
    <>[](helper # "piped") => (ctx # "live" ~> pc = "returned")

(* What the comments and the docs say, and the code does not do. *)

\* supervisor.go:39: the timeout is "an absolute wall-clock cap on the child":
\* the helper does not matter.
TimeoutIsAbsolute == ctx # "live" ~> pc = "returned"

\* worker.go:219: a job that is ended by its deadline becomes timed_out: its
\* process was killed, and had done nothing wrong before.
DeadlineIsTimedOut ==
    pc = "returned" /\ ctx = "deadline" /\ reaped /\ child = "killed"
                    /\ parseErr \in {None, "deadline"}
        => status = "timed_out"

\* migration-plan.md:106: the supervisor "kills the process group on cancel".
GroupKilled == pc = "returned" /\ watched # None => helper \notin {"piped", "apart"}
=============================================================================
