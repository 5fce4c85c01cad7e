---------------------------- MODULE MCScheduler ----------------------------
(* Small instances of Scheduler.  A minute has four seconds and a second    *)
(* two units, so that the ticks can drift within one minute of the clock.   *)
EXTENDS Scheduler

Saved(type, kind) == [type |-> type, kind |-> kind, target |-> TRUE, enabled |-> TRUE,
                      seconds |-> 8, minutes |-> {0}, at |-> 3]

ShellDrafts  == {Saved("interval", "shell"), Saved("cron", "shell"), Saved("once", "shell"),
                 [Saved("interval", "shell") EXCEPT !.target = FALSE],
                 [Saved("interval", "shell") EXCEPT !.seconds = 40]}
PromptDrafts == {Saved("interval", "prompt"), Saved("once", "prompt"),
                 [Saved("interval", "prompt") EXCEPT !.seconds = 40]}
MixedDrafts  == {[Saved("cron", "prompt") EXCEPT !.at = 0], Saved("once", "shell"),
                 [Saved("interval", "shell") EXCEPT !.at = 0]}
CronDrafts   == {[Saved("cron", "shell") EXCEPT !.minutes = {0, 1}]}
OnceDrafts   == {Saved("once", "shell")}
\* An interval that fits a u64 and no Duration.
HugeDrafts   == {[Saved("interval", "shell") EXCEPT !.seconds = 40]}
=============================================================================
