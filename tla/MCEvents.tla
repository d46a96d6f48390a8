----------------------------- MODULE MCEvents ------------------------------
(***************************************************************************)
(* An instance of Events for TLC: every mode of the sources, every kind of *)
(* EventFile, and a Poller that reports one or two events at once.  Some   *)
(* EventFiles are at their limit from the start.                           *)
(***************************************************************************)
EXTENDS Events, TLC

With(i, e, t, max, initval, semaphore, nonblock) ==
    [mode |-> ("inotify" :> i @@ "event" :> e @@ "timer" :> t),
     max_events |-> max, initval |-> initval, semaphore |-> semaphore, nonblock |-> nonblock]

SomeConfigs ==
    {With("level", "level", "level", 1, 2, TRUE, FALSE),
     With("edge", "oneshot", "edge", 2, 0, FALSE, FALSE),
     With("oneshot", "edge", "oneshot", 1, 2, TRUE, TRUE)}
=============================================================================
