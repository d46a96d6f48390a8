----------------------------- MODULE SigAction -----------------------------
(***************************************************************************)
(* cosmos::signal::set_action() and get_action() for one signal, and the   *)
(* delivery of that signal while they run.  The kernel knows the entry     *)
(* points simple_handler() and info_handler() of the library only; these   *)
(* look the callback up in two lock-free tables, which set_action() writes *)
(* after the call of sigaction().                                          *)
(***************************************************************************)
CONSTANTS
    Setter,        \* the threads that call set_action() and get_action()
    Receiver,      \* the threads that the signal is delivered to
    SimpleHandler, \* callbacks for the signal number
    InfoHandler,   \* callbacks for SigInfo
    Null,          \* nullptr, which is SigAction::DEFAULT, too
    IGNORE,        \* SigAction::IGNORE
    UNKNOWN,       \* SigAction::UNKNOWN
    Resets         \* the clients also go back to DEFAULT, IGNORE or what was set before

DEFAULT == Null
Handler == SimpleHandler \union InfoHandler
Special == {DEFAULT, IGNORE, UNKNOWN}

ASSUME SigActionAssumption ==
    /\ Setter \intersect Receiver = {}
    /\ SimpleHandler \intersect InfoHandler = {}
    /\ Special \intersect Handler = {}
    /\ DEFAULT # IGNORE /\ DEFAULT # UNKNOWN /\ IGNORE # UNKNOWN
    /\ Resets \in BOOLEAN

VARIABLES
    disposition,     \* kernel: what sigaction() has set for the signal
    simple_handlers, \* the entry of the signal in this table
    info_handlers,   \* and in this one
    pc,              \* where a setter or a receiver is
    arg,             \* the action that the setter's call sets, none in get_action()
    raw_old,         \* the disposition that sigaction() returned
    old,             \* the action that the setter's last call returned
    inForce,         \* history: the action of the last call that is complete
    used,            \* history: the dispositions that were ever set
    expected,        \* history: the callbacks a receiver may end up in
    outcome          \* history: what became of the receiver's last signal

tables == <<simple_handlers, info_handlers>>
setter == <<arg, raw_old, old>>
receiver == <<expected, outcome>>
history == <<inForce, used>>
sigActionVars == <<disposition, tables, pc, setter, history, receiver>>

-----------------------------------------------------------------------------
(* SigAction objects: m_raw, as far as it tells who gets the signal, and   *)
(* m_handler.                                                              *)

Action(raw, handler) == [raw |-> raw, handler |-> handler]

\* setHandler().
CustomActions ==
    {Action("simple", h) : h \in SimpleHandler} \union {Action("info", h) : h \in InfoHandler}

ResetActions == {Action("default", DEFAULT), Action("ignore", IGNORE)}

NoAction == Action("none", UNKNOWN)

\* updateFromOld(): which handler an action that the kernel returned stands for.
updateFromOld(raw, info, simple) ==
    Action(raw, CASE raw = "info" -> info
                  [] raw = "simple" -> simple
                  [] raw = "default" -> DEFAULT
                  [] raw = "ignore" -> IGNORE
                  [] OTHER -> UNKNOWN)

-----------------------------------------------------------------------------
(* set_action() and get_action() *)

\* The process starts with the default action, or code that does not use the
\* library has installed a handler of its own.
SigActionInit ==
    /\ disposition \in {"default", "foreign"}
    /\ simple_handlers = Null
    /\ info_handlers = Null
    /\ pc = [t \in Setter \union Receiver |-> "idle"]
    /\ arg = [t \in Setter |-> NoAction]
    /\ raw_old = [t \in Setter |-> "none"]
    /\ old = [t \in Setter |-> NoAction]
    /\ inForce = updateFromOld(disposition, Null, Null)
    /\ used = {}
    /\ expected = [r \in Receiver |-> {}]
    /\ outcome = [r \in Receiver |-> "none"]

\* What a client can pass to set_action().
Settable(t) ==
    CustomActions \union (IF Resets THEN ResetActions \union ({old[t]} \ {NoAction}) ELSE {})

\* The call of sigaction() in set_action().  Every receiver that is on its
\* way to a callback may from now on meet the new one.
SetBegin(t, action) ==
    /\ pc[t] = "idle"
    /\ disposition' = action.raw
    /\ raw_old' = [raw_old EXCEPT ![t] = disposition]
    /\ arg' = [arg EXCEPT ![t] = action]
    /\ pc' = [pc EXCEPT ![t] = "loading"]
    /\ used' = used \union {action.raw}
    /\ expected' = [r \in Receiver |-> expected[r] \union {action.handler}]
    /\ UNCHANGED <<tables, old, inForce, outcome>>

\* The call of sigaction() in get_action().
GetBegin(t) ==
    /\ pc[t] = "idle"
    /\ raw_old' = [raw_old EXCEPT ![t] = disposition]
    /\ arg' = [arg EXCEPT ![t] = NoAction]
    /\ pc' = [pc EXCEPT ![t] = "loading"]
    /\ UNCHANGED <<disposition, tables, old, history, receiver>>

\* Mutant: the entries are cleared before they are written.
Load_Clears(t) ==
    /\ pc[t] = "loading"
    /\ old' = [old EXCEPT ![t] = updateFromOld(raw_old[t], info_handlers, simple_handlers)]
    /\ pc' = [pc EXCEPT ![t] = IF arg[t] = NoAction THEN "idle" ELSE "storing"]
    /\ IF arg[t] = NoAction
       THEN UNCHANGED tables
       ELSE simple_handlers' = Null /\ info_handlers' = Null
    /\ UNCHANGED <<disposition, arg, raw_old, history, receiver>>

\* The callbacks of the tables are read, for the action to return.
Load(t) ==
    /\ pc[t] = "loading"
    /\ old' = [old EXCEPT ![t] = updateFromOld(raw_old[t], info_handlers, simple_handlers)]
    /\ pc' = [pc EXCEPT ![t] = IF arg[t] = NoAction THEN "idle" ELSE "storing"]
    /\ UNCHANGED <<disposition, tables, arg, raw_old, history, receiver>>

\* Mutant: an entry that is not empty is kept.
StoreSimple_IfEmpty(t) ==
    /\ pc[t] = "storing" /\ arg[t].handler \notin InfoHandler
    /\ simple_handlers' = IF arg[t].handler \in Special THEN Null
                          ELSE IF simple_handlers = Null THEN arg[t].handler
                          ELSE simple_handlers
    /\ pc' = [pc EXCEPT ![t] = IF arg[t].handler \in Special THEN "clearing" ELSE "idle"]
    /\ inForce' = IF arg[t].handler \in Special THEN inForce ELSE arg[t]
    /\ UNCHANGED <<disposition, info_handlers, setter, used, receiver>>

\* The table of simple handlers is written: for a simple handler it is the
\* only one, otherwise it is cleared first.
StoreSimple(t) ==
    /\ pc[t] = "storing" /\ arg[t].handler \notin InfoHandler
    /\ simple_handlers' = IF arg[t].handler \in Special THEN Null ELSE arg[t].handler
    /\ pc' = [pc EXCEPT ![t] = IF arg[t].handler \in Special THEN "clearing" ELSE "idle"]
    /\ inForce' = IF arg[t].handler \in Special THEN inForce ELSE arg[t]
    /\ UNCHANGED <<disposition, info_handlers, setter, used, receiver>>

\* The table of info handlers is written, or cleared.
StoreInfo(t) ==
    /\ \/ pc[t] = "storing" /\ arg[t].handler \in InfoHandler
       \/ pc[t] = "clearing"
    /\ info_handlers' = IF pc[t] = "clearing" THEN Null ELSE arg[t].handler
    /\ pc' = [pc EXCEPT ![t] = "idle"]
    /\ inForce' = arg[t]
    /\ UNCHANGED <<disposition, simple_handlers, setter, used, receiver>>

SetterStep(t) ==
    \/ \E action \in Settable(t) : SetBegin(t, action)
    \/ GetBegin(t)
    \/ Load(t)
    \/ StoreSimple(t)
    \/ StoreInfo(t)

-----------------------------------------------------------------------------
(* simple_handler() and info_handler() *)

\* The handlers of the calls of set_action() that are not complete.
Setting == {t \in Setter : pc[t] \in {"loading", "storing", "clearing"} /\ arg[t] # NoAction}
Incoming == {arg[t].handler : t \in Setting}

\* The kernel delivers the signal to an entry point of the library.
Deliver(r) ==
    /\ pc[r] = "idle"
    /\ disposition \in {"simple", "info"}
    /\ pc' = [pc EXCEPT ![r] = disposition]
    /\ expected' = [expected EXCEPT ![r] = {inForce.handler} \union Incoming]
    /\ outcome' = [outcome EXCEPT ![r] = "none"]
    /\ UNCHANGED <<disposition, tables, setter, history>>

entry(r) == IF pc[r] \in {"simple", "calling simple"} THEN simple_handlers ELSE info_handlers

\* "if (!handler) return;"
Check(r) ==
    /\ pc[r] \in {"simple", "info"}
    /\ IF entry(r) = Null
       THEN /\ pc' = [pc EXCEPT ![r] = "idle"]
            /\ outcome' = [outcome EXCEPT ![r] = "dropped"]
       ELSE /\ pc' = [pc EXCEPT ![r] = IF @ = "simple" THEN "calling simple" ELSE "calling info"]
            /\ UNCHANGED outcome
    /\ UNCHANGED <<disposition, tables, setter, history, expected>>

\* The entry is loaded again, and called.
Call(r) ==
    /\ pc[r] \in {"calling simple", "calling info"}
    /\ outcome' = [outcome EXCEPT ![r] = IF entry(r) = Null THEN "null called"
                                         ELSE IF entry(r) \in expected[r] THEN "expected called"
                                         ELSE "other called"]
    /\ pc' = [pc EXCEPT ![r] = "idle"]
    /\ UNCHANGED <<disposition, tables, setter, history, expected>>

ReceiverStep(r) == Deliver(r) \/ Check(r) \/ Call(r)

SigActionNext ==
    \/ \E t \in Setter : SetterStep(t)
    \/ \E r \in Receiver : ReceiverStep(r)

SigActionSpec == SigActionInit /\ [][SigActionNext]_sigActionVars

-----------------------------------------------------------------------------
(* Properties *)

Raw == {"none", "default", "ignore", "simple", "info", "foreign"}
ActionType == [raw : Raw, handler : Handler \union Special]

SigActionTypeOK ==
    /\ disposition \in Raw \ {"none"}
    /\ simple_handlers \in SimpleHandler \union {Null}
    /\ info_handlers \in InfoHandler \union {Null}
    /\ pc \in [Setter \union Receiver ->
                  {"idle", "loading", "storing", "clearing",
                   "simple", "info", "calling simple", "calling info"}]
    /\ arg \in [Setter -> ActionType]
    /\ raw_old \in [Setter -> Raw]
    /\ old \in [Setter -> ActionType]
    /\ inForce \in ActionType
    /\ used \subseteq Raw
    /\ expected \in [Receiver -> SUBSET (Handler \union Special)]
    /\ outcome \in [Receiver ->
                       {"none", "dropped", "expected called", "other called", "null called"}]

\* When no call is in progress, what the kernel delivers to and what is in
\* the tables belong to the last action that was set: no mixture of the
\* kinds of handlers, and of calls that restore an older action, leaves a
\* signal with an empty or an outdated entry.
TablesSettle ==
    (\A t \in Setter : pc[t] = "idle") =>
        inForce = updateFromOld(disposition, info_handlers, simple_handlers)

\* The action that a call returns is the one that was in force before,
\* so that setting it again restores it.
OldWasInForce ==
    [][\A t \in Setter : Load(t) => old'[t] = inForce]_sigActionVars

\* A program whose actions are all of one kind of handler: a signal ends up
\* in the callback that was in force at its delivery or in one that was set
\* since ("the new signal configuration can arrive at the old handler until we
\* rewrite the entries below"), and is dropped only if one of these actions
\* has no callback.
OneKindHandsOver ==
    used \in {{"simple"}, {"info"}} =>
        \A r \in Receiver :
            \/ outcome[r] \in {"none", "expected called"}
            \/ outcome[r] = "dropped" /\ expected[r] \intersect Special # {}

=============================================================================
