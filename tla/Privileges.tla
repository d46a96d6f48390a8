----------------------------- MODULE Privileges -----------------------------
(***************************************************************************)
(* Privileges of processes: the functions of cosmos::proc and              *)
(* cosmos::prctl that change user IDs, capabilities, restrictions, limits  *)
(* and scheduling, and what becomes of them in fork() and exec().  The     *)
(* functions wrap one system call each; it is their sequence over several  *)
(* processes and programs that makes it hard to say what a program can     *)
(* still regain.                                                           *)
(* The rules of the kernel are here as far as these functions reach them:  *)
(* no file has capabilities, and nothing changes the inheritable set.      *)
(***************************************************************************)
EXTENDS Integers, FiniteSets

CONSTANTS
    Proc,         \* process IDs, the first of them among them
    FirstProc,
    UserId,       \* user IDs; 0 is ROOT
    SettingsUsed, \* the settings that the processes change
    Inheritable,  \* the inheritable capabilities, which nothing here changes
    LimitsUsed,   \* the names of the limits in LimitSettings that the processes use
    LimitValue,   \* and the values they set them to
    INFINITY,     \* the value of a limit that does not limit
    NiceValue,    \* nice values, and
    Priority,     \* realtime priorities that the processes set
    MaxChanges    \* bound: the number of calls

ASSUME PrivilegesAssumption ==
    /\ FirstProc \in Proc /\ IsFiniteSet(Proc)
    /\ UserId \subseteq Nat /\ 0 \in UserId
    /\ SettingsUsed \subseteq {"KEEP_CAPS", "NO_SETUID_FIXUP", "NOROOT", "NO_CAP_AMBIENT_RAISE"}
    /\ LimitValue \subseteq Nat /\ INFINITY \in Nat /\ \A l \in LimitValue : l <= INFINITY
    /\ NiceValue \subseteq -20 .. 19 /\ Priority \subseteq 1 .. 99
    /\ MaxChanges \in Nat

VARIABLES
    task,      \* the processes: IDs, capabilities and restrictions
    given_up,  \* history: what each process was told that it gave up or set
    changes    \* the number of calls

privilegesVars == <<task, given_up, changes>>

-----------------------------------------------------------------------------
(* Types *)

ROOT == 0
\* UserID::INVALID leaves an ID as it is.
INVALID == -1

\* Capabilities: those that other calls ask for, and one of the file systems.
Capability == {"SETUID", "SETPCAP", "SYS_RESOURCE", "SYS_NICE", "DAC_OVERRIDE"}

\* SecureBit: settings for the capabilities of ROOT, each with one that locks it.
SecureBit == {"KEEP_CAPS", "NO_SETUID_FIXUP", "NOROOT", "NO_CAP_AMBIENT_RAISE"}

MemoryWriteExecFlag == {"REFUSE_EXEC_GAIN", "NO_INHERIT"}

Ids(u) == {u.real, u.effective, u.saved}

AsUser(r, e, s) == [real |-> r, effective |-> e, saved |-> s, fs |-> e]

has(p, cap) == cap \in task[p].active

LimitType == {"ADDRESS_SPACE", "CORE", "CPU", "DATA", "FILE_SIZE", "LOCKS", "MEMLOCK", "MSGQUEUE",
              "NICE", "NUM_FILES", "NUM_PROCS", "RESIDENT_SET", "RT_PRIO", "RT_TIME", "SIGPENDING", "STACK"}

LimitSpec(soft, hard) == [soft |-> soft, hard |-> hard]

\* LimitSettings: the resource that the getter and the setter of a name pass.
ResourceOf ==
    [AddressSpace |-> "ADDRESS_SPACE", Data |-> "DATA", CoreDump |-> "CORE", CpuTime |-> "CPU",
     FileSize |-> "FILE_SIZE", Locks |-> "LOCKS", MemLock |-> "LOCKS", MsgQueue |-> "MSGQUEUE",
     Nice |-> "NICE", File |-> "NUM_FILES", Proc |-> "NUM_PROCS", RealtimePrio |-> "RT_PRIO",
     RealtimeTime |-> "RT_TIME", SigPending |-> "SIGPENDING", Stack |-> "STACK"]

ASSUME LimitsAssumption == LimitsUsed \subseteq DOMAIN ResourceOf

\* The kernel allows nobody without capabilities a better priority.
FirstLimit(type) == IF type \in {"NICE", "RT_PRIO"} THEN LimitSpec(0, 0) ELSE LimitSpec(INFINITY, INFINITY)

\* The policies that there are settings for: OTHER has a nice value, the others
\* have a priority above zero.
SchedulerPolicy == {"FIFO", "ROUND_ROBIN", "OTHER"}

minNiceValue == -20
maxNiceValue == 19
maxPriority == 99

\* Nothing is given up by a process whose IDs are those of the user.
Nothing(user) == [user |-> user, root |-> FALSE, bounding |-> {}, privs |-> FALSE, mdwe |-> {},
                  locked |-> {}, limits |-> [n \in LimitsUsed |-> FirstLimit(ResourceOf[n])],
                  nice |-> minNiceValue, priority |-> maxPriority]

\* A process of ROOT, or of a user who started a program of ROOT.
InitPrivileges ==
    /\ \E user \in {AsUser(ROOT, ROOT, ROOT), AsUser(1, ROOT, ROOT)} :
         /\ task = [p \in {FirstProc} |->
                [user |-> user, permitted |-> Capability, active |-> Capability, ambient |-> {},
                 bounding |-> Capability, secure |-> [set |-> {}, locked |-> {}], no_new_privs |-> FALSE, mdwe |-> {},
                 limits |-> [l \in LimitType |-> FirstLimit(l)],
                 sched |-> [policy |-> "OTHER", nice |-> 0, priority |-> 0]]]
         /\ given_up = [p \in {FirstProc} |-> Nothing(user)]
    /\ changes = 0

Changes(p, t, g) ==
    /\ task' = [task EXCEPT ![p] = t]
    /\ given_up' = [given_up EXCEPT ![p] = g]

\* A call that the kernel refuses throws an ApiError and changes nothing.
Only(p, t) == Changes(p, t, given_up[p])

-----------------------------------------------------------------------------
(* User IDs *)

\* The capabilities of a process whose IDs change.
Adjusted(t, user) ==
    LET lost == ROOT \in Ids(t.user) /\ ROOT \notin Ids(user)
        kept == IF lost /\ "KEEP_CAPS" \notin t.secure.set THEN {} ELSE t.permitted
        active == IF user.effective # ROOT /\ (t.user.effective = ROOT \/ (lost /\ kept = {})) THEN {}
                  ELSE IF user.effective = ROOT /\ t.user.effective # ROOT THEN kept ELSE t.active
    IN [t EXCEPT !.user = user,
                 !.permitted = IF "NO_SETUID_FIXUP" \in t.secure.set THEN @ ELSE kept,
                 !.active = IF "NO_SETUID_FIXUP" \in t.secure.set THEN @ ELSE active,
                 !.ambient = IF lost /\ "NO_SETUID_FIXUP" \notin t.secure.set THEN {} ELSE @]

\* Who has no ID of ROOT, but had one before, gave it up, unless the
\* capabilities are kept.
GivesUpRoot(t, user) ==
    /\ ROOT \in Ids(t.user) /\ ROOT \notin Ids(user)
    /\ {"KEEP_CAPS", "NO_SETUID_FIXUP"} \intersect t.secure.set = {}

Smaller(m, n) == IF m < n THEN m ELSE n
Larger(m, n) == IF m > n THEN m ELSE n

\* The best scheduling that a process without capabilities can get.
BestNice(t) == Smaller(t.sched.nice, 20 - t.limits["NICE"].hard)
BestPriority(t) == Larger(t.sched.priority, t.limits["RT_PRIO"].hard)

\* What the process gives up with its IDs.
GivenUp(g, t, user) ==
    IF GivesUpRoot(t, user)
    THEN [g EXCEPT !.user = user, !.root = TRUE, !.nice = BestNice(t), !.priority = BestPriority(t)]
    ELSE [g EXCEPT !.user = user]

Kept(old, new) == IF new = INVALID THEN old ELSE new

\* Mutant: setreuid() instead of setresuid(), which may leave the saved ID.
set_creds_TwoIds(p, r, e, s) ==
    LET t == task[p]
        asked == AsUser(Kept(t.user.real, r), Kept(t.user.effective, e), Kept(t.user.saved, s))
        user == [asked EXCEPT !.saved = t.user.saved]
    IN /\ has(p, "SETUID") \/ Ids(user) \subseteq Ids(t.user)
       /\ Changes(p, Adjusted(t, user), GivenUp(given_up[p], t, asked))

\* set_creds(): all three IDs in one call, and the one of the file systems.
set_creds(p, r, e, s) ==
    LET t == task[p]
        user == AsUser(Kept(t.user.real, r), Kept(t.user.effective, e), Kept(t.user.saved, s))
    IN /\ has(p, "SETUID") \/ Ids(user) \subseteq Ids(t.user)
       /\ Changes(p, Adjusted(t, user), GivenUp(given_up[p], t, user))

\* setfsuid() changes the ID, or silently does not.
setfsuid(p, uid) ==
    LET t == task[p]
        may == uid \in UserId /\ (has(p, "SETUID") \/ uid \in Ids(t.user) \union {t.user.fs})
        raised == IF uid = ROOT /\ t.user.fs # ROOT THEN t.permitted \intersect {"DAC_OVERRIDE"} ELSE {}
        lowered == IF uid # ROOT /\ t.user.fs = ROOT THEN {"DAC_OVERRIDE"} ELSE {}
    IN IF ~may THEN t
       ELSE [t EXCEPT !.user.fs = uid,
                      !.active = IF "NO_SETUID_FIXUP" \in t.secure.set THEN @ ELSE (@ \union raised) \ lowered]

\* Mutant: no second call asks whether the first one succeeded.
set_fs_user_id_Unchecked(p, uid) ==
    Changes(p, setfsuid(p, uid), [given_up[p] EXCEPT !.user.fs = uid])

\* set_fs_user_id() asks with an invalid ID, which changes nothing, for the
\* one that is in force, and throws if it is not the new one.
set_fs_user_id(p, uid) ==
    LET t == setfsuid(p, uid)
    IN Changes(p, t, [given_up[p] EXCEPT !.user.fs = IF t.user.fs = uid THEN uid ELSE @])

-----------------------------------------------------------------------------
(* Capabilities *)

raise_ambient_cap(p, cap) ==
    /\ cap \in task[p].permitted \intersect Inheritable
    /\ "NO_CAP_AMBIENT_RAISE" \notin task[p].secure.set
    /\ Only(p, [task[p] EXCEPT !.ambient = @ \union {cap}])

lower_ambient_cap(p, cap) == Only(p, [task[p] EXCEPT !.ambient = @ \ {cap}])

drop_all_ambient_caps(p) == Only(p, [task[p] EXCEPT !.ambient = {}])

drop_cap_from_bounding_set(p, cap) ==
    /\ has(p, "SETPCAP")
    /\ Changes(p, [task[p] EXCEPT !.bounding = @ \ {cap}], [given_up[p] EXCEPT !.bounding = @ \union {cap}])

get_cap_in_bounding_set(p, cap) == cap \in task[p].bounding

\* set_secure_bits(): locks last, and so do the settings that are locked.
set_secure_bits(p, bits) ==
    LET old == task[p].secure
    IN /\ has(p, "SETPCAP")
       /\ old.locked \subseteq bits.locked
       /\ old.locked \intersect old.set = old.locked \intersect bits.set
       /\ Changes(p, [task[p] EXCEPT !.secure = bits],
                  [given_up[p] EXCEPT !.locked = {<<b, b \in bits.set>> : b \in bits.locked}])

get_secure_bits(p) == task[p].secure

-----------------------------------------------------------------------------
(* Restrictions *)

set_no_new_privs(p) ==
    Changes(p, [task[p] EXCEPT !.no_new_privs = TRUE], [given_up[p] EXCEPT !.privs = TRUE])

get_no_new_privs(p) == task[p].no_new_privs

\* set_memory_write_exec_flags(): once they are set they do not change.
set_memory_write_exec_flags(p, flags) ==
    /\ "NO_INHERIT" \in flags => "REFUSE_EXEC_GAIN" \in flags
    /\ task[p].mdwe \in {{}, flags}
    /\ Changes(p, [task[p] EXCEPT !.mdwe = flags], [given_up[p] EXCEPT !.mdwe = flags])

get_memory_write_exec_flags(p) == task[p].mdwe

Passed(flags) == IF "NO_INHERIT" \in flags THEN {} ELSE flags

-----------------------------------------------------------------------------
(* Limits and scheduling, of the process itself or of another one *)

\* get_limit()
get_limit(q, type) == task[q].limits[type]

\* set_limit(): the IDs of the other process must be those of the caller.
set_limit(p, q, type, spec) ==
    /\ p = q \/ has(p, "SYS_RESOURCE") \/ Ids(task[q].user) = {task[p].user.real}
    /\ spec.soft <= spec.hard
    /\ spec.hard <= get_limit(q, type).hard \/ has(p, "SYS_RESOURCE")

Limited(q, type, spec) == [task[q] EXCEPT !.limits[type] = spec]

\* Mutant: the settings of another process are applied to the caller.
setLimit_Self(p, q, name, spec) ==
    LET type == ResourceOf[name]
    IN /\ set_limit(p, p, type, spec)
       /\ task' = [task EXCEPT ![p] = Limited(p, type, spec)]
       /\ given_up' = [given_up EXCEPT ![q].limits[name] = spec]

\* The getters of LimitSettings
getLimit(q, name) == get_limit(q, ResourceOf[name])

\* The setters of LimitSettings.  Who has the capability may give back more
\* than the process gave up.
setLimit(p, q, name, spec) ==
    LET type == ResourceOf[name]
        t == Limited(q, type, spec)
        g == [given_up[q] EXCEPT !.limits[name] = spec]
    IN /\ set_limit(p, q, type, spec)
       /\ Changes(q, t, IF has(p, "SYS_RESOURCE")
                         THEN [g EXCEPT !.nice = Smaller(@, BestNice(t)), !.priority = Larger(@, BestPriority(t))]
                         ELSE g)

\* A nice value that was not set is one above the largest.
INVALID_NICE_PRIO == maxNiceValue + 1

OtherSchedulerSettings(nice) == [policy |-> "OTHER", nice |-> nice, priority |-> 0]

RealTimeSchedulerSettings(policy, priority) == [policy |-> policy, nice |-> 0, priority |-> priority]

\* sched_setattr(): nice values are moved into their range; a realtime policy
\* leaves the nice value as it is.
Scheduled(t, attrs) ==
    [t EXCEPT !.sched =
        [policy |-> attrs.policy, priority |-> attrs.priority,
         nice |-> IF attrs.policy = "OTHER" THEN Smaller(attrs.nice, maxNiceValue) ELSE @.nice]]

\* Without the capability a process gets nothing better than its limits allow.
MaySchedule(p, q, attrs) ==
    LET t == task[q]
        new == Scheduled(t, attrs).sched
        rt_prio == get_limit(q, "RT_PRIO").soft
    IN \/ has(p, "SYS_NICE")
       \/ /\ task[p].user.effective \in {t.user.real, t.user.effective}
          /\ new.nice >= t.sched.nice \/ new.nice >= 20 - get_limit(q, "NICE").soft
          /\ attrs.policy # "OTHER" =>
               /\ attrs.policy = t.sched.policy \/ rt_prio > 0
               /\ attrs.priority <= Larger(t.sched.priority, rt_prio)

\* SchedulerSettings::apply()
apply(p, q, attrs) ==
    LET t == Scheduled(task[q], attrs)
    IN /\ MaySchedule(p, q, attrs)
       /\ Changes(q, t, IF has(p, "SYS_NICE")
                         THEN [given_up[q] EXCEPT !.nice = Smaller(@, t.sched.nice),
                                                  !.priority = Larger(@, t.sched.priority)]
                         ELSE given_up[q])

-----------------------------------------------------------------------------
(* Processes and programs *)

\* fork(): the child has everything but the flags that are not inherited.
fork(p, c) ==
    /\ c \in Proc \ DOMAIN task
    /\ task' = [q \in DOMAIN task \union {c} |->
                  IF q = c THEN [task[p] EXCEPT !.mdwe = Passed(@)]
                  ELSE task[q]]
    /\ given_up' = [q \in DOMAIN task \union {c} |->
                      IF q = c THEN [given_up[p] EXCEPT !.mdwe = Passed(@)] ELSE given_up[q]]

\* The program of ROOT changes the effective ID, unless no_new_privs says that
\* nothing is gained; then the effective ID becomes the real one.
Executed(t, image) ==
    LET e0 == IF image = "setuid-root" /\ ~t.no_new_privs THEN ROOT ELSE t.user.effective
        setid == e0 # t.user.real
        full == "NOROOT" \notin t.secure.set /\ ROOT \in {e0, t.user.real}
        file == (IF full THEN t.bounding \union Inheritable ELSE {}) \union (IF setid THEN {} ELSE t.ambient)
        gains == setid \/ ~(file \subseteq t.permitted)
        e == IF gains /\ t.no_new_privs THEN t.user.real ELSE e0
        permitted == IF gains /\ t.no_new_privs THEN file \intersect t.permitted ELSE file
        ambient == IF setid THEN {} ELSE t.ambient
    IN [t EXCEPT !.user = [AsUser(@.real, e, e) EXCEPT !.fs = e],
                 !.permitted = permitted \union ambient,
                 !.ambient = ambient,
                 !.active = IF full /\ e0 = ROOT THEN permitted \union ambient ELSE ambient,
                 !.secure.set = @ \ {"KEEP_CAPS"},
                 !.mdwe = Passed(@)]

\* exec(), exec_at(), fexec(): a call that fails throws and changes nothing.
\* What was given up stays so in the new program, except that a program of
\* ROOT has what ROOT has if there was no no_new_privs.
exec(p, image) ==
    LET t == Executed(task[p], image)
        g == given_up[p]
    IN Changes(p, t, [g EXCEPT !.user = t.user,
                               !.root = @ /\ (image = "plain" \/ g.privs),
                               !.mdwe = Passed(@),
                               !.locked = {l \in @ : l # <<"KEEP_CAPS", TRUE>>}])

\* exit(), and a wait() of the parent.
Ends(p) ==
    /\ p # FirstProc
    /\ task' = [q \in DOMAIN task \ {p} |-> task[q]]
    /\ given_up' = [q \in DOMAIN task \ {p} |-> given_up[q]]

\* Settings are changed or locked one at a time.
OneMore(old) ==
    {[old EXCEPT !.set = @ \union {b}] : b \in SettingsUsed}
      \union {[old EXCEPT !.set = @ \ {b}] : b \in SettingsUsed}
      \union {[old EXCEPT !.locked = @ \union {b}] : b \in SettingsUsed}
      \union {[old EXCEPT !.locked = @ \ {b}] : b \in SettingsUsed}

Specs == {LimitSpec(soft, hard) : soft, hard \in LimitValue}

Settings ==
    {OtherSchedulerSettings(nice) : nice \in NiceValue \union {INVALID_NICE_PRIO}}
      \union {RealTimeSchedulerSettings(policy, n) : policy \in SchedulerPolicy \ {"OTHER"}, n \in Priority}

NextPrivileges ==
    /\ changes < MaxChanges
    /\ changes' = changes + 1
    /\ \E p \in DOMAIN task :
         \/ \E r, e, s \in UserId \union {INVALID} : set_creds(p, r, e, s)
         \/ \E uid \in UserId \union {INVALID} : set_fs_user_id(p, uid)
         \/ \E cap \in Capability :
              raise_ambient_cap(p, cap) \/ lower_ambient_cap(p, cap) \/ drop_cap_from_bounding_set(p, cap)
         \/ drop_all_ambient_caps(p)
         \/ \E bits \in OneMore(task[p].secure) : set_secure_bits(p, bits)
         \/ set_no_new_privs(p)
         \/ \E flags \in SUBSET MemoryWriteExecFlag : set_memory_write_exec_flags(p, flags)
         \/ \E q \in DOMAIN task : \/ \E name \in LimitsUsed, spec \in Specs : setLimit(p, q, name, spec)
                                   \/ \E attrs \in Settings : apply(p, q, attrs)
         \/ \E c \in Proc : fork(p, c)
         \/ \E image \in {"plain", "setuid-root"} : exec(p, image)
         \/ Ends(p)

SpecPrivileges == InitPrivileges /\ [][NextPrivileges]_privilegesVars

-----------------------------------------------------------------------------
(* Properties *)

\* get_creds() and get_fs_user_id() return what the last set_creds(), or the
\* last set_fs_user_id() that did not throw, set.  A process that gave up ROOT
\* is not ROOT again, and cannot become it, whatever it or its children call
\* and execute later, until somebody executes a program of ROOT without
\* no_new_privs.  no_new_privs, the capabilities missing in the bounding set,
\* the locked settings, and the flags for memory that are inherited, last.  A
\* getter of LimitSettings returns what the setter of the same name set for
\* this process or, before its fork(), for its parent, except that the locks
\* and the locked memory share one limit; and who gave up ROOT is not
\* scheduled better than it was, or than its hard limits allowed, until
\* somebody with the capability allows it.
RestrictionsLast ==
    \A p \in DOMAIN task :
        LET g == given_up[p]
        IN /\ task[p].user = g.user
           /\ g.root => /\ ROOT \notin Ids(task[p].user) \union {task[p].user.fs}
                        /\ ~has(p, "SETUID")
                        /\ task[p].sched.nice >= g.nice /\ task[p].sched.priority <= g.priority
           /\ \A name \in LimitsUsed : getLimit(p, name) \in
                {g.limits[n] : n \in {m \in LimitsUsed : ResourceOf[m] = ResourceOf[name]}}
           /\ \A cap \in g.bounding : ~get_cap_in_bounding_set(p, cap)
           /\ g.privs => get_no_new_privs(p)
           /\ g.mdwe = get_memory_write_exec_flags(p)
           /\ \A l \in g.locked : (l[1] \in get_secure_bits(p).set) = l[2]
=============================================================================
