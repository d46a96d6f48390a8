----------------------------- MODULE MCSignals -----------------------------
(***************************************************************************)
(* An instance of Signals for TLC: every origin of a signal, and special,  *)
(* plain and real-time signals where an origin admits them.                *)
(***************************************************************************)
EXTENDS Signals, TLC

FromOutside ==
    {Info("USR1", Code.USER, "kill"), Info("CHILD", Code.USER, "kill"),
     Info("RT_MIN", Code.QUEUE, "sigqueue"), Info("CHILD", Code.QUEUE, "sigqueue"),
     Info("USR1", Code.TKILL, "tgkill"), Info("POLL", Code.TIMER, "timer"),
     Info("USR1", Code.MESGQ, "mqueue"), Info("POLL", 1, "io"), Info("RT_MIN", 6, "io"),
     Info("CHILD", Code.QSIGIO, "io"), Info("POLL", Code.KERNEL, "plain")}

ByInstruction ==
    {Info("SEGV", 1, "fault"), Info("SEGV", Code.BOUND_ERROR, "bounds"),
     Info("SEGV", Code.PROT_KEY_ERROR, "pkey"), Info("BUS", 1, "fault"),
     Info("BUS", Code.MCE_ACTION_REQUIRED, "memory"), Info("ILL", 2, "fault"),
     Info("FPE", 1, "fault"), Info("TRAP", 1, "fault"), Info("BAD_SYS", 1, "seccomp")}

AllSendable == FromOutside \union ByInstruction

Sets == {{}, {"CHILD"}, {"CHILD", "USR1", "POLL", "RT_MIN"}}

Symmetry == Permutations(Thread) \union Permutations(Child)
=============================================================================
