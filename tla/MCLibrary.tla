----------------------------- MODULE MCLibrary -----------------------------
(***************************************************************************)
(* The parts of the library that keep their state to themselves, in one    *)
(* instance for TLC.  They share no state and no calls, so that their      *)
(* interleavings would show nothing: a behaviour runs one of the parts,    *)
(* and the others rest in their initial state.                             *)
(***************************************************************************)
EXTENDS SigAction, PosixThread, MCRequests, Memory, MCFiles, MCAttributes, Privileges

VARIABLE part   \* the part that runs

libraryVars == <<part, sigActionVars, threadVars, requestVars, memoryVars, filesVars,
                 attributesVars, privilegesVars>>

Part == {"actions", "threads", "requests", "memory", "files", "attributes", "privileges"}

\* A part starts in one of its initial states; a part that does not run, in
\* one of them that is always the same.
InitLibrary ==
    /\ part \in Part
    /\ SigActionInit /\ (part # "actions" => disposition = "default")
    /\ ThreadInit
    /\ InitRequests
    /\ InitMemory
    /\ InitAttributes
    /\ InitPrivileges /\ (part # "privileges" => task[FirstProc].user = AsUser(ROOT, ROOT, ROOT))
    /\ IF part = "files" THEN InitFiles ELSE FilesAre([p \in FilePath |-> NoNode], <<>>, NoNode)

Actions ==
    /\ part = "actions" /\ SigActionNext
    /\ UNCHANGED <<part, threadVars, requestVars, memoryVars, filesVars, attributesVars, privilegesVars>>

Threads ==
    /\ part = "threads" /\ ThreadNext
    /\ UNCHANGED <<part, sigActionVars, requestVars, memoryVars, filesVars, attributesVars, privilegesVars>>

Requests ==
    /\ part = "requests" /\ NextRequests
    /\ UNCHANGED <<part, sigActionVars, threadVars, memoryVars, filesVars, attributesVars, privilegesVars>>

Mappings ==
    /\ part = "memory" /\ NextMemory
    /\ UNCHANGED <<part, sigActionVars, threadVars, requestVars, filesVars, attributesVars, privilegesVars>>

FilesPart ==
    /\ part = "files" /\ NextFiles
    /\ UNCHANGED <<part, sigActionVars, threadVars, requestVars, memoryVars, attributesVars, privilegesVars>>

AttributesPart ==
    /\ part = "attributes" /\ NextAttributes
    /\ UNCHANGED <<part, sigActionVars, threadVars, requestVars, memoryVars, filesVars, privilegesVars>>

PrivilegesPart ==
    /\ part = "privileges" /\ NextPrivileges
    /\ UNCHANGED <<part, sigActionVars, threadVars, requestVars, memoryVars, filesVars, attributesVars>>

NextLibrary ==
    Actions \/ Threads \/ Requests \/ Mappings \/ FilesPart \/ AttributesPart \/ PrivilegesPart

SpecLibrary == InitLibrary /\ [][NextLibrary]_libraryVars
=============================================================================
