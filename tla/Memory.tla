------------------------------- MODULE Memory -------------------------------
(***************************************************************************)
(* cosmos::Mapping: objects that own a memory mapping, on top of the calls *)
(* of cosmos::mem.  The kernel works on whole pages, an object knows an    *)
(* address and a size, which need not be a multiple of the page size.      *)
(*                                                                         *)
(* Sizes are counted in halves of a page.  The mappings are private and    *)
(* anonymous; what is in the pages is left out.                            *)
(***************************************************************************)
EXTENDS Integers, FiniteSets

CONSTANTS
    Mapping,     \* the Mapping objects of the program
    LastPage,    \* the address space has the pages 1 .. LastPage
    MaxSize,     \* bound: the sizes asked for, in halves of a page
    MovesOnto,   \* clients also move onto valid objects, and onto themselves
    UnmapFails   \* bound: how often munmap() fails, for too many mappings

ASSUME MemoryAssumption ==
    /\ IsFiniteSet(Mapping)
    /\ LastPage \in Nat /\ MaxSize \in Nat /\ UnmapFails \in Nat
    /\ MovesOnto \in BOOLEAN

VARIABLES
    pages,      \* kernel: the mapped pages, with their access and lock
    lockFuture, \* kernel: new mappings are locked
    m_addr,     \* Mapping::m_addr, 0 for nullptr
    m_size,     \* Mapping::m_size
    asked,      \* history: the access and lock that were asked for last
    left,       \* history: pages that an object gave up, or did not get rid of
    failures,   \* bound: failures of munmap()
    terminated  \* an exception has left a destructor

objects == <<m_addr, m_size>>
memoryVars == <<pages, lockFuture, m_addr, m_size, asked, left, failures, terminated>>

Page == 1 .. LastPage
Size == 1 .. MaxSize

Unmapped == [access |-> "unmapped", locked |-> FALSE]
Access == {"READ", "READ WRITE"}

\* The pages from an address on that a size takes up.
Span(addr, size) == {p \in Page : addr <= p /\ p < addr + (size + 1) \div 2}

valid(o) == m_addr[o] # 0

PagesOf(o) == IF valid(o) THEN Span(m_addr[o], m_size[o]) ELSE {}

Claimed == UNION {PagesOf(o) : o \in Mapping}

\* The addresses where a mapping of this size fits into free pages.
Fits(size, free) ==
    {a \in Page : a + (size + 1) \div 2 - 1 <= LastPage /\ Span(a, size) \subseteq free}

FreePages == {p \in Page : pages[p] = Unmapped}

WithPages(table, ps, attributes) == [p \in Page |-> IF p \in ps THEN attributes ELSE table[p]]

-----------------------------------------------------------------------------
(* Mapping: creation, moves, and the end *)

InitMemory ==
    /\ pages = [p \in Page |-> Unmapped]
    /\ lockFuture = FALSE
    /\ m_addr = [o \in Mapping |-> 0]
    /\ m_size = [o \in Mapping |-> 0]
    /\ asked = [o \in Mapping |-> Unmapped]
    /\ left = {}
    /\ failures = 0
    /\ terminated = FALSE

\* Mapping(size, settings): at any place, or with FIXED_NOREPLACE at the
\* client's; a place that is taken, like lack of memory, throws.
Map(o, size, access) ==
    /\ ~valid(o)
    /\ \E addr \in Fits(size, FreePages) :
         LET attributes == [access |-> access, locked |-> lockFuture]
         IN /\ pages' = WithPages(pages, Span(addr, size), attributes)
            /\ m_addr' = [m_addr EXCEPT ![o] = addr]
            /\ m_size' = [m_size EXCEPT ![o] = size]
            /\ asked' = [asked EXCEPT ![o] = attributes]
    /\ UNCHANGED <<lockFuture, left, failures, terminated>>

\* Mutant: the source keeps its address.
MoveMapping_KeepsSource(to, from) ==
    /\ MovesOnto \/ ~valid(to)
    /\ m_addr' = [m_addr EXCEPT ![to] = m_addr[from]]
    /\ m_size' = [m_size EXCEPT ![to] = m_size[from]]
    /\ asked' = [asked EXCEPT ![to] = asked[from]]
    /\ left' = left \union PagesOf(to)
    /\ UNCHANGED <<pages, lockFuture, failures, terminated>>

\* operator=(Mapping&&) and the move constructor: what the target had, also
\* if that is the source itself, is forgotten without an unmap().
MoveMapping(to, from) ==
    /\ MovesOnto \/ (~valid(to) /\ to # from)
    /\ m_addr' = [[m_addr EXCEPT ![to] = m_addr[from]] EXCEPT ![from] = 0]
    /\ m_size' = [[m_size EXCEPT ![to] = m_size[from]] EXCEPT ![from] = 0]
    /\ asked' = [asked EXCEPT ![to] = asked[from]]
    /\ left' = left \union PagesOf(to)
    /\ UNCHANGED <<pages, lockFuture, failures, terminated>>

\* invalidate() after mem::unmap(), whether that worked or not.
Unmap(o, works) ==
    /\ valid(o)
    /\ works \/ failures < UnmapFails
    /\ m_addr' = [m_addr EXCEPT ![o] = 0]
    /\ m_size' = [m_size EXCEPT ![o] = 0]
    /\ pages' = IF works THEN WithPages(pages, PagesOf(o), Unmapped) ELSE pages
    /\ left' = IF works THEN left ELSE left \union PagesOf(o)
    /\ failures' = IF works THEN failures ELSE failures + 1
    /\ UNCHANGED <<lockFuture, asked>>

\* unmap(): the caller gets the exception.
unmap(o) == \E works \in BOOLEAN : Unmap(o, works) /\ UNCHANGED terminated

\* ~Mapping(): an exception ends the program.
DestroyMapping(o) == \E works \in BOOLEAN : Unmap(o, works) /\ terminated' = ~works

-----------------------------------------------------------------------------
(* Mapping: changes of a mapping *)

\* Mutant: the size is not updated.
Remapped_OldSize(o, addr, size) ==
    /\ m_addr' = [m_addr EXCEPT ![o] = addr]
    /\ UNCHANGED m_size

Remapped(o, addr, size) ==
    /\ m_addr' = [m_addr EXCEPT ![o] = addr]
    /\ m_size' = [m_size EXCEPT ![o] = size]

\* The combinations that the kernel accepts for private pages; FIXED comes
\* with an address, and the others come without one, or UsageError is thrown.
RemapFlags == {{}, {"MAYMOVE"}, {"MAYMOVE", "FIXED"}, {"MAYMOVE", "DONTUNMAP"}}

\* remap(): the mapping shrinks or grows where it is, or is moved to another
\* place with MAYMOVE, or to the given one with FIXED, which replaces what is
\* there, but not pages that an object claims.  With DONTUNMAP the old pages
\* stay, for the client to use; MAP_FAILED, which is passed for the missing
\* address, makes some kernels refuse this.  The new pages are like the old
\* ones.  A call that throws changes nothing.
remap(o, size, flags) ==
    LET mine == PagesOf(o)
        attributes == pages[m_addr[o]]
        inPlace == IF m_addr[o] \in Fits(size, FreePages \union mine) THEN {m_addr[o]} ELSE {}
        elsewhere == Fits(size, FreePages)
        replacing == Fits(size, Page \ Claimed)
        places == CASE flags = {} -> inPlace
                    [] flags = {"MAYMOVE"} -> IF inPlace # {} THEN inPlace ELSE elsewhere
                    [] flags = {"MAYMOVE", "FIXED"} -> replacing
                    [] flags = {"MAYMOVE", "DONTUNMAP"} -> IF size = m_size[o] THEN elsewhere ELSE {}
        kept == IF "DONTUNMAP" \in flags THEN mine ELSE {}
    IN /\ valid(o)
       /\ \E addr \in places :
            /\ pages' = WithPages(WithPages(pages, mine \ kept, Unmapped),
                                  Span(addr, size), attributes)
            /\ left' = (left \ Span(addr, size)) \union kept
            /\ Remapped(o, addr, size)
       /\ UNCHANGED <<lockFuture, asked, failures, terminated>>

\* lock(), unlock() and setProtection() set an attribute of all pages.
Change(o, attributes) ==
    /\ valid(o)
    /\ pages' = WithPages(pages, PagesOf(o), attributes)
    /\ asked' = [asked EXCEPT ![o] = attributes]
    /\ UNCHANGED <<lockFuture, objects, left, failures, terminated>>

lock(o) == Change(o, [asked[o] EXCEPT !.locked = TRUE])
unlock(o) == Change(o, [asked[o] EXCEPT !.locked = FALSE])
setProtection(o, access) == Change(o, [asked[o] EXCEPT !.access = access])

LockAllFlags == {{"CURRENT"}, {"FUTURE"}, {"CURRENT", "FUTURE"}}

AllLocked(locked) ==
    /\ pages' = [p \in Page |-> IF p \in FreePages THEN pages[p] ELSE [pages[p] EXCEPT !.locked = locked]]
    /\ asked' = [o \in Mapping |-> IF valid(o) THEN [asked[o] EXCEPT !.locked = locked] ELSE asked[o]]

\* mem::lock_all() and mem::unlock_all(), for the whole process.
lock_all(flags) ==
    /\ lockFuture' = ("FUTURE" \in flags)
    /\ IF "CURRENT" \in flags THEN AllLocked(TRUE) ELSE UNCHANGED <<pages, asked>>
    /\ UNCHANGED <<objects, left, failures, terminated>>

unlock_all ==
    /\ lockFuture' = FALSE
    /\ AllLocked(FALSE)
    /\ UNCHANGED <<objects, left, failures, terminated>>

NextMemory ==
    /\ ~terminated
    /\ \/ \E o \in Mapping :
            \/ \E size \in Size, access \in Access : Map(o, size, access)
            \/ \E from \in Mapping : MoveMapping(o, from)
            \/ unmap(o) \/ DestroyMapping(o)
            \/ \E size \in Size, flags \in RemapFlags : remap(o, size, flags)
            \/ lock(o) \/ unlock(o)
            \/ \E access \in Access : setProtection(o, access)
       \/ \E flags \in LockAllFlags : lock_all(flags)
       \/ unlock_all

SpecMemory == InitMemory /\ [][NextMemory]_memoryVars

-----------------------------------------------------------------------------
(* Properties *)

\* The pages that a valid object takes itself to own are mapped, are no other
\* object's, and none that was given up: unmap(), remap() and the destructor
\* never reach memory of somebody else.  A page that is mapped is owned, or was
\* left behind by a move onto a valid object, a failing unmap() or DONTUNMAP.
MemoryIsOwned ==
    /\ \A o \in Mapping :
         /\ PagesOf(o) \intersect (FreePages \union left) = {}
         /\ \A p \in Mapping \ {o} : PagesOf(o) \intersect PagesOf(p) = {}
    /\ Page \ FreePages = Claimed \union left

\* All pages of an object have the access and the lock that were asked for
\* last, through this object, or the one it was moved from, or for the whole
\* process, after the mapping has grown or moved, too ("Resizing or moving a
\* mapping that is currently locked will cause the new mapping also to be
\* locked").
PagesAreAsAsked == \A o \in Mapping : \A p \in PagesOf(o) : pages[p] = asked[o]
=============================================================================
