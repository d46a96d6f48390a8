---------------------------- MODULE PartsProofs ----------------------------
(***************************************************************************)
(* Proofs about parts of the library that keep their state to themselves.  *)
(* Memory: an object reaches no pages but its own, and these are as they   *)
(* were asked for, for any address space, objects and sizes.               *)
(* Requests: the answers of ptrace() are told from its errors, for any     *)
(* words that the tracee holds, -1 included.                               *)
(* PosixThread: handles of threads, for any objects and pthread_t values.  *)
(* SigAction: asynchronous signal handlers, for any handlers and receivers.*)
(* Messages: descriptors sent along with data, for any files and numbers.  *)
(* Files: answers of calls on files that others change meanwhile, for any  *)
(* paths, inodes, modes and texts, and any number of changes.              *)
(* StreamIO: partial transfers, for any vectors and any size of the pipe.  *)
(***************************************************************************)
EXTENDS Memory, Requests, PosixThread, SigAction, Messages, Files, StreamIO,
        FiniteSetTheorems, SequenceTheorems, WellFoundedInduction, TLAPS

-----------------------------------------------------------------------------
(* Memory: the inductive invariant *)

MappedPage == [access : Access, locked : BOOLEAN]
SomePage == {Unmapped} \union MappedPage

MemoryTyped ==
    /\ pages \in [Page -> SomePage]
    /\ lockFuture \in BOOLEAN
    /\ m_addr \in [Mapping -> {0} \union Page]
    /\ m_size \in [Mapping -> Nat]
    /\ asked \in [Mapping -> SomePage]
    /\ left \subseteq Page

\* What a valid object takes itself to own is there as a whole, and not empty.
MappingsFit ==
    \A o \in Mapping : valid(o) =>
        /\ m_size[o] \in Size
        /\ m_addr[o] + (m_size[o] + 1) \div 2 - 1 <= LastPage
        /\ asked[o] \in MappedPage

\* The ownership of pages, page by page.
OwnedPages ==
    /\ \A o \in Mapping : \A p \in PagesOf(o) :
         /\ p \in Page /\ pages[p] # Unmapped /\ p \notin left
         /\ \A q \in Mapping \ {o} : p \notin PagesOf(q)
    /\ \A p \in Page : pages[p] # Unmapped <=> p \in left \/ \E o \in Mapping : p \in PagesOf(o)

MemoryInv == MemoryTyped /\ MappingsFit /\ OwnedPages /\ PagesAreAsAsked

-----------------------------------------------------------------------------
(* Memory: lemmas *)

\* A mapping takes up at least the page that it starts with (Fits, PagesOf).
LEMMA SpanStarts ==
    ASSUME NEW extent \in Size, NEW addr \in Page
    PROVE  addr \in Span(addr, extent)
    BY DEF Size, Page, Span

\* What is not mapped is not a mapped page.
LEMMA UnmappedIsNone == Unmapped \notin MappedPage
    BY DEF Unmapped, MappedPage, Access

\* The kernel's table after a call has set the attributes of pages (WithPages).
LEMMA TableOf ==
    ASSUME NEW before \in [Page -> SomePage], NEW ps, NEW attributes \in SomePage
    PROVE  /\ WithPages(before, ps, attributes) \in [Page -> SomePage]
           /\ \A p \in Page : WithPages(before, ps, attributes)[p]
                                 = IF p \in ps THEN attributes ELSE before[p]
    BY DEF WithPages

\* This is what the property says (MemoryIsOwned).
LEMMA PageByPage == OwnedPages /\ left \subseteq Page => MemoryIsOwned
<1> SUFFICES ASSUME OwnedPages, left \subseteq Page PROVE MemoryIsOwned
  OBVIOUS
<1>1. \A p : p \in Claimed <=> \E o \in Mapping : p \in PagesOf(o)
  BY DEF Claimed
<1>2. \A p : p \in FreePages <=> p \in Page /\ pages[p] = Unmapped
  BY DEF FreePages
<1>3. \A o \in Mapping : PagesOf(o) \intersect (FreePages \union left) = {}
  BY <1>2 DEF OwnedPages
<1>4. \A o \in Mapping : \A p \in Mapping \ {o} : PagesOf(o) \intersect PagesOf(p) = {}
  BY DEF OwnedPages
<1>5. \A p : p \in Page \ FreePages <=> p \in Claimed \union left
  BY <1>1, <1>2 DEF OwnedPages
<1>6. Page \ FreePages = Claimed \union left
  BY <1>5
<1> QED BY <1>3, <1>4, <1>6 DEF MemoryIsOwned

-----------------------------------------------------------------------------
(* Memory: steps *)

\* An object that gets another address and size, or none, keeps the invariant
\* if its new pages were not another object's, its old ones are unmapped or
\* left behind, and nothing else changes (Map, Unmap, remap).
LEMMA Resettled ==
    ASSUME MemoryInv, NEW o \in Mapping, NEW addr \in {0} \union Page, NEW extent \in Nat, NEW new,
           m_addr' = [m_addr EXCEPT ![o] = addr], m_size' = [m_size EXCEPT ![o] = extent],
           new = IF addr = 0 THEN {} ELSE Span(addr, extent),
           addr # 0 => /\ extent \in Size /\ addr + (extent + 1) \div 2 - 1 <= LastPage
                       /\ asked'[o] \in MappedPage,
           \A q \in Mapping \ {o} : new \intersect PagesOf(q) = {},
           pages' \in [Page -> SomePage],
           \A p \in new : pages'[p] = asked'[o],
           \A p \in Page \ new : pages'[p] =
               IF p \in PagesOf(o) /\ p \notin left' THEN Unmapped ELSE pages[p],
           left' \subseteq Page, left' \intersect new = {},
           left \ new \subseteq left', left' \subseteq left \union PagesOf(o),
           asked' \in [Mapping -> SomePage], \A q \in Mapping \ {o} : asked'[q] = asked[q],
           lockFuture' = lockFuture
    PROVE  MemoryInv'
<1>1. MemoryTyped /\ MappingsFit /\ OwnedPages /\ PagesAreAsAsked
  BY DEF MemoryInv
<1>2. /\ m_addr' \in [Mapping -> {0} \union Page] /\ m_size' \in [Mapping -> Nat]
      /\ m_addr'[o] = addr /\ m_size'[o] = extent
      /\ \A q \in Mapping \ {o} : m_addr'[q] = m_addr[q] /\ m_size'[q] = m_size[q]
  BY <1>1 DEF MemoryTyped
<1>3. /\ (PagesOf(o))' = new
      /\ \A q \in Mapping \ {o} : (PagesOf(q))' = PagesOf(q)
  BY <1>2 DEF PagesOf, valid, Span, Page
<1>4. new \subseteq Page
  BY DEF Span
<1>5. MemoryTyped'
  BY <1>1, <1>2 DEF MemoryTyped
<1>6. MappingsFit'
  BY <1>1, <1>2 DEF MappingsFit, valid, Size
<1>7. ASSUME NEW q \in Mapping, NEW p \in (PagesOf(q))'
      PROVE  /\ p \in Page /\ pages'[p] # Unmapped /\ p \notin left'
             /\ \A r \in Mapping \ {q} : p \notin (PagesOf(r))'
             /\ pages'[p] = asked'[q]
  <2>1. CASE q = o
    <3>1. p \in new /\ addr # 0
      BY <1>3, <1>7, <2>1
    <3>2. pages'[p] = asked'[o] /\ asked'[o] \in MappedPage
      BY <3>1
    <3> QED BY <1>3, <1>4, <2>1, <3>1, <3>2, UnmappedIsNone
  <2>2. CASE q # o
    <3>1. /\ p \in PagesOf(q) /\ p \in Page /\ p \notin new /\ p \notin PagesOf(o)
          /\ p \notin left /\ pages[p] # Unmapped
          /\ \A r \in Mapping \ {q} : p \notin PagesOf(r)
      BY <1>1, <1>3, <1>7, <2>2 DEF OwnedPages
    <3>2. pages'[p] = pages[p] /\ pages[p] = asked[q]
      BY <1>1, <3>1 DEF PagesAreAsAsked
    <3> QED BY <1>3, <2>2, <3>1, <3>2
  <2> QED BY <2>1, <2>2
<1>8. ASSUME NEW p \in Page
      PROVE  pages'[p] # Unmapped <=> p \in left' \/ \E q \in Mapping : p \in (PagesOf(q))'
  <2>1. CASE p \in new
    BY <1>3, <1>7, <2>1
  <2>2. CASE p \notin new
    <3>1. pages[p] # Unmapped <=> p \in left \/ \E q \in Mapping : p \in PagesOf(q)
      BY <1>1 DEF OwnedPages
    <3>2. p \in PagesOf(o) => pages[p] # Unmapped /\ \A q \in Mapping \ {o} : p \notin PagesOf(q)
      BY <1>1 DEF OwnedPages
    <3>3. p \in left => p \in left'
      BY <2>2
    <3>4. p \in left' => p \in left \/ p \in PagesOf(o)
      OBVIOUS
    <3>5. CASE p \in PagesOf(o)
      BY <1>3, <2>2, <3>2, <3>5
    <3>6. CASE p \notin PagesOf(o)
      BY <1>3, <2>2, <3>1, <3>3, <3>4, <3>6
    <3> QED BY <3>5, <3>6
  <2> QED BY <2>1, <2>2
<1>9. OwnedPages' /\ PagesAreAsAsked'
  BY <1>7, <1>8 DEF OwnedPages, PagesAreAsAsked
<1> QED BY <1>5, <1>6, <1>9 DEF MemoryInv

\* A mapping is made where no page is mapped (the constructor Mapping()).
LEMMA MapKeeps ==
    ASSUME MemoryInv, NEW o \in Mapping, NEW extent \in Size, NEW access \in Access,
           Map(o, extent, access)
    PROVE  MemoryInv'
<1>1. PICK addr \in Fits(extent, FreePages) :
        LET attributes == [access |-> access, locked |-> lockFuture]
        IN  /\ pages' = WithPages(pages, Span(addr, extent), attributes)
            /\ m_addr' = [m_addr EXCEPT ![o] = addr]
            /\ m_size' = [m_size EXCEPT ![o] = extent]
            /\ asked' = [asked EXCEPT ![o] = attributes]
  BY DEF Map
<1> DEFINE attributes == [access |-> access, locked |-> lockFuture]
           new == Span(addr, extent)
<1>2. MemoryTyped /\ OwnedPages
  BY DEF MemoryInv
<1>3. attributes \in MappedPage /\ attributes \in SomePage
  BY <1>2 DEF MemoryTyped, MappedPage, SomePage
<1> HIDE DEF attributes
<1>4. /\ addr \in Page /\ addr # 0 /\ addr + (extent + 1) \div 2 - 1 <= LastPage
      /\ new \subseteq FreePages /\ extent \in Nat
  BY <1>1 DEF Fits, Page, Size
<1>5. \A p \in new : p \in Page /\ pages[p] = Unmapped
  BY <1>4 DEF FreePages
<1>6. /\ pages' = WithPages(pages, new, attributes) /\ asked' = [asked EXCEPT ![o] = attributes]
      /\ left' = left /\ lockFuture' = lockFuture /\ PagesOf(o) = {}
  BY <1>1 DEF Map, attributes, PagesOf
<1>7. /\ pages' \in [Page -> SomePage]
      /\ \A p \in Page : pages'[p] = IF p \in new THEN attributes ELSE pages[p]
  BY <1>2, <1>3, <1>6, TableOf DEF MemoryTyped
<1>8. /\ asked' \in [Mapping -> SomePage] /\ asked'[o] = attributes
      /\ \A q \in Mapping \ {o} : asked'[q] = asked[q]
  BY <1>2, <1>3, <1>6 DEF MemoryTyped
<1>9. /\ \A q \in Mapping \ {o} : new \intersect PagesOf(q) = {}
      /\ left \intersect new = {} /\ left \subseteq Page
  BY <1>2, <1>5 DEF OwnedPages, MemoryTyped
<1>10. new = IF addr = 0 THEN {} ELSE Span(addr, extent)
  BY <1>4
<1>11. m_addr' = [m_addr EXCEPT ![o] = addr] /\ m_size' = [m_size EXCEPT ![o] = extent]
  BY <1>1
<1> HIDE DEF new
<1>12. /\ \A p \in new : pages'[p] = asked'[o]
       /\ \A p \in Page \ new : pages'[p] =
             IF p \in PagesOf(o) /\ p \notin left' THEN Unmapped ELSE pages[p]
       /\ left' \subseteq Page /\ left' \intersect new = {}
       /\ left \ new \subseteq left' /\ left' \subseteq left \union PagesOf(o)
       /\ asked'[o] \in MappedPage
  BY <1>3, <1>5, <1>6, <1>7, <1>8, <1>9
<1> QED BY ZenonT(60), <1>4, <1>6, <1>7, <1>8, <1>9, <1>10, <1>11, <1>12, Resettled

\* What unmap() and the destructor give back, or leave behind when munmap()
\* fails, were the object's own pages (Unmap).
LEMMA UnmapKeeps ==
    ASSUME MemoryInv, NEW o \in Mapping, NEW works \in BOOLEAN, Unmap(o, works)
    PROVE  MemoryInv'
<1>1. MemoryTyped /\ OwnedPages
  BY DEF MemoryInv
<1>2. /\ m_addr' = [m_addr EXCEPT ![o] = 0] /\ m_size' = [m_size EXCEPT ![o] = 0]
      /\ pages' = IF works THEN WithPages(pages, PagesOf(o), Unmapped) ELSE pages
      /\ left' = IF works THEN left ELSE left \union PagesOf(o)
      /\ asked' = asked /\ lockFuture' = lockFuture
  BY DEF Unmap
<1>3. PagesOf(o) \subseteq Page /\ PagesOf(o) \intersect left = {} /\ left \subseteq Page
  BY <1>1 DEF OwnedPages, MemoryTyped
<1>4. Unmapped \in SomePage
  BY DEF SomePage
<1>5. /\ pages' \in [Page -> SomePage]
      /\ \A p \in Page : pages'[p] = IF p \in PagesOf(o) /\ p \notin left' THEN Unmapped ELSE pages[p]
  <2>1. CASE works
    BY <1>1, <1>2, <1>3, <1>4, <2>1, TableOf DEF MemoryTyped
  <2>2. CASE ~works
    BY <1>1, <1>2, <1>3, <2>2 DEF MemoryTyped
  <2> QED BY <2>1, <2>2
<1>6. /\ left' \subseteq Page /\ left \subseteq left' /\ left' \subseteq left \union PagesOf(o)
  BY <1>2, <1>3
<1>7. asked' \in [Mapping -> SomePage]
  BY <1>1, <1>2 DEF MemoryTyped
<1> DEFINE new == {}
<1>8. /\ 0 \in {0} \union Page /\ 0 \in Nat
      /\ new = IF 0 = 0 THEN {} ELSE Span(0, 0)
      /\ \A q \in Mapping \ {o} : new \intersect PagesOf(q) = {}
      /\ \A p \in new : pages'[p] = asked'[o]
      /\ \A p \in Page \ new : pages'[p] =
             IF p \in PagesOf(o) /\ p \notin left' THEN Unmapped ELSE pages[p]
      /\ left' \intersect new = {} /\ left \ new \subseteq left'
      /\ \A q \in Mapping \ {o} : asked'[q] = asked[q]
  BY <1>2, <1>5, <1>6
<1> HIDE DEF new
<1> QED BY <1>2, <1>5, <1>6, <1>7, <1>8, Resettled

\* remap() takes pages that are free or the object's own or, with FIXED, no
\* object's; with DONTUNMAP it takes none of those that it leaves behind.
LEMMA RemapKeeps ==
    ASSUME MemoryInv, NEW o \in Mapping, NEW extent \in Size, NEW flags \in RemapFlags,
           remap(o, extent, flags)
    PROVE  MemoryInv'
<1> DEFINE own == PagesOf(o)
           attributes == pages[m_addr[o]]
           inPlace == IF m_addr[o] \in Fits(extent, FreePages \union own) THEN {m_addr[o]} ELSE {}
           elsewhere == Fits(extent, FreePages)
           replacing == Fits(extent, Page \ Claimed)
           places == CASE flags = {} -> inPlace
                       [] flags = {"MAYMOVE"} -> IF inPlace # {} THEN inPlace ELSE elsewhere
                       [] flags = {"MAYMOVE", "FIXED"} -> replacing
                       [] flags = {"MAYMOVE", "DONTUNMAP"} ->
                             IF extent = m_size[o] THEN elsewhere ELSE {}
           kept == IF "DONTUNMAP" \in flags THEN own ELSE {}
<1>1. /\ valid(o) /\ UNCHANGED <<lockFuture, asked>>
      /\ \E addr \in places :
            /\ pages' = WithPages(WithPages(pages, own \ kept, Unmapped),
                                  Span(addr, extent), attributes)
            /\ left' = (left \ Span(addr, extent)) \union kept
            /\ Remapped(o, addr, extent)
  BY DEF remap
<1>2. MemoryTyped /\ OwnedPages /\ MappingsFit /\ PagesAreAsAsked
  BY DEF MemoryInv
<1>3. PICK addr \in places :
        /\ pages' = WithPages(WithPages(pages, own \ kept, Unmapped), Span(addr, extent), attributes)
        /\ left' = (left \ Span(addr, extent)) \union kept
        /\ Remapped(o, addr, extent)
  BY <1>1
<1> DEFINE new == Span(addr, extent)
<1>4. \/ addr \in Fits(extent, FreePages \union own) /\ kept = {}
      \/ addr \in Fits(extent, FreePages)
      \/ addr \in Fits(extent, Page \ Claimed) /\ kept = {}
  <2>1. CASE flags = {} \/ flags = {"MAYMOVE"}
    <3>1. "DONTUNMAP" \notin flags
      BY <2>1
    <3>2. addr \in inPlace \/ addr \in elsewhere
      BY <2>1, <1>3
    <3> QED BY <3>1, <3>2
  <2>2. CASE flags = {"MAYMOVE", "FIXED"}
    <3>1. "DONTUNMAP" \notin flags
      BY <2>2
    <3>2. flags # {} /\ flags # {"MAYMOVE"}
      BY <2>2
    <3>3. addr \in replacing
      BY <1>3, <2>2, <3>2
    <3> QED BY <3>1, <3>3
  <2>3. CASE flags = {"MAYMOVE", "DONTUNMAP"}
    <3>1. flags # {} /\ flags # {"MAYMOVE"} /\ flags # {"MAYMOVE", "FIXED"}
      BY <2>3
    <3>2. addr \in elsewhere
      BY <1>3, <2>3, <3>1
    <3> QED BY <3>2
  <2> QED BY <2>1, <2>2, <2>3 DEF RemapFlags
<1>5. /\ addr \in Page /\ addr # 0 /\ addr + (extent + 1) \div 2 - 1 <= LastPage /\ extent \in Nat
      /\ new \subseteq Page
  BY <1>4 DEF Fits, Page, Size, Span
<1>6. /\ \A p \in FreePages : p \in Page /\ pages[p] = Unmapped
      /\ \A p \in Page \ Claimed : \A q \in Mapping : p \notin PagesOf(q)
  BY DEF FreePages, Claimed
<1> HIDE DEF places, kept, own, new
<1>7. /\ \A q \in Mapping \ {o} : new \intersect PagesOf(q) = {}
      /\ kept \intersect new = {} /\ kept \subseteq own
  <2>1. kept \subseteq own
    BY DEF kept
  <2>2. CASE new \subseteq FreePages
    BY <1>2, <1>6, <2>1, <2>2 DEF OwnedPages, own
  <2>3. CASE new \subseteq FreePages \union own /\ kept = {}
    BY <1>2, <1>6, <2>1, <2>3 DEF OwnedPages, own
  <2>4. CASE new \subseteq Page \ Claimed /\ kept = {}
    BY <1>6, <2>1, <2>4
  <2> QED BY <1>4, <2>2, <2>3, <2>4 DEF Fits, new
<1>8. attributes = asked[o] /\ asked[o] \in MappedPage /\ asked[o] \in SomePage
  <2>1. m_addr[o] \in own
    <3>1. m_addr[o] \in Page /\ m_size[o] \in Size
      BY <1>1, <1>2 DEF MemoryTyped, MappingsFit, valid
    <3> QED BY <1>1, <3>1, SpanStarts DEF own, PagesOf
  <2> QED BY <1>1, <1>2, <2>1 DEF PagesAreAsAsked, MappingsFit, SomePage, own
<1>9. /\ pages' \in [Page -> SomePage]
      /\ \A p \in Page : pages'[p] = IF p \in new THEN attributes
                                     ELSE IF p \in own \ kept THEN Unmapped ELSE pages[p]
  <2> DEFINE between == WithPages(pages, own \ kept, Unmapped)
  <2>1. /\ between \in [Page -> SomePage]
        /\ \A p \in Page : between[p] = IF p \in own \ kept THEN Unmapped ELSE pages[p]
    BY <1>2, TableOf DEF MemoryTyped, SomePage
  <2>2. pages' = WithPages(between, new, attributes)
    BY <1>3 DEF new
  <2> HIDE DEF between
  <2> QED BY <1>8, <2>1, <2>2, TableOf
<1>10. /\ left' = (left \ new) \union kept /\ m_addr' = [m_addr EXCEPT ![o] = addr]
       /\ m_size' = [m_size EXCEPT ![o] = extent] /\ asked' = asked /\ lockFuture' = lockFuture
  BY <1>1, <1>3 DEF Remapped, new
<1>11. own = PagesOf(o) /\ own \subseteq Page /\ own \intersect left = {} /\ left \subseteq Page
  BY <1>2 DEF own, OwnedPages, MemoryTyped
<1> HIDE DEF attributes
<1>12. /\ left' \subseteq Page /\ left' \intersect new = {} /\ left \ new \subseteq left'
       /\ left' \subseteq left \union PagesOf(o)
  BY <1>7, <1>10, <1>11
<1>13. \A p \in Page \ new : pages'[p] = IF p \in PagesOf(o) /\ p \notin left' THEN Unmapped ELSE pages[p]
  BY <1>9, <1>10, <1>11
<1>14. asked' \in [Mapping -> SomePage] /\ \A p \in new : pages'[p] = asked'[o]
  BY <1>2, <1>5, <1>8, <1>9, <1>10 DEF MemoryTyped
<1>15. new = Span(addr, extent)
  BY DEF new
<1> QED BY ZenonT(30), <1>5, <1>7, <1>8, <1>9, <1>10, <1>12, <1>13, <1>14, <1>15, Resettled

\* What the target of a move had is left behind, also if it is the source
\* (MoveMapping).
LEMMA MoveKeeps ==
    ASSUME MemoryInv, NEW to \in Mapping, NEW from \in Mapping, MoveMapping(to, from)
    PROVE  MemoryInv'
<1>1. MemoryTyped /\ MappingsFit /\ OwnedPages /\ PagesAreAsAsked
  BY DEF MemoryInv
<1>2. /\ m_addr' = [[m_addr EXCEPT ![to] = m_addr[from]] EXCEPT ![from] = 0]
      /\ m_size' = [[m_size EXCEPT ![to] = m_size[from]] EXCEPT ![from] = 0]
      /\ asked' = [asked EXCEPT ![to] = asked[from]]
      /\ left' = left \union PagesOf(to)
      /\ pages' = pages /\ lockFuture' = lockFuture
  BY DEF MoveMapping
<1>3. \A o \in Mapping :
        /\ m_addr'[o] = IF o = from THEN 0 ELSE IF o = to THEN m_addr[from] ELSE m_addr[o]
        /\ m_size'[o] = IF o = from THEN 0 ELSE IF o = to THEN m_size[from] ELSE m_size[o]
        /\ asked'[o] = IF o = to THEN asked[from] ELSE asked[o]
  BY <1>1, <1>2 DEF MemoryTyped
<1>4. \A o \in Mapping : (PagesOf(o))' =
        IF o = from THEN {} ELSE IF o = to THEN PagesOf(from) ELSE PagesOf(o)
  BY ZenonT(30), <1>3 DEF PagesOf, valid, Span, Page
<1>5. MemoryTyped'
  BY <1>1, <1>2 DEF MemoryTyped, PagesOf, Span
<1>6. MappingsFit'
  BY <1>1, <1>3 DEF MappingsFit, valid
<1>7. PagesAreAsAsked'
  BY <1>1, <1>2, <1>3, <1>4 DEF PagesAreAsAsked
<1>8. OwnedPages'
  BY <1>1, <1>2, <1>4 DEF OwnedPages
<1> QED BY <1>5, <1>6, <1>7, <1>8 DEF MemoryInv

\* lock(), unlock() and setProtection() change the object's own pages (Change).
LEMMA ChangeKeeps ==
    ASSUME MemoryInv, NEW o \in Mapping, NEW attributes \in MappedPage, Change(o, attributes)
    PROVE  MemoryInv'
<1>1. MemoryTyped /\ MappingsFit /\ OwnedPages /\ PagesAreAsAsked
  BY DEF MemoryInv
<1>2. /\ pages' = WithPages(pages, PagesOf(o), attributes)
      /\ asked' = [asked EXCEPT ![o] = attributes]
      /\ UNCHANGED <<lockFuture, m_addr, m_size, left>>
  BY DEF Change, objects
<1>3. attributes \in SomePage /\ attributes # Unmapped
  BY UnmappedIsNone DEF SomePage
<1>4. /\ pages' \in [Page -> SomePage]
      /\ \A p \in Page : pages'[p] = IF p \in PagesOf(o) THEN attributes ELSE pages[p]
  BY <1>1, <1>2, <1>3, TableOf DEF MemoryTyped
<1>5. /\ asked' \in [Mapping -> SomePage]
      /\ \A q \in Mapping : asked'[q] = IF q = o THEN attributes ELSE asked[q]
  BY <1>1, <1>2, <1>3 DEF MemoryTyped
<1>6. \A q \in Mapping : (PagesOf(q))' = PagesOf(q)
  BY <1>2 DEF PagesOf, valid, Span, Page
<1>7. MemoryTyped' /\ MappingsFit'
  BY <1>1, <1>2, <1>4, <1>5 DEF MemoryTyped, MappingsFit, valid
<1>8. OwnedPages' /\ PagesAreAsAsked'
  BY <1>1, <1>2, <1>3, <1>4, <1>5, <1>6 DEF OwnedPages, PagesAreAsAsked
<1> QED BY <1>7, <1>8 DEF MemoryInv

\* lock_all() and unlock_all() change all pages that are mapped (AllLocked).
LEMMA AllLockedKeeps ==
    ASSUME MemoryInv, NEW locked \in BOOLEAN, AllLocked(locked),
           UNCHANGED <<m_addr, m_size, left>>, lockFuture' \in BOOLEAN
    PROVE  MemoryInv'
<1>1. MemoryTyped /\ MappingsFit /\ OwnedPages /\ PagesAreAsAsked
  BY DEF MemoryInv
<1> DEFINE Set(page) == [page EXCEPT !.locked = locked]
<1>2. \A page \in MappedPage : Set(page) \in MappedPage
  BY DEF MappedPage
<1>3. \A p \in Page : p \in FreePages <=> pages[p] = Unmapped
  BY DEF FreePages
<1>4. /\ pages' = [p \in Page |-> IF p \in FreePages THEN pages[p] ELSE Set(pages[p])]
      /\ asked' = [o \in Mapping |-> IF valid(o) THEN Set(asked[o]) ELSE asked[o]]
  BY DEF AllLocked
<1> HIDE DEF Set
<1>5. \A p \in Page :
        /\ pages'[p] \in SomePage
        /\ pages[p] = Unmapped <=> pages'[p] = Unmapped
        /\ pages[p] # Unmapped => pages'[p] = Set(pages[p])
  BY <1>1, <1>2, <1>3, <1>4, UnmappedIsNone DEF MemoryTyped, SomePage
<1>6. \A o \in Mapping :
        /\ asked'[o] \in SomePage
        /\ valid(o) => asked'[o] = Set(asked[o]) /\ asked'[o] \in MappedPage
  BY <1>1, <1>2, <1>4 DEF MemoryTyped, MappingsFit, SomePage
<1>7. \A q \in Mapping : (PagesOf(q))' = PagesOf(q) /\ (valid(q)' <=> valid(q))
  BY DEF PagesOf, valid, Span, Page
<1>8. MemoryTyped' /\ MappingsFit'
  BY <1>1, <1>4, <1>5, <1>6, <1>7 DEF MemoryTyped, MappingsFit
<1>9. OwnedPages'
  BY <1>1, <1>5, <1>7 DEF OwnedPages
<1>10. PagesAreAsAsked'
  <2>1. SUFFICES ASSUME NEW o \in Mapping, NEW p \in PagesOf(o) PROVE pages'[p] = asked'[o]
    BY <1>7 DEF PagesAreAsAsked
  <2>2. p \in Page /\ pages[p] # Unmapped /\ pages[p] = asked[o] /\ valid(o)
    BY <1>1, <2>1 DEF OwnedPages, PagesAreAsAsked, PagesOf
  <2> QED BY <1>5, <1>6, <2>2
<1> QED BY <1>8, <1>9, <1>10 DEF MemoryInv

-----------------------------------------------------------------------------
(* Memory: theorems *)

\* The invariant holds in all behaviours (the member functions of Mapping,
\* lock_all() and unlock_all()).
THEOREM MemoryInvariance == SpecMemory => []MemoryInv
<1>1. InitMemory => MemoryInv
  <2>1. SUFFICES ASSUME InitMemory PROVE MemoryInv
    OBVIOUS
  <2>2. \A o \in Mapping : ~valid(o) /\ PagesOf(o) = {}
    BY <2>1 DEF InitMemory, valid, PagesOf
  <2>3. (\A p \in Page : pages[p] = Unmapped) /\ left = {}
    BY <2>1 DEF InitMemory
  <2>4. MemoryTyped
    BY <2>1 DEF InitMemory, MemoryTyped, SomePage
  <2>5. MappingsFit /\ OwnedPages /\ PagesAreAsAsked
    BY <2>2, <2>3 DEF MappingsFit, OwnedPages, PagesAreAsAsked
  <2> QED BY <2>4, <2>5 DEF MemoryInv
<1>2. MemoryInv /\ [NextMemory]_memoryVars => MemoryInv'
  <2>1. SUFFICES ASSUME MemoryInv, [NextMemory]_memoryVars PROVE MemoryInv'
    OBVIOUS
  <2>2. CASE UNCHANGED memoryVars
    BY <2>1, <2>2 DEF memoryVars, objects, MemoryInv, MemoryTyped, MappingsFit, OwnedPages,
                      PagesAreAsAsked, PagesOf, valid, Span, Page
  <2>3. ASSUME NEW o \in Mapping, NEW extent \in Size, NEW access \in Access, Map(o, extent, access)
        PROVE  MemoryInv'
    BY <2>1, <2>3, MapKeeps
  <2>4. ASSUME NEW o \in Mapping, NEW from \in Mapping, MoveMapping(o, from) PROVE MemoryInv'
    BY <2>1, <2>4, MoveKeeps
  <2>5. ASSUME NEW o \in Mapping, unmap(o) \/ DestroyMapping(o) PROVE MemoryInv'
    BY <2>1, <2>5, UnmapKeeps DEF unmap, DestroyMapping
  <2>6. ASSUME NEW o \in Mapping, NEW extent \in Size, NEW flags \in RemapFlags, remap(o, extent, flags)
        PROVE  MemoryInv'
    BY <2>1, <2>6, RemapKeeps
  <2>7. ASSUME NEW o \in Mapping,
               lock(o) \/ unlock(o) \/ \E access \in Access : setProtection(o, access)
        PROVE  MemoryInv'
    <3>1. PICK attributes : Change(o, attributes) /\
             \/ attributes = [asked[o] EXCEPT !.locked = TRUE]
             \/ attributes = [asked[o] EXCEPT !.locked = FALSE]
             \/ \E access \in Access : attributes = [asked[o] EXCEPT !.access = access]
      BY <2>7 DEF lock, unlock, setProtection
    <3>2. asked[o] \in MappedPage
      BY <2>1, <3>1 DEF Change, MemoryInv, MappingsFit
    <3>3. attributes \in MappedPage
      BY <3>1, <3>2 DEF MappedPage
    <3> QED BY <2>1, <3>1, <3>3, ChangeKeeps
  <2>8. ASSUME NEW flags \in LockAllFlags, lock_all(flags) PROVE MemoryInv'
    <3>1. UNCHANGED <<m_addr, m_size, left>> /\ lockFuture' \in BOOLEAN
      BY <2>8 DEF lock_all, objects
    <3>2. CASE AllLocked(TRUE)
      BY <2>1, <3>1, <3>2, AllLockedKeeps
    <3>3. CASE UNCHANGED <<pages, asked>>
      BY <2>1, <3>1, <3>3 DEF MemoryInv, MemoryTyped, MappingsFit, OwnedPages, PagesAreAsAsked,
                              PagesOf, valid, Span, Page
    <3> QED BY <2>8, <3>2, <3>3 DEF lock_all
  <2>9. CASE unlock_all
    BY <2>1, <2>9, AllLockedKeeps DEF unlock_all, objects
  <2> QED BY <2>1, <2>2, <2>3, <2>4, <2>5, <2>6, <2>7, <2>8, <2>9 DEF NextMemory
<1> QED BY <1>1, <1>2, PTL DEF SpecMemory

\* No object reaches memory that is not its own, and none is lost but where
\* the client said so or munmap() failed (unmap(), remap(), the moves and the
\* destructor of Mapping).
THEOREM MappingsOwnTheirPages == SpecMemory => []MemoryIsOwned
<1>1. MemoryInv => MemoryIsOwned
  BY PageByPage DEF MemoryInv, MemoryTyped
<1> QED BY <1>1, MemoryInvariance, PTL

\* All pages of an object have the access and the lock that were asked for
\* last (lock(), unlock(), setProtection(), remap() and lock_all()).
THEOREM PagesObey == SpecMemory => []PagesAreAsAsked
<1>1. MemoryInv => PagesAreAsAsked
  BY DEF MemoryInv
<1> QED BY <1>1, MemoryInvariance, PTL

-----------------------------------------------------------------------------
(* Requests: the inductive invariant *)

TraceeState ==
    [mode : {"stopped", "running", "dead"}, stop : StopKind, nr : Int,
     result : [is_error : BOOLEAN, rval : Int], has : [Place -> Int], pending : Seq(Int)]

RequestsInv == tracee \in TraceeState /\ AnswersAreTrue

-----------------------------------------------------------------------------
(* Requests: lemmas *)

\* What trace() makes of an answer of the kernel: it throws if and only if the
\* kernel refused the request, and hands out the value of the requests that
\* have one (trace(): errno is reset before a peek, and read after it).
LEMMA OutcomeOfTrace ==
    ASSUME NEW req, NEW ret \in Int, NEW code \in {ESRCH, ENOENT, EINVAL}, NEW resets \in BOOLEAN
    PROVE  /\ trace(req, Refuses(code), resets).threw = TRUE
           /\ is_peek(req) \/ ret # -1 =>
                /\ trace(req, Gives(ret), resets).threw = FALSE
                /\ ReturnsData(req) => trace(req, Gives(ret), resets).value = ret
<1> DEFINE before == IF is_peek(req) THEN 0 ELSE errno
<1>1. /\ Refuses(code).ok = FALSE /\ Refuses(code).ret = -1 /\ Refuses(code).errno = code
      /\ Gives(ret).ok = TRUE /\ Gives(ret).ret = ret
  BY DEF Refuses, Gives
<1>2. ErrnoAfter(req, Refuses(code), before, resets) = code
  BY <1>1 DEF ErrnoAfter
<1>3. ErrnoAfter(req, Gives(ret), before, resets) =
        IF is_peek(req) /\ resets THEN 0 ELSE before
  BY <1>1 DEF ErrnoAfter
<1>4. trace(req, Refuses(code), resets).threw = TRUE
  <2>1. code # 0
    BY DEF ESRCH, ENOENT, EINVAL
  <2> QED BY <1>1, <1>2, <2>1 DEF trace, Outcome
<1>5. ASSUME is_peek(req) \/ ret # -1
      PROVE  /\ trace(req, Gives(ret), resets).threw = FALSE
             /\ ReturnsData(req) => trace(req, Gives(ret), resets).value = ret
  <2>1. ~(ret = -1 /\ ~(is_peek(req) /\ ErrnoAfter(req, Gives(ret), before, resets) = 0))
    BY <1>3, <1>5
  <2> QED BY <1>1, <2>1 DEF trace, Outcome
<1> QED BY <1>4, <1>5

\* The part of it about a request that the kernel has performed (trace()).
LEMMA GivenOutcome ==
    ASSUME NEW req, NEW ret \in Int, NEW resets \in BOOLEAN, is_peek(req) \/ ret # -1
    PROVE  /\ trace(req, Gives(ret), resets).threw = FALSE
           /\ ReturnsData(req) => trace(req, Gives(ret), resets).value = ret
<1>1. ESRCH \in {ESRCH, ENOENT, EINVAL}
  BY Zenon
<1> QED BY <1>1, OutcomeOfTrace, Zenon

\* The requests that the functions of Tracee make, and what they are about.
LEMMA RequestsOfTracee ==
    /\ \A req : PlaceOf(req) \in Place
    /\ \A call \in DOMAIN Writer : ~is_peek(Writer[call])
<1>1. \A req : PlaceOf(req) \in Place
  BY DEF PlaceOf, Place
<1>2. DOMAIN Writer = {"pokeData", "pokeUser", "setRegisters", "setFloatRegisters",
                       "setRegisterSetGeneral", "setRegisterSetFloat", "setSigInfo",
                       "setSigMask", "setThreadArea"}
  BY DEF Writer
<1>3. /\ Writer["pokeData"] = "POKEDATA" /\ Writer["pokeUser"] = "POKEUSER"
      /\ Writer["setRegisters"] = "SETREGS" /\ Writer["setFloatRegisters"] = "SETFPREGS"
      /\ Writer["setRegisterSetGeneral"] = "SETREGSET_PRSTATUS"
      /\ Writer["setRegisterSetFloat"] = "SETREGSET_FPREGSET"
      /\ Writer["setSigInfo"] = "SETSIGINFO" /\ Writer["setSigMask"] = "SETSIGMASK"
      /\ Writer["setThreadArea"] = "SET_THREAD_AREA"
  BY DEF Writer
<1>4. \A call \in DOMAIN Writer : ~is_peek(Writer[call])
  BY <1>2, <1>3 DEF is_peek
<1> QED BY <1>1, <1>4

-----------------------------------------------------------------------------
(* Requests: steps *)

\* Reading a word or a structure (the getters of Tracee, peekData(), peekUser()).
LEMMA ReadIsTrue ==
    ASSUME RequestsInv, NEW call \in DOMAIN Reader, Read(call)
    PROVE  RequestsInv'
<1> DEFINE req == Reader[call]
           place == PlaceOf(req)
           word == tracee.has[place]
           given == Performed(place, IF is_peek(req) THEN word ELSE 0)
           performed == Stopped /\ place # "mask"
<1>1. place \in Place
  BY RequestsOfTracee
<1>2. word \in Int
  BY <1>1 DEF RequestsInv, TraceeState
<1>3. /\ performed => given.ok = TRUE
      /\ ~performed => given.ok = FALSE
  BY DEF Performed, Gives, Refuses
<1>4. PICK resets \in BOOLEAN :
          /\ answer' = Answer(call, trace(req, given, resets),
                              IF is_peek(req) THEN trace(req, given, resets).value
                              ELSE IF given.ok THEN word ELSE None, ~given.ok, word)
          /\ UNCHANGED tracee
  BY Zenon DEF Read
<1>5. CASE performed
  <2>1. given = Gives(IF is_peek(req) THEN word ELSE 0)
    BY <1>5 DEF Performed
  <2>2. /\ trace(req, given, resets).threw = FALSE
        /\ is_peek(req) => trace(req, given, resets).value = word
    <3>1. CASE is_peek(req)
      <4>1. given = Gives(word) /\ ReturnsData(req)
        BY <2>1, <3>1 DEF ReturnsData
      <4>2. trace(req, Gives(word), resets).threw = FALSE /\ trace(req, Gives(word), resets).value = word
        <5> HIDE DEF req, word
        <5> QED BY <1>2, <3>1, <4>1, GivenOutcome, Zenon
      <4> HIDE DEF req, word, given
      <4> QED BY <4>1, <4>2, Zenon
    <3>2. CASE ~is_peek(req)
      <4>1. given = Gives(0) /\ 0 \in Int /\ 0 # -1
        BY <2>1, <3>2
      <4> QED BY <1>1, <3>2, <4>1, OutcomeOfTrace, Zenon
    <3> QED BY <3>1, <3>2
  <2>3. /\ answer'.threw = FALSE /\ answer'.refused = FALSE
        /\ answer'.value = word /\ answer'.due = word
    BY Zenon, <1>3, <1>4, <1>5, <2>2 DEF Answer, trace, Outcome
  <2> QED BY Zenon, <1>4, <2>3 DEF RequestsInv, AnswersAreTrue
<1>6. CASE ~performed
  <2>1. PICK code \in {ESRCH, ENOENT, EINVAL} : given = Refuses(code) /\ 0 \in Int
    BY <1>6 DEF Performed
  <2>2. trace(req, given, resets).threw = TRUE
    BY <2>1, OutcomeOfTrace, Zenon
  <2>3. answer'.threw = TRUE /\ answer'.refused = TRUE
    BY <1>3, <1>4, <1>6, <2>2 DEF Answer
  <2> QED BY Zenon, <1>4, <2>3 DEF RequestsInv, AnswersAreTrue
<1> QED BY <1>5, <1>6

\* Writing (the setters of Tracee, pokeData(), pokeUser()).
LEMMA WriteIsTrue ==
    ASSUME RequestsInv, NEW call \in DOMAIN Writer, NEW word \in Int, Write(call, word)
    PROVE  RequestsInv'
<1> DEFINE req == Writer[call]
           place == PlaceOf(req)
           given == Performed(place, 0)
           performed == Stopped /\ place # "mask"
           got == trace(req, given, FALSE)
<1>1. place \in Place /\ ~is_peek(req)
  BY RequestsOfTracee
<1>2. /\ performed => given.ok = TRUE /\ got.threw = FALSE
      /\ ~performed => given.ok = FALSE /\ got.threw = TRUE
  <2>1. 0 \in Int /\ 0 # -1 /\ FALSE \in BOOLEAN
    OBVIOUS
  <2>2. trace(req, Gives(0), FALSE).threw = FALSE
    BY <1>1, <2>1, GivenOutcome, Zenon
  <2>3. \A code \in {ESRCH, ENOENT, EINVAL} : trace(req, Refuses(code), FALSE).threw = TRUE
    BY <2>1, OutcomeOfTrace, Zenon
  <2>4. /\ performed => given = Gives(0)
        /\ ~performed => \E code \in {ESRCH, ENOENT, EINVAL} : given = Refuses(code)
    BY DEF Performed
  <2>5. Gives(0).ok = TRUE /\ \A code \in {ESRCH, ENOENT, EINVAL} : Refuses(code).ok = FALSE
    BY DEF Gives, Refuses
  <2> HIDE DEF req, place, given, performed
  <2> QED BY <2>2, <2>3, <2>4, <2>5, Zenon DEF got
<1>3. /\ tracee' = IF given.ok THEN [tracee EXCEPT !.has[place] = word] ELSE tracee
      /\ answer' = Answer(call, got, tracee'.has[place], ~given.ok, word)
  BY DEF Write
<1>4. tracee' \in TraceeState
  BY <1>1, <1>3 DEF RequestsInv, TraceeState
<1>5. performed => tracee'.has[place] = word
  BY <1>1, <1>2, <1>3 DEF RequestsInv, TraceeState
<1>6. /\ performed => answer'.threw = FALSE /\ answer'.refused = FALSE
      /\ ~performed => answer'.threw = TRUE /\ answer'.refused = TRUE
      /\ answer'.value = tracee'.has[place] /\ answer'.due = word
  BY <1>2, <1>3 DEF Answer
<1> QED BY <1>4, <1>5, <1>6 DEF RequestsInv, AnswersAreTrue

\* What the accessors of SyscallInfo tell is what happened (getSyscallInfo()).
LEMMA SyscallInfoIsTrue ==
    ASSUME RequestsInv, getSyscallInfo
    PROVE  RequestsInv'
<1>1. Told(Filled) = Happened
  <2>1. tracee.stop \in {"entry", "exit", "seccomp", "signal"}
    BY DEF RequestsInv, TraceeState, StopKind, CallStops
  <2>2. CASE tracee.stop = "entry"
    BY <2>2 DEF Told, Filled, Happened, entryInfo, seccompInfo, exitInfo, isEntry, isExit, isSeccomp
  <2>3. CASE tracee.stop = "exit"
    BY <2>3 DEF Told, Filled, Happened, entryInfo, seccompInfo, exitInfo, isEntry, isExit, isSeccomp
  <2>4. CASE tracee.stop = "seccomp"
    BY <2>4 DEF Told, Filled, Happened, entryInfo, seccompInfo, exitInfo, isEntry, isExit, isSeccomp
  <2>5. CASE tracee.stop = "signal"
    BY <2>5 DEF Told, Filled, Happened, entryInfo, seccompInfo, exitInfo, isEntry, isExit, isSeccomp
  <2> QED BY <2>1, <2>2, <2>3, <2>4, <2>5
<1> DEFINE given(excess) == IF Stopped THEN Gives(IF excess THEN 2 ELSE 1) ELSE Refuses(ESRCH)
           got(excess) == trace("GET_SYSCALL_INFO", given(excess), FALSE)
<1>2. PICK excess \in BOOLEAN :
          /\ answer' = Answer("getSyscallInfo",
                              [got(excess) EXCEPT !.threw = @ \/ got(excess).value = 2],
                              IF Stopped THEN Told(Filled) ELSE None, ~Stopped \/ excess, Happened)
          /\ UNCHANGED tracee
  BY DEF getSyscallInfo
<1>3. "threw" \in DOMAIN got(excess)
  BY DEF trace, Outcome
<1>4. CASE Stopped
  <2>1. PICK ret \in {1, 2} : given(excess) = Gives(ret) /\ (ret = 2 <=> excess)
    BY <1>4
  <2>2. ret \in Int /\ ret # -1 /\ FALSE \in BOOLEAN
    BY <2>1
  <2>3. ReturnsData("GET_SYSCALL_INFO")
    BY DEF ReturnsData
  <2>4. got(excess).threw = FALSE /\ got(excess).value = ret
    <3>1. /\ trace("GET_SYSCALL_INFO", Gives(ret), FALSE).threw = FALSE
          /\ trace("GET_SYSCALL_INFO", Gives(ret), FALSE).value = ret
      <4> HIDE DEF given, got
      <4> QED BY <2>2, <2>3, GivenOutcome, Zenon
    <3>2. got(excess) = trace("GET_SYSCALL_INFO", given(excess), FALSE)
      BY Zenon
    <3> HIDE DEF given, got
    <3> QED BY <2>1, <3>1, <3>2, Zenon
  <2>5. /\ answer'.threw = (ret = 2) /\ answer'.refused = excess
        /\ answer'.value = Happened /\ answer'.due = Happened
    BY <1>1, <1>2, <1>3, <1>4, <2>4 DEF Answer
  <2> QED BY <1>2, <2>1, <2>5 DEF RequestsInv, AnswersAreTrue
<1>5. CASE ~Stopped
  <2>1. given(excess) = Refuses(ESRCH) /\ ESRCH \in {ESRCH, ENOENT, EINVAL} /\ 0 \in Int /\ FALSE \in BOOLEAN
    BY <1>5
  <2>2. got(excess).threw = TRUE
    BY <2>1, OutcomeOfTrace, Zenon
  <2>3. answer'.threw = TRUE /\ answer'.refused = TRUE
    BY <1>2, <1>3, <1>5, <2>2 DEF Answer
  <2> QED BY <1>2, <2>3 DEF RequestsInv, AnswersAreTrue
<1> QED BY <1>4, <1>5

\* A refusal of the kernel makes getSeccompFilter() throw.
LEMMA SeccompFilterIsTrue ==
    ASSUME RequestsInv, NEW i \in 0 .. Len(Programs), NEW place \in 0 .. MaxRoom,
           getSeccompFilter(i, place)
    PROVE  RequestsInv'
<1> DEFINE given == Program(i)
           got == trace("SECCOMP_GET_FILTER", given, FALSE)
<1>1. /\ UNCHANGED tracee
      /\ \/ /\ answer'.call = "getSeccompFilter"
            /\ answer'.refused = ~given.ok
            /\ given.ok \/ answer'.threw \/ ~got.threw
         \/ answer'.call = "crash"
  <2> DEFINE overrun == given.ok /\ given.ret > FprogRoom
             length_of == IF place = 0 /\ ~got.threw THEN got.value ELSE place
             threw == got.threw \/ got.value < 0 \/ got.value >= length_of
  <2>1. /\ UNCHANGED tracee
        /\ \/ \E throws \in IF overrun THEN BOOLEAN ELSE {threw} :
                answer' = Answer("getSeccompFilter", [got EXCEPT !.threw = throws],
                                 None, ~given.ok, got.value)
           \/ answer' = Crashed
    BY DEF getSeccompFilter
  <2>2. CASE answer' = Crashed
    BY <2>1, <2>2 DEF Crashed
  <2>3. ASSUME NEW throws \in IF overrun THEN BOOLEAN ELSE {threw},
               answer' = Answer("getSeccompFilter", [got EXCEPT !.threw = throws],
                                None, ~given.ok, got.value)
        PROVE  /\ answer'.call = "getSeccompFilter"
               /\ answer'.refused = ~given.ok
               /\ given.ok \/ answer'.threw \/ ~got.threw
    <3>1. "threw" \in DOMAIN got
      BY DEF trace, Outcome
    <3>2. [got EXCEPT !.threw = throws].threw = throws
      <4> HIDE DEF got
      <4> QED BY <3>1
    <3>3. answer'.call = "getSeccompFilter" /\ answer'.refused = ~given.ok /\ answer'.threw = throws
      BY <2>3, <3>2, Zenon DEF Answer
    <3>4. given.ok \/ (got.threw => throws)
      <4>1. ~given.ok => throws = threw
        BY <2>3, Zenon
      <4> HIDE DEF given, got
      <4> QED BY <4>1
    <3> HIDE DEF given, got
    <3> QED BY <3>3, <3>4
  <2> QED BY <2>1, <2>2, <2>3
<1>2. ~given.ok => got.threw = TRUE
  <2>1. CASE Stopped /\ i < Len(Programs)
    BY <2>1, RequestsAssumption DEF Program, Gives
  <2>2. CASE ~(Stopped /\ i < Len(Programs))
    <3>1. PICK code \in {ESRCH, ENOENT, EINVAL} : given = Refuses(code)
      BY <2>2, RequestsAssumption DEF Program
    <3>2. 0 \in Int /\ FALSE \in BOOLEAN
      OBVIOUS
    <3> QED BY <3>1, <3>2, OutcomeOfTrace, Zenon
  <2> QED BY <2>1, <2>2
<1> HIDE DEF given, got
<1> QED BY <1>1, <1>2 DEF RequestsInv, AnswersAreTrue

-----------------------------------------------------------------------------
(* Requests: theorems *)

\* The tracee keeps its shape, and each answer is true until the tracer has
\* looked at it (the functions of Tracee that go through ptrace::trace()).
THEOREM RequestsInvariance == SpecRequests => []RequestsInv
<1>1. InitRequests => RequestsInv
  BY DEF InitRequests, RequestsInv, TraceeState, StopKind, CallStops, Returns, NoAnswer,
         AnswersAreTrue
<1>2. RequestsInv /\ [NextRequests]_requestVars => RequestsInv'
  <2>1. SUFFICES ASSUME RequestsInv, [NextRequests]_requestVars PROVE RequestsInv'
    OBVIOUS
  <2>2. CASE UNCHANGED requestVars
    BY <2>1, <2>2 DEF requestVars, RequestsInv, TraceeState, AnswersAreTrue
  <2>3. CASE Look
    BY <2>1, <2>3 DEF Look, NoAnswer, Crashed, RequestsInv, TraceeState, AnswersAreTrue
  <2>4. ASSUME NEW call \in DOMAIN Reader, Read(call) PROVE RequestsInv'
    BY <2>1, <2>4, ReadIsTrue
  <2>5. ASSUME NEW call \in DOMAIN Writer, NEW word \in Word, Write(call, word) PROVE RequestsInv'
    BY <2>1, <2>5, WriteIsTrue, RequestsAssumption
  <2>6. CASE getSyscallInfo
    BY <2>1, <2>6, SyscallInfoIsTrue
  <2>7. ASSUME NEW i \in 0 .. Len(Programs), NEW place \in 0 .. MaxRoom, getSeccompFilter(i, place)
        PROVE  RequestsInv'
    BY <2>1, <2>7, SeccompFilterIsTrue
  <2>8. ASSUME NEW offset \in 0 .. MaxPending, NEW amount \in 1 .. MaxRoom, peekSigInfo(offset, amount)
        PROVE  RequestsInv'
    <3>1. answer'.call = "peekSigInfo" /\ UNCHANGED tracee
      BY <2>8 DEF peekSigInfo, Answer
    <3> QED BY <2>1, <3>1 DEF RequestsInv, AnswersAreTrue
  <2>9. CASE NextStop \/ Restart \/ Stop \/ Killed \/ SignalArrives
    <3>1. tracee' \in TraceeState
      <4>1. CASE NextStop
        <5>1. PICK stop \in StopKind, place \in Place, word \in Word,
                   result \in {Returns(-1), Fails(ENOENT)} :
                tracee' = [tracee EXCEPT !.stop = stop, !.has[place] = word, !.result = result]
          BY <4>1 DEF NextStop
        <5>2. result \in [is_error : BOOLEAN, rval : Int] /\ word \in Int
          <6>1. Returns(-1) \in [is_error : BOOLEAN, rval : Int]
            BY DEF Returns
          <6>2. Fails(ENOENT) \in [is_error : BOOLEAN, rval : Int]
            BY DEF Fails, ENOENT
          <6> QED BY <5>1, <6>1, <6>2, RequestsAssumption
        <5> QED BY <2>1, <5>1, <5>2 DEF RequestsInv, TraceeState
      <4>2. CASE Restart \/ Stop \/ Killed
        <5>1. tracee \in TraceeState /\ <<>> \in Seq(Int)
          BY <2>1 DEF RequestsInv, TraceeState
        <5>2. \/ tracee' = [tracee EXCEPT !.mode = "running"]
              \/ tracee' = [tracee EXCEPT !.mode = "stopped"]
              \/ tracee' = [tracee EXCEPT !.mode = "dead", !.pending = <<>>]
          BY <4>2 DEF Restart, Stop, Killed
        <5> QED BY ZenonT(30), <5>1, <5>2 DEF TraceeState
      <4>3. CASE SignalArrives
        <5>1. tracee \in TraceeState /\ Append(tracee.pending, Len(tracee.pending) + 1) \in Seq(Int)
          BY <2>1 DEF RequestsInv, TraceeState
        <5> QED BY <4>3, <5>1 DEF SignalArrives, TraceeState
      <4> QED BY <2>9, <4>1, <4>2, <4>3
    <3>2. UNCHANGED answer
      BY Zenon, <2>9 DEF NextStop, Restart, Stop, Killed, SignalArrives
    <3> QED BY <2>1, <3>1, <3>2 DEF RequestsInv, AnswersAreTrue
  <2>10. CASE OtherCallFails
    BY <2>1, <2>10 DEF OtherCallFails, RequestsInv, TraceeState, AnswersAreTrue
  <2> QED BY <2>1, <2>2, <2>3, <2>4, <2>5, <2>6, <2>7, <2>8, <2>9, <2>10
          DEF NextRequests, TracerCalls
<1> QED BY <1>1, <1>2, PTL DEF SpecRequests

\* A call throws if and only if the kernel refused it, and gives what the
\* tracee has otherwise, also if that is -1 (trace(), the functions of Tracee
\* and SyscallInfo; of getSeccompFilter() only that a refusal throws).
THEOREM AnswersAreToldFromErrors == SpecRequests => []AnswersAreTrue
<1>1. RequestsInv => AnswersAreTrue
  BY DEF RequestsInv
<1> QED BY <1>1, RequestsInvariance, PTL

-----------------------------------------------------------------------------
(***************************************************************************)
(* PosixThread, for any number of objects, threads and pthread_t values.   *)
(* The proofs assume that clients do not move from empty objects;          *)
(* pthread_create() may fail.                                              *)
(***************************************************************************)

\* No two threads that are not released have one pthread_t.
IdsDiffer == \A t, u \in Unreleased : idOf[t] = idOf[u] => t = u

\* detach() was called for threads that existed.
DetachedWereBorn == \A t \in detached : life[t] \in {"running", "released"}

ThreadInv ==
    /\ ThreadTypeOK
    /\ JoinableHasThread
    /\ JoinableHeldOnce
    /\ IdsDiffer
    /\ DetachedWereBorn

Joinables == {o \in Obj : joinable(o)}

-----------------------------------------------------------------------------
LEMMA InitThreadInv == ThreadInit => ThreadInv
  <1> SUFFICES ASSUME ThreadInit
               PROVE  ThreadInv
    OBVIOUS
  <1>1. ThreadTypeOK
    <2>1. Empty \in Storage
      BY DEF Empty, Storage
    <2>2. m_pthread \in [Obj -> Storage]
      BY <2>1 DEF ThreadInit
    <2>3. num_threads \in Int
      BY DEF ThreadInit
    <2>4. aborted \in BOOLEAN
      BY DEF ThreadInit
    <2> QED BY <2>2, <2>3, <2>4 DEF ThreadInit, ThreadTypeOK
  <1>2. Unreleased = {}
    BY DEF ThreadInit, Unreleased
  <1>3. JoinableHasThread
    BY DEF ThreadInit, JoinableHasThread, Empty, joinable
  <1> QED BY <1>1, <1>2, <1>3 DEF ThreadInit, ThreadInv, JoinableHeldOnce, IdsDiffer, DetachedWereBorn

\* An object whose thread is known is the only one with that pthread_t, and
\* the only thread that its pthread_t denotes is its own.
LEMMA OwnThreadOnly ==
    ASSUME ThreadInv, NEW o \in Obj, joinable(o), NEW t \in Unreleased, idOf[t] = m_pthread[o].value
    PROVE  /\ t = thread[o]
           /\ t \notin detached
           /\ \A p \in Obj : joinable(p) /\ m_pthread[p].value = idOf[t] => p = o
  BY DEF ThreadInv, JoinableHasThread, JoinableHeldOnce, IdsDiffer

LEMMA ThreadEndsKeeps ==
    ASSUME ThreadInv, NEW t \in Thread, ThreadEnds(t)
    PROVE  ThreadInv'
  BY DEF ThreadInv, ThreadEnds, ThreadTypeOK, Storage, JoinableHasThread, JoinableHeldOnce, IdsDiffer,
         DetachedWereBorn, Unreleased, joinable, object

LEMMA ConstructKeeps ==
    ASSUME ThreadInv, NEW o \in Obj, NEW t \in Thread, NEW i \in Id, Construct(o, t, i)
    PROVE  ThreadInv'
  <1> USE DEF Construct, joinable, Unreleased
  <1>1. /\ t \notin Unreleased /\ t \notin detached
        /\ Unreleased' = Unreleased \union {t}
        /\ \A u \in Unreleased : u # t /\ idOf'[u] = idOf[u] /\ idOf[u] # i
        /\ idOf'[t] = i
        /\ \A p \in Obj : p # o => m_pthread'[p] = m_pthread[p] /\ thread'[p] = thread[p]
        /\ m_pthread'[o] = [has_value |-> TRUE, value |-> i] /\ thread'[o] = t
    BY DEF ThreadInv, ThreadTypeOK, DetachedWereBorn, FreeIds
  <1>2. ThreadTypeOK'
    BY DEF ThreadInv, ThreadTypeOK, Storage
  <1>3. JoinableHasThread'
    BY <1>1 DEF ThreadInv, JoinableHasThread
  <1>4. JoinableHeldOnce'
    <2> SUFFICES ASSUME NEW u \in Thread, u \in Unreleased' \ detached'
                 PROVE  \E q \in Obj : \A p \in Obj :
                            (joinable(p)' /\ m_pthread'[p].value = idOf'[u]) <=> p = q
      BY DEF JoinableHeldOnce
    <2>1. CASE u = t
      <3>1. \A p \in Obj : p # o /\ joinable(p) => m_pthread[p].value # i
        BY <1>1 DEF ThreadInv, JoinableHasThread
      <3> QED BY <2>1, <3>1, <1>1
    <2>2. CASE u # t
      <3>1. PICK q \in Obj : \A p \in Obj : (joinable(p) /\ m_pthread[p].value = idOf[u]) <=> p = q
        BY <2>2, <1>1 DEF ThreadInv, JoinableHeldOnce
      <3>2. q # o
        BY <3>1
      <3> QED BY <2>2, <3>1, <3>2, <1>1
    <2> QED BY <2>1, <2>2
  <1>5. IdsDiffer'
    BY <1>1 DEF ThreadInv, IdsDiffer
  <1>6. DetachedWereBorn'
    BY <1>1 DEF ThreadInv, DetachedWereBorn, ThreadTypeOK
  <1> QED BY <1>2, <1>3, <1>4, <1>5, <1>6 DEF ThreadInv

LEMMA ConstructFailsKeeps ==
    ASSUME ThreadInv, NEW o \in Obj, NEW t \in Thread, ConstructFails(o, t)
    PROVE  ThreadInv'
  BY DEF ThreadInv, ConstructFails, Empty, ThreadTypeOK, Storage, JoinableHasThread, JoinableHeldOnce,
         IdsDiffer, DetachedWereBorn, Unreleased, joinable

LEMMA AbortKeeps ==
    ASSUME ThreadInv, Abort
    PROVE  ThreadInv'
  <1>1. UNCHANGED <<library, object, num_threads, thread>> /\ aborted' = TRUE
    BY DEF Abort
  <1>2. ThreadTypeOK'
    BY <1>1 DEF ThreadInv, ThreadTypeOK, library, object
  <1>3. JoinableHasThread' /\ JoinableHeldOnce'
    BY <1>1 DEF ThreadInv, JoinableHasThread, JoinableHeldOnce, Unreleased, joinable, library, object
  <1>4. IdsDiffer' /\ DetachedWereBorn'
    BY <1>1 DEF ThreadInv, IdsDiffer, DetachedWereBorn, Unreleased, library
  <1> QED BY <1>2, <1>3, <1>4 DEF ThreadInv

LEMMA DestroyKeeps ==
    ASSUME ThreadInv, NEW o \in Obj, Destroy(o)
    PROVE  ThreadInv'
  <1>1. CASE joinable(o)
    BY <1>1, AbortKeeps DEF Destroy
  <1>2. CASE ~joinable(o)
    <2>1. /\ m_pthread' = [m_pthread EXCEPT ![o] = Empty]
          /\ m_name' = [m_name EXCEPT ![o] = NoThread]
          /\ thread' = [thread EXCEPT ![o] = NoThread]
          /\ UNCHANGED <<library, num_threads, aborted>>
      BY <1>2 DEF Destroy
    <2>2. Empty \in Storage /\ ~Empty.has_value
      BY DEF Empty, Storage
    <2>3. ThreadTypeOK'
      BY <2>1, <2>2 DEF ThreadInv, ThreadTypeOK, library
    <2>4. /\ ~joinable(o)'
          /\ \A p \in Obj : p # o => m_pthread'[p] = m_pthread[p] /\ thread'[p] = thread[p]
      BY <2>1, <2>2 DEF ThreadInv, ThreadTypeOK, joinable
    <2>5. JoinableHasThread' /\ JoinableHeldOnce'
      BY <1>2, <2>1, <2>4
         DEF ThreadInv, JoinableHasThread, JoinableHeldOnce, Unreleased, joinable, library
    <2>6. IdsDiffer' /\ DetachedWereBorn'
      BY <2>1 DEF ThreadInv, IdsDiffer, DetachedWereBorn, Unreleased, library
    <2> QED BY <2>3, <2>5, <2>6 DEF ThreadInv
  <1> QED BY <1>1, <1>2

LEMMA HandleMoveKeeps ==
    ASSUME ~MovesEmpty, ThreadInv, NEW to \in Obj, NEW from \in Obj, MoveAssign(to, from)
    PROVE  ThreadInv'
  <1>1. CASE joinable(to)
    BY <1>1, AbortKeeps DEF MoveAssign
  <1>2. CASE ~joinable(to)
    <2> USE DEF joinable, Unreleased
    <2>1. /\ to # from /\ joinable(from)
          /\ m_pthread'[to].has_value /\ m_pthread'[to].value = m_pthread[from].value
          /\ ~m_pthread'[from].has_value
          /\ \A p \in Obj \ {to, from} : m_pthread'[p] = m_pthread[p] /\ thread'[p] = thread[p]
          /\ thread'[to] = thread[from]
          /\ UNCHANGED library
      BY <1>2 DEF MoveAssign, ThreadInv, ThreadTypeOK, Storage, Disengage
    <2>2. ThreadTypeOK'
      <3>1. m_pthread' \in [Obj -> Storage]
        <4>1. /\ [has_value |-> TRUE, value |-> m_pthread[from].value] \in Storage
              /\ Disengage(m_pthread[from]) \in Storage
          BY DEF ThreadInv, ThreadTypeOK, Storage, Disengage
        <4> QED BY <1>2, <4>1 DEF ThreadInv, ThreadTypeOK, MoveAssign
      <3>2. /\ m_name' \in [Obj -> Thread \union {NoThread}]
            /\ thread' \in [Obj -> Thread \union {NoThread}]
            /\ UNCHANGED <<num_threads, aborted>>
        BY <1>2 DEF ThreadInv, ThreadTypeOK, MoveAssign
      <3> QED BY <2>1, <3>1, <3>2 DEF ThreadInv, ThreadTypeOK, library
    <2>3. JoinableHasThread'
      BY <2>1 DEF ThreadInv, JoinableHasThread, library
    <2>4. JoinableHeldOnce'
      <3> SUFFICES ASSUME NEW u \in Thread, u \in Unreleased' \ detached'
                   PROVE  \E q \in Obj : \A p \in Obj :
                              (joinable(p)' /\ m_pthread'[p].value = idOf'[u]) <=> p = q
        BY DEF JoinableHeldOnce
      <3>1. PICK q \in Obj : \A p \in Obj : (joinable(p) /\ m_pthread[p].value = idOf[u]) <=> p = q
        BY <2>1 DEF ThreadInv, JoinableHeldOnce, library
      <3>2. CASE q = from
        BY <3>1, <3>2, <1>2, <2>1 DEF library
      <3>3. CASE q # from
        BY <3>1, <3>3, <1>2, <2>1 DEF library
      <3> QED BY <3>2, <3>3
    <2>5. IdsDiffer' /\ DetachedWereBorn'
      BY <2>1 DEF ThreadInv, IdsDiffer, DetachedWereBorn, library
    <2> QED BY <2>2, <2>3, <2>4, <2>5 DEF ThreadInv
  <1> QED BY <1>1, <1>2

LEMMA ReleaseKeeps ==
    ASSUME ThreadInv, NEW o \in Obj, Join(o) \/ Detach(o)
    PROVE  ThreadInv'
  <1> USE DEF joinable, Unreleased
  <1>1. PICK t \in Unreleased \ detached :
            /\ idOf[t] = m_pthread[o].value
            /\ \/ life[t] = "ended" /\ life' = [life EXCEPT ![t] = "released"] /\ UNCHANGED detached
               \/ /\ detached' = detached \union {t}
                  /\ life' = [life EXCEPT ![t] = IF @ = "ended" THEN "released" ELSE @]
    BY DEF Join, Detach
  <1>2. joinable(o) /\ reset(o) /\ UNCHANGED idOf
        /\ thread' = [thread EXCEPT ![o] = NoThread] /\ UNCHANGED aborted
    BY DEF Join, Detach
  <1>3. /\ ~m_pthread'[o].has_value
        /\ \A p \in Obj : p # o => m_pthread'[p] = m_pthread[p] /\ thread'[p] = thread[p]
    BY <1>2 DEF reset, Disengage, ThreadInv, ThreadTypeOK, Storage
  <1>4. /\ t = thread[o]
        /\ \A p \in Obj : joinable(p) /\ m_pthread[p].value = idOf[t] => p = o
    BY <1>1, <1>2, OwnThreadOnly
  <1>5. /\ Unreleased' \ detached' = (Unreleased \ detached) \ {t}
        /\ Unreleased' \subseteq Unreleased
    BY <1>1 DEF ThreadInv, ThreadTypeOK, DetachedWereBorn
  <1>6. ThreadTypeOK'
    <2>1. life' \in [Thread -> {"unborn", "failed", "running", "ended", "released"}]
      BY <1>1 DEF ThreadInv, ThreadTypeOK
    <2>2. m_pthread' \in [Obj -> Storage]
      BY <1>2 DEF reset, Disengage, ThreadInv, ThreadTypeOK, Storage
    <2> QED BY <1>1, <1>2, <2>1, <2>2 DEF ThreadInv, ThreadTypeOK, reset
  <1>7. JoinableHasThread'
    <2> SUFFICES ASSUME NEW p \in Obj, joinable(p)'
                 PROVE  /\ thread'[p] \in (Unreleased \ detached)'
                        /\ idOf'[thread'[p]] = m_pthread'[p].value
      BY DEF JoinableHasThread
    <2>1. p # o /\ joinable(p) /\ thread'[p] = thread[p] /\ m_pthread'[p] = m_pthread[p]
      BY <1>3
    <2>2. thread[p] \in Unreleased \ detached /\ idOf[thread[p]] = m_pthread[p].value
      BY <2>1 DEF ThreadInv, JoinableHasThread
    <2>3. thread[p] # t
      BY <1>4, <2>1, <2>2
    <2> QED BY <1>2, <1>5, <2>1, <2>2, <2>3
  <1>8. JoinableHeldOnce'
    <2> SUFFICES ASSUME NEW u \in Thread, u \in Unreleased' \ detached'
                 PROVE  \E q \in Obj : \A p \in Obj :
                            (joinable(p)' /\ m_pthread'[p].value = idOf'[u]) <=> p = q
      BY DEF JoinableHeldOnce
    <2>1. u \in Unreleased \ detached /\ u # t
      BY <1>5
    <2>2. PICK q \in Obj : \A p \in Obj : (joinable(p) /\ m_pthread[p].value = idOf[u]) <=> p = q
      BY <2>1 DEF ThreadInv, JoinableHeldOnce
    <2>3. q # o
      BY <2>1, <2>2, <1>1 DEF ThreadInv, IdsDiffer
    <2> QED BY <1>2, <1>3, <2>2, <2>3
  <1>9. IdsDiffer' /\ DetachedWereBorn'
    <2>1. IdsDiffer'
      BY <1>2, <1>5 DEF ThreadInv, IdsDiffer
    <2>2. DetachedWereBorn'
      BY <1>1 DEF ThreadInv, DetachedWereBorn, ThreadTypeOK
    <2> QED BY <2>1, <2>2
  <1> QED BY <1>6, <1>7, <1>8, <1>9 DEF ThreadInv

LEMMA NextThreadInv ==
    ASSUME ~MovesEmpty, ThreadInv, [ThreadNext]_threadVars
    PROVE  ThreadInv'
  <1>1. CASE UNCHANGED threadVars
    BY <1>1 DEF ThreadInv, ThreadTypeOK, Storage, JoinableHasThread, JoinableHeldOnce, IdsDiffer,
                DetachedWereBorn, Unreleased, joinable, threadVars, library, object
  <1>2. CASE ThreadNext
    BY <1>2, ThreadEndsKeeps, ConstructKeeps, ConstructFailsKeeps, DestroyKeeps, HandleMoveKeeps,
       ReleaseKeeps DEF ThreadNext, Operation
  <1> QED BY <1>1, <1>2

-----------------------------------------------------------------------------
\* The number of joinable objects, step by step.
LEMMA NextCounted ==
    ASSUME ~MovesEmpty, ThreadInv, NumThreadsNeverWraps, [ThreadNext]_threadVars
    PROVE  NumThreadsNeverWraps'
  <1> USE DEF joinable
  <1>1. IsFiniteSet(Joinables) /\ Cardinality(Joinables) \in Nat
    <2>1. IsFiniteSet(Joinables)
      BY PosixThreadAssumption, FS_Subset DEF Joinables
    <2> QED BY <2>1, FS_CardinalityType
  <1>2. num_threads \in Int /\ num_threads >= Cardinality(Joinables)
    BY DEF ThreadInv, ThreadTypeOK, NumThreadsNeverWraps, Joinables
  <1> SUFFICES num_threads' >= Cardinality(Joinables')
    BY DEF NumThreadsNeverWraps, Joinables
  <1>3. ASSUME NEW o \in Obj, NEW t \in Thread, NEW i \in Id, Construct(o, t, i)
        PROVE  num_threads' >= Cardinality(Joinables')
    <2>1. Joinables' = Joinables \union {o} /\ o \notin Joinables
      BY <1>3 DEF Construct, Joinables, ThreadInv, ThreadTypeOK
    <2>2. Cardinality(Joinables') = Cardinality(Joinables) + 1
      BY <1>1, <2>1, FS_AddElement
    <2> QED BY <1>1, <1>2, <1>3, <2>2 DEF Construct
  <1>4. ASSUME NEW o \in Obj, NEW t \in Thread, ConstructFails(o, t)
        PROVE  num_threads' >= Cardinality(Joinables')
    <2>1. Joinables' = Joinables
      BY <1>4 DEF ConstructFails, Joinables, Empty, ThreadInv, ThreadTypeOK
    <2> QED BY <1>1, <1>2, <1>4, <2>1 DEF ConstructFails
  <1>5. ASSUME NEW o \in Obj, Destroy(o)
        PROVE  num_threads' >= Cardinality(Joinables')
    <2>1. Joinables' = Joinables
      BY <1>5 DEF Destroy, Abort, Joinables, Empty, ThreadInv, ThreadTypeOK, object
    <2> QED BY <1>2, <1>5, <2>1 DEF Destroy, Abort
  <1>6. ASSUME NEW to \in Obj, NEW from \in Obj, MoveAssign(to, from)
        PROVE  num_threads' >= Cardinality(Joinables')
    <2>0. UNCHANGED num_threads
      BY <1>6 DEF MoveAssign, Abort
    <2>1. CASE joinable(to)
      <3>1. Joinables' = Joinables
        BY <1>6, <2>1 DEF MoveAssign, Abort, Joinables, object
      <3> QED BY <1>2, <2>0, <3>1
    <2>2. CASE ~joinable(to)
      <3> DEFINE R == Joinables \ {from}
      <3>1. Joinables' = R \union {to} /\ to \notin R /\ from \in Joinables
        BY <1>6, <2>2 DEF MoveAssign, Joinables, Disengage, ThreadInv, ThreadTypeOK, Storage
      <3>2. IsFiniteSet(R) /\ Cardinality(R) = Cardinality(Joinables) - 1
        BY <1>1, <3>1, FS_RemoveElement
      <3>3. Cardinality(R \union {to}) = Cardinality(R) + 1
        BY <3>1, <3>2, FS_AddElement
      <3> QED BY <1>1, <1>2, <2>0, <3>1, <3>2, <3>3
    <2> QED BY <2>1, <2>2
  <1>7. ASSUME NEW o \in Obj, Join(o) \/ Detach(o)
        PROVE  num_threads' >= Cardinality(Joinables')
    <2>1. joinable(o) /\ reset(o)
      BY <1>7 DEF Join, Detach
    <2>2. Joinables' = Joinables \ {o} /\ o \in Joinables
      BY <2>1 DEF reset, Disengage, Joinables, ThreadInv, ThreadTypeOK, Storage
    <2>3. Cardinality(Joinables') = Cardinality(Joinables) - 1
      BY <1>1, <2>2, FS_RemoveElement
    <2> QED BY <1>1, <1>2, <2>1, <2>3 DEF reset
  <1>8. ASSUME NEW t \in Thread, ThreadEnds(t)
        PROVE  num_threads' >= Cardinality(Joinables')
    BY <1>2, <1>8 DEF ThreadEnds, Joinables, object
  <1>9. CASE UNCHANGED threadVars
    BY <1>2, <1>9 DEF threadVars, Joinables, object
  <1> QED BY <1>3, <1>4, <1>5, <1>6, <1>7, <1>8, <1>9 DEF ThreadNext, Operation

-----------------------------------------------------------------------------
\* Constructions, moves from joinable objects, joins and detaches keep the
\* invariant: objects and threads stay matched by their pthread_t.
THEOREM ThreadInvariance ==
    ASSUME ~MovesEmpty
    PROVE  ThreadSpec => []ThreadInv
  <1>1. ThreadInit => ThreadInv
    BY InitThreadInv
  <1>2. ThreadInv /\ [ThreadNext]_threadVars => ThreadInv'
    BY NextThreadInv
  <1> QED BY <1>1, <1>2, PTL DEF ThreadSpec

\* Every variable of PosixThread keeps its type.
THEOREM ThreadTypesCorrect ==
    ASSUME ~MovesEmpty
    PROVE  ThreadSpec => []ThreadTypeOK
  <1>1. ThreadInv => ThreadTypeOK
    BY DEF ThreadInv
  <1> QED BY <1>1, ThreadInvariance, PTL

\* What a joinable() object holds is the pthread_t of its own thread, which
\* was neither joined nor detached, however pthread_t values are recycled.
THEOREM ThreadsAreOwn ==
    ASSUME ~MovesEmpty
    PROVE  ThreadSpec => []JoinableHasThread
  <1>1. ThreadInv => JoinableHasThread
    BY DEF ThreadInv
  <1> QED BY <1>1, ThreadInvariance, PTL

\* Every thread that has to be joined is held by exactly one object.
THEOREM NoThreadLost ==
    ASSUME ~MovesEmpty
    PROVE  ThreadSpec => []JoinableHeldOnce
  <1>1. ThreadInv => JoinableHeldOnce
    BY DEF ThreadInv
  <1> QED BY <1>1, ThreadInvariance, PTL

\* The static counter of threads never wraps around.
THEOREM NumThreadsCounts ==
    ASSUME ~MovesEmpty
    PROVE  ThreadSpec => []NumThreadsNeverWraps
  <1>1. ThreadInit => NumThreadsNeverWraps
    <2> SUFFICES ASSUME ThreadInit
                 PROVE  NumThreadsNeverWraps
      OBVIOUS
    <2>1. {o \in Obj : joinable(o)} = {}
      BY DEF ThreadInit, Empty, joinable
    <2> QED BY <2>1, FS_EmptySet DEF ThreadInit, NumThreadsNeverWraps
  <1>2. ThreadInv /\ NumThreadsNeverWraps /\ [ThreadNext]_threadVars => NumThreadsNeverWraps'
    BY NextCounted
  <1> QED BY <1>1, <1>2, ThreadInvariance, PTL DEF ThreadSpec

-----------------------------------------------------------------------------
(***************************************************************************)
(* SigAction, for any number of handlers and receivers.  The proofs assume *)
(* that the actions of the signal are set by one thread.                   *)
(***************************************************************************)

OneSetter == \A s, t \in Setter : s = t

\* The actions that are ever passed, returned or in force.
WellFormed == CustomActions \union ResetActions \union {Action("foreign", UNKNOWN), NoAction}

\* Kernel and tables stand for the action that is in force, where raw is what
\* the kernel delivers to, or was before the call in progress.
InForceIs(raw) == inForce = updateFromOld(raw, info_handlers, simple_handlers)

\* Where a call of set_action() or get_action() is, and what it has done.
CallInv(t) ==
    /\ pc[t] \in {"idle", "loading", "storing", "clearing"}
    /\ pc[t] = "idle" => InForceIs(disposition)
    /\ pc[t] = "loading" =>
        /\ InForceIs(raw_old[t])
        /\ disposition = IF arg[t] = NoAction THEN raw_old[t] ELSE arg[t].raw
    /\ pc[t] \in {"storing", "clearing"} => arg[t] # NoAction /\ disposition = arg[t].raw
    /\ pc[t] = "clearing" => simple_handlers = Null /\ arg[t].handler \in Special

SetterInv ==
    /\ SigActionTypeOK
    /\ inForce \in WellFormed \ {NoAction}
    /\ \A t \in Setter : arg[t] \in WellFormed /\ old[t] \in WellFormed /\ CallInv(t)
    /\ TablesSettle

-----------------------------------------------------------------------------
(* Actions and their handlers *)

LEMMA Shape ==
    ASSUME NEW a \in WellFormed
    PROVE  /\ a \in ActionType
           /\ a = Action(a.raw, a.handler)
           /\ a.handler \in SimpleHandler <=> a.raw = "simple"
           /\ a.handler \in InfoHandler <=> a.raw = "info"
           /\ a.handler \in Special <=> a.raw \notin {"simple", "info"}
           /\ a.raw = "none" <=> a = NoAction
           /\ a.raw = "default" => a.handler = DEFAULT
           /\ a.raw = "ignore" => a.handler = IGNORE
           /\ a.raw \in {"foreign", "none"} => a.handler = UNKNOWN
  BY SigActionAssumption DEF WellFormed, CustomActions, ResetActions, NoAction, Action, ActionType,
     Raw, Handler, Special

\* An action is what updateFromOld() makes of the kernel and the tables once
\* the table of its kind has its handler.
LEMMA Restored ==
    ASSUME NEW a \in WellFormed, NEW info, NEW simple,
           a.raw = "simple" => simple = a.handler,
           a.raw = "info" => info = a.handler
    PROVE  updateFromOld(a.raw, info, simple) = a
  <1>1. updateFromOld(a.raw, info, simple).handler = a.handler
    BY Shape DEF updateFromOld, Action, ActionType, Raw
  <1> QED BY <1>1, Shape DEF updateFromOld, Action

\* The raw part of the action in force is what InForceIs says.
LEMMA InForceRaw ==
    ASSUME NEW raw, InForceIs(raw)
    PROVE  /\ inForce.raw = raw
           /\ raw = "simple" => inForce.handler = simple_handlers
           /\ raw = "info" => inForce.handler = info_handlers
  BY DEF InForceIs, updateFromOld, Action

LEMMA InitSetter == SigActionInit => SetterInv
  <1> SUFFICES ASSUME SigActionInit
               PROVE  SetterInv
    OBVIOUS
  <1>1. inForce \in {Action("default", DEFAULT), Action("foreign", UNKNOWN)} /\ InForceIs(disposition)
    BY DEF SigActionInit, InForceIs, updateFromOld, DEFAULT
  <1>2. inForce \in WellFormed \ {NoAction}
    BY <1>1 DEF WellFormed, ResetActions, NoAction, Action
  <1>3. NoAction \in WellFormed
    BY DEF WellFormed
  <1>4. SigActionTypeOK
    BY <1>2, <1>3, Shape DEF SigActionInit, SigActionTypeOK, Raw
  <1>5. TablesSettle
    BY <1>1 DEF TablesSettle, InForceIs
  <1> QED BY <1>1, <1>2, <1>3, <1>4, <1>5, SigActionAssumption DEF SigActionInit, SetterInv, CallInv

-----------------------------------------------------------------------------
LEMMA SettableWellFormed ==
    ASSUME SetterInv, NEW t \in Setter, NEW action \in Settable(t)
    PROVE  action \in WellFormed \ {NoAction}
  BY SigActionAssumption DEF SetterInv, Settable, WellFormed, CustomActions, ResetActions, NoAction,
     Action

LEMMA SetBeginKeeps ==
    ASSUME OneSetter, SetterInv, NEW t \in Setter, NEW action \in Settable(t), SetBegin(t, action)
    PROVE  SetterInv'
  <1>1. action \in WellFormed \ {NoAction} /\ action \in ActionType /\ action.raw # "none"
    BY SettableWellFormed, Shape
  <1>2. SigActionTypeOK'
    <2>1. used' \subseteq Raw /\ expected' \in [Receiver -> SUBSET (Handler \union Special)]
      BY <1>1 DEF SetterInv, SigActionTypeOK, SetBegin, ActionType
    <2>2. disposition' \in Raw \ {"none"} /\ arg' \in [Setter -> ActionType] /\ raw_old' \in [Setter -> Raw]
      BY <1>1 DEF SetterInv, SigActionTypeOK, SetBegin, ActionType
    <2> QED BY <2>1, <2>2 DEF SetterInv, SigActionTypeOK, SetBegin, tables
  <1>3. InForceIs(raw_old[t])' /\ pc'[t] = "loading" /\ arg'[t] = action
    BY DEF SetterInv, SigActionTypeOK, SetBegin, CallInv, InForceIs, tables
  <1>4. CallInv(t)'
    BY <1>1, <1>3 DEF CallInv, SetBegin
  <1>5. \A s \in Setter : s = t
    BY DEF OneSetter
  <1> QED BY <1>1, <1>2, <1>3, <1>4, <1>5 DEF SetterInv, SetBegin, TablesSettle

LEMMA GetBeginKeeps ==
    ASSUME OneSetter, SetterInv, NEW t \in Setter, GetBegin(t)
    PROVE  SetterInv'
  <1>1. NoAction \in WellFormed /\ NoAction \in ActionType
    BY Shape DEF WellFormed
  <1>2. SigActionTypeOK'
    BY <1>1 DEF SetterInv, SigActionTypeOK, GetBegin, tables, history, receiver
  <1>3. InForceIs(raw_old[t])' /\ pc'[t] = "loading" /\ arg'[t] = NoAction /\ raw_old'[t] = disposition
    BY DEF SetterInv, SigActionTypeOK, GetBegin, CallInv, InForceIs, tables, history
  <1>4. CallInv(t)'
    BY <1>3 DEF CallInv, GetBegin
  <1>5. \A s \in Setter : s = t
    BY DEF OneSetter
  <1> QED BY <1>1, <1>2, <1>3, <1>4, <1>5 DEF SetterInv, GetBegin, TablesSettle, history

\* The action that a call returns is the one in force.
LEMMA LoadReturns ==
    ASSUME SetterInv, NEW t \in Setter, Load(t)
    PROVE  old'[t] = inForce
  BY DEF SetterInv, SigActionTypeOK, CallInv, InForceIs, Load

LEMMA LoadKeeps ==
    ASSUME OneSetter, SetterInv, NEW t \in Setter, Load(t)
    PROVE  SetterInv'
  <1>1. old'[t] = inForce
    BY LoadReturns
  <1>2. old' = [old EXCEPT ![t] = inForce]
    BY <1>1 DEF SetterInv, SigActionTypeOK, Load
  <1>3. SigActionTypeOK'
    BY ZenonT(30), <1>2 DEF SetterInv, SigActionTypeOK, Load, tables, history, receiver
  <1>4. CallInv(t)'
    BY DEF SetterInv, SigActionTypeOK, Load, CallInv, InForceIs, tables, history
  <1>5. \A s \in Setter : s = t
    BY DEF OneSetter
  <1>6. TablesSettle'
    BY <1>4 DEF TablesSettle, CallInv, InForceIs
  <1> QED BY <1>1, <1>3, <1>4, <1>5, <1>6 DEF SetterInv, Load, history

LEMMA StoreSimpleKeeps ==
    ASSUME OneSetter, SetterInv, NEW t \in Setter, StoreSimple(t)
    PROVE  SetterInv'
  <1>1. arg[t] \in WellFormed \ {NoAction} /\ disposition = arg[t].raw
    BY DEF SetterInv, StoreSimple, CallInv
  <1>2. \A s \in Setter : s = t
    BY DEF OneSetter
  <1>3. inForce' \in WellFormed \ {NoAction}
    BY <1>1 DEF SetterInv, StoreSimple
  <1>4. arg[t].handler \in SimpleHandler \/ arg[t].handler \in Special
    BY <1>1, Shape DEF StoreSimple, ActionType, Handler
  <1>5. SigActionTypeOK'
    <2>1. simple_handlers' \in SimpleHandler \union {Null}
      BY <1>4 DEF StoreSimple
    <2>2. inForce' \in ActionType
      BY <1>3, Shape
    <2> QED BY <2>1, <2>2 DEF SetterInv, SigActionTypeOK, StoreSimple, setter, receiver
  <1>6. CASE arg[t].handler \in Special
    <2>1. CallInv(t)'
      BY <1>1, <1>6 DEF SetterInv, SigActionTypeOK, StoreSimple, CallInv, setter
    <2>2. pc'[t] = "clearing"
      BY <1>6 DEF SetterInv, SigActionTypeOK, StoreSimple
    <2> QED BY <1>2, <1>3, <1>5, <2>1, <2>2 DEF SetterInv, StoreSimple, TablesSettle, setter
  <1>7. CASE arg[t].handler \notin Special
    <2>1. arg[t].raw = "simple"
      BY <1>1, <1>4, <1>7, Shape
    <2>2. updateFromOld(arg[t].raw, info_handlers, arg[t].handler) = arg[t]
      BY <1>1, <2>1, Restored
    <2>3. InForceIs(disposition)' /\ pc'[t] = "idle"
      BY <1>1, <1>7, <2>2 DEF SetterInv, SigActionTypeOK, StoreSimple, InForceIs
    <2>4. TablesSettle' /\ CallInv(t)'
      BY <2>3 DEF TablesSettle, CallInv, InForceIs
    <2> QED BY <1>2, <1>3, <1>5, <2>4 DEF SetterInv, StoreSimple, setter
  <1> QED BY <1>6, <1>7

LEMMA StoreInfoKeeps ==
    ASSUME OneSetter, SetterInv, NEW t \in Setter, StoreInfo(t)
    PROVE  SetterInv'
  <1>1. arg[t] \in WellFormed \ {NoAction} /\ disposition = arg[t].raw
    BY DEF SetterInv, StoreInfo, CallInv
  <1>2. \A s \in Setter : s = t
    BY DEF OneSetter
  <1>3. inForce' = arg[t]
    BY DEF StoreInfo
  <1>4. info_handlers' = IF pc[t] = "clearing" THEN Null ELSE arg[t].handler
    BY DEF StoreInfo
  <1>5. SigActionTypeOK'
    <2>1. info_handlers' \in InfoHandler \union {Null}
      BY DEF StoreInfo
    <2>2. inForce' \in ActionType
      BY <1>1, <1>3, Shape
    <2> QED BY <2>1, <2>2 DEF SetterInv, SigActionTypeOK, StoreInfo, setter, receiver
  <1>6. updateFromOld(arg[t].raw, info_handlers', simple_handlers) = arg[t]
    <2>1. CASE pc[t] = "clearing"
      <3>1. arg[t].raw \notin {"simple", "info"}
        BY <1>1, <2>1, Shape DEF SetterInv, CallInv
      <3> QED BY <1>1, <3>1, Restored
    <2>2. CASE pc[t] # "clearing"
      <3>1. arg[t].raw = "info" /\ info_handlers' = arg[t].handler
        BY <1>1, <1>4, <2>2, Shape DEF StoreInfo
      <3> QED BY SMTT(30), <1>1, <3>1, Restored
    <2> QED BY <2>1, <2>2
  <1>7. InForceIs(disposition)' /\ pc'[t] = "idle"
    BY <1>1, <1>3, <1>6 DEF SetterInv, SigActionTypeOK, StoreInfo, InForceIs
  <1>8. TablesSettle' /\ CallInv(t)'
    BY <1>7 DEF TablesSettle, CallInv, InForceIs
  <1> QED BY <1>1, <1>2, <1>3, <1>5, <1>8 DEF SetterInv, StoreInfo, setter

LEMMA ReceiverKeeps ==
    ASSUME SetterInv, NEW r \in Receiver, ReceiverStep(r)
    PROVE  SetterInv'
  <1>1. UNCHANGED <<disposition, tables, setter, history>>
    BY DEF ReceiverStep, Deliver, Check, Call
  <1>2. \A t \in Setter : pc'[t] = pc[t]
    BY ZenonT(60), SigActionAssumption DEF SetterInv, SigActionTypeOK, ReceiverStep, Deliver, Check, Call
  <1>3. SigActionTypeOK'
    <2>1. \A t \in Setter : arg[t].handler \in Handler \union Special
      BY DEF SetterInv, SigActionTypeOK, ActionType
    <2>2. Incoming \subseteq Handler \union Special
      BY <2>1 DEF Incoming, Setting
    <2>3. inForce.handler \in Handler \union Special
      BY DEF SetterInv, SigActionTypeOK, ActionType
    <2>4. expected' \in [Receiver -> SUBSET (Handler \union Special)]
      <3>1. CASE Deliver(r)
        <4>1. {inForce.handler} \union Incoming \in SUBSET (Handler \union Special)
          BY <2>2, <2>3
        <4> QED BY <3>1, <4>1 DEF SetterInv, SigActionTypeOK, Deliver
      <3>2. CASE Check(r) \/ Call(r)
        BY <3>2 DEF SetterInv, SigActionTypeOK, Check, Call
      <3> QED BY <3>1, <3>2 DEF ReceiverStep
    <2>5. pc' \in [Setter \union Receiver ->
                     {"idle", "loading", "storing", "clearing",
                      "simple", "info", "calling simple", "calling info"}]
      BY ZenonT(30) DEF SetterInv, SigActionTypeOK, ReceiverStep, Deliver, Check, Call
    <2>6. outcome' \in [Receiver ->
                          {"none", "dropped", "expected called", "other called", "null called"}]
      BY DEF SetterInv, SigActionTypeOK, ReceiverStep, Deliver, Check, Call
    <2> QED BY <1>1, <2>4, <2>5, <2>6 DEF SetterInv, SigActionTypeOK, tables, setter, history
  <1>4. \A t \in Setter : CallInv(t)'
    BY <1>1, <1>2 DEF SetterInv, CallInv, InForceIs, tables, setter, history
  <1>5. TablesSettle'
    BY <1>1, <1>2 DEF SetterInv, TablesSettle, tables, history
  <1> QED BY <1>1, <1>3, <1>4, <1>5 DEF SetterInv, setter, history

LEMMA NextSetter ==
    ASSUME OneSetter, SetterInv, [SigActionNext]_sigActionVars
    PROVE  SetterInv'
  <1>1. CASE UNCHANGED sigActionVars
    BY ZenonT(30), <1>1 DEF sigActionVars, tables, setter, history, receiver, SetterInv, SigActionTypeOK, CallInv, InForceIs, TablesSettle
  <1>2. ASSUME NEW t \in Setter, SetterStep(t)
        PROVE  SetterInv'
    BY <1>2, SetBeginKeeps, GetBeginKeeps, LoadKeeps, StoreSimpleKeeps, StoreInfoKeeps DEF SetterStep
  <1>3. ASSUME NEW r \in Receiver, ReceiverStep(r)
        PROVE  SetterInv'
    BY <1>3, ReceiverKeeps
  <1> QED BY <1>1, <1>2, <1>3 DEF SigActionNext

LEMMA SetterInvariance ==
    ASSUME OneSetter
    PROVE  SigActionSpec => []SetterInv
  <1>1. SetterInv /\ [SigActionNext]_sigActionVars => SetterInv'
    BY NextSetter
  <1> QED BY <1>1, InitSetter, PTL DEF SigActionSpec

\* The variables of SigAction keep their types.
THEOREM SigActionTypesCorrect ==
    ASSUME OneSetter
    PROVE  SigActionSpec => []SigActionTypeOK
  <1>1. SetterInv => SigActionTypeOK
    BY DEF SetterInv
  <1> QED BY <1>1, SetterInvariance, PTL

\* Between two calls, the kernel and the tables of handlers agree on the
\* action that was set last.
THEOREM TablesAgree ==
    ASSUME OneSetter
    PROVE  SigActionSpec => []TablesSettle
  <1>1. SetterInv => TablesSettle
    BY DEF SetterInv
  <1> QED BY <1>1, SetterInvariance, PTL

\* set_action() and get_action() return the action that was in force.
THEOREM OldIsInForce ==
    ASSUME OneSetter
    PROVE  SigActionSpec => OldWasInForce
  <1>1. SetterInv => [\A t \in Setter : Load(t) => old'[t] = inForce]_sigActionVars
    BY LoadReturns
  <1> QED BY <1>1, SetterInvariance, PTL DEF OldWasInForce

-----------------------------------------------------------------------------
(* The hand-over between handlers of one kind *)

Kinds == {"simple", "info"}
stored(k) == IF k = "simple" THEN simple_handlers ELSE info_handlers
inCall(k) == IF k = "simple" THEN "calling simple" ELSE "calling info"

\* Nothing was set yet.
Unused ==
    /\ disposition \notin Kinds
    /\ simple_handlers = Null /\ info_handlers = Null
    /\ inForce.handler \in Special
    /\ \A t \in Setter : arg[t] = NoAction
    /\ \A r \in Receiver : pc[r] = "idle" /\ outcome[r] = "none"

\* The outcomes that OneKindHandsOver allows.
Expected(r) ==
    \/ outcome[r] \in {"none", "expected called"}
    \/ outcome[r] = "dropped" /\ expected[r] \intersect Special # {}

\* A receiver in the entry point for k finds what it expects in the table, now
\* and after the stores that are due.
Covered(r, k) ==
    /\ Expected(r)
    /\ pc[r] \in {"idle", k, inCall(k)}
    /\ pc[r] # "idle" =>
        /\ \A t \in Setting : arg[t].handler \in expected[r]
        /\ stored(k) # Null => stored(k) \in expected[r]
        /\ stored(k) = Null => expected[r] \intersect Special # {}
    /\ pc[r] = inCall(k) => stored(k) # Null

\* Only handlers of kind k were set.
OnlyKind(k) ==
    /\ disposition \in Kinds => disposition = k
    /\ stored(k) # Null => stored(k) = inForce.handler
    /\ stored(k) = Null => inForce.handler \in Special
    /\ \A t \in Setter : arg[t] # NoAction => arg[t].raw = k
    /\ \A r \in Receiver : Covered(r, k)

HandOverInv ==
    /\ SetterInv
    /\ used = {} => Unused
    /\ \A k \in Kinds : used = {k} => OnlyKind(k)

LEMMA InitHandOver == SigActionInit => HandOverInv
  <1> SUFFICES ASSUME SigActionInit
               PROVE  HandOverInv
    OBVIOUS
  <1>1. inForce.handler \in Special /\ disposition \notin Kinds
    BY DEF SigActionInit, updateFromOld, Action, Special, DEFAULT, Kinds
  <1>2. Unused
    BY <1>1 DEF SigActionInit, Unused
  <1> QED BY <1>2, InitSetter DEF SigActionInit, HandOverInv

LEMMA SetBeginHandsOver ==
    ASSUME OneSetter, HandOverInv, NEW t \in Setter, NEW action \in Settable(t), SetBegin(t, action)
    PROVE  HandOverInv'
  <1>1. SetterInv'
    BY SetBeginKeeps DEF HandOverInv
  <1>2. used' = used \union {action.raw} /\ used' # {}
    BY DEF SetBegin
  <1>3. \A s \in Setter : s = t
    BY DEF OneSetter
  <1>4. ASSUME NEW k \in Kinds, used' = {k}
        PROVE  OnlyKind(k)'
    <2>1. action.raw = k /\ (used = {} \/ used = {k})
      BY <1>2, <1>4
    <2>2. UNCHANGED <<simple_handlers, info_handlers, inForce, outcome>> /\ stored(k)' = stored(k)
      BY DEF SetBegin, tables, stored
    <2>3. /\ arg'[t] = action
          /\ \A r \in Receiver :
                pc'[r] = pc[r] /\ expected'[r] = expected[r] \union {action.handler}
      BY SigActionAssumption DEF SetBegin, HandOverInv, SetterInv, SigActionTypeOK
    <2>4. CASE used = {}
      <3>1. Unused
        BY <2>4 DEF HandOverInv
      <3>2. stored(k) = Null
        BY <3>1 DEF Unused, stored
      <3>3. \A r \in Receiver : Covered(r, k)'
        <4>1. \A r \in Receiver : pc'[r] = "idle" /\ outcome'[r] = "none"
          BY <2>2, <2>3, <3>1 DEF Unused
        <4>2. inCall(k) # "idle" /\ inCall(k)' = inCall(k)
          BY DEF inCall
        <4> QED BY <4>1, <4>2 DEF Covered, Expected
      <3>4. inForce'.handler \in Special /\ stored(k)' = Null
        BY <2>2, <3>1, <3>2 DEF Unused
      <3>5. \A s \in Setter : arg'[s].raw = k
        BY <1>3, <2>1, <2>3
      <3> QED BY <2>1, <3>3, <3>4, <3>5 DEF OnlyKind, SetBegin
    <2>5. CASE used = {k}
      <3>1. OnlyKind(k)
        BY <2>5 DEF HandOverInv
      <3>2. \A r \in Receiver : Covered(r, k)'
        <4>1. TAKE r \in Receiver
        <4>2. Covered(r, k) /\ expected[r] \subseteq expected'[r]
          BY <2>3, <3>1 DEF OnlyKind
        <4>3. \A s \in Setting' : arg'[s].handler \in expected'[r]
          BY <1>3, <2>3 DEF Setting
        <4> QED BY <2>2, <2>3, <4>2, <4>3 DEF Covered, Expected, inCall
      <3> QED BY <1>3, <2>1, <2>2, <2>3, <3>1, <3>2 DEF OnlyKind, SetBegin
    <2> QED BY <2>1, <2>4, <2>5
  <1> QED BY <1>1, <1>2, <1>4 DEF HandOverInv

\* A step of a setter after which no handler is due that was not before, and
\* that leaves kernel, tables and receivers alone.
LEMMA CallProgresses ==
    ASSUME HandOverInv, SetterInv', Setting' \subseteq Setting,
           UNCHANGED <<disposition, tables, history, receiver>>,
           \A t \in Setter : arg'[t] \in {arg[t], NoAction},
           \A r \in Receiver : pc'[r] = pc[r]
    PROVE  HandOverInv'
  <1>1. used = {} => Unused'
    BY DEF HandOverInv, Unused, tables, history, receiver
  <1>2. ASSUME NEW k \in Kinds, used = {k}
        PROVE  OnlyKind(k)'
    <2>1. OnlyKind(k) /\ stored(k)' = stored(k)
      BY <1>2 DEF HandOverInv, stored, tables
    <2>2. \A s \in Setting' : arg'[s] = arg[s]
      BY DEF Setting
    <2>3. \A r \in Receiver : Covered(r, k)'
      BY ZenonT(30), <2>1, <2>2 DEF OnlyKind, Covered, Expected, receiver, inCall
    <2> QED BY <2>1, <2>3 DEF OnlyKind, history
  <1> QED BY <1>1, <1>2 DEF HandOverInv, history

LEMMA GetBeginHandsOver ==
    ASSUME OneSetter, HandOverInv, NEW t \in Setter, GetBegin(t)
    PROVE  HandOverInv'
  <1>1. SetterInv'
    BY GetBeginKeeps DEF HandOverInv
  <1>2. arg' = [arg EXCEPT ![t] = NoAction] /\ pc' = [pc EXCEPT ![t] = "loading"]
    BY DEF GetBegin
  <1>3. Setting' \subseteq Setting
    BY <1>2 DEF HandOverInv, SetterInv, SigActionTypeOK, Setting
  <1>4. /\ \A s \in Setter : arg'[s] \in {arg[s], NoAction}
        /\ \A r \in Receiver : pc'[r] = pc[r]
    BY <1>2, SigActionAssumption DEF HandOverInv, SetterInv, SigActionTypeOK
  <1> QED BY <1>1, <1>3, <1>4, CallProgresses DEF GetBegin

LEMMA LoadHandsOver ==
    ASSUME OneSetter, HandOverInv, NEW t \in Setter, Load(t)
    PROVE  HandOverInv'
  <1>1. SetterInv'
    BY LoadKeeps DEF HandOverInv
  <1>2. Setting' \subseteq Setting
    BY DEF HandOverInv, SetterInv, SigActionTypeOK, Setting, Load
  <1>3. \A r \in Receiver : pc'[r] = pc[r]
    BY ZenonT(30), SigActionAssumption DEF HandOverInv, SetterInv, SigActionTypeOK, Load
  <1> QED BY <1>1, <1>2, <1>3, CallProgresses DEF Load

\* A store of a handler: it goes to the table of the kind, and every receiver
\* on its way expects it.
LEMMA StoreHandsOver ==
    ASSUME OneSetter, HandOverInv, NEW t \in Setter, StoreSimple(t) \/ StoreInfo(t)
    PROVE  HandOverInv'
  <1>1. SetterInv'
    BY StoreSimpleKeeps, StoreInfoKeeps DEF HandOverInv
  <1>2. UNCHANGED <<disposition, setter, used, receiver>>
    BY DEF StoreSimple, StoreInfo
  <1>3. arg[t] \in WellFormed \ {NoAction} /\ t \in Setting
    BY DEF HandOverInv, SetterInv, CallInv, StoreSimple, StoreInfo, Setting
  <1>4. used # {}
    BY <1>3 DEF HandOverInv, Unused
  <1>5. ASSUME NEW k \in Kinds, used = {k}
        PROVE  OnlyKind(k)'
    <2>1. OnlyKind(k) /\ arg[t].raw = k
      BY <1>3, <1>5 DEF HandOverInv, OnlyKind
    <2>2. arg[t].handler \notin Special /\ pc[t] # "clearing" /\ arg[t].handler # Null
      BY <1>3, <2>1, Shape DEF Kinds, HandOverInv, SetterInv, CallInv, Special, DEFAULT
    <2>3. stored(k)' = arg[t].handler /\ inForce' = arg[t] /\ pc' = [pc EXCEPT ![t] = "idle"]
      BY <1>3, <2>1, <2>2, Shape DEF Kinds, StoreSimple, StoreInfo, stored
    <2>4. Setting' \subseteq Setting /\ \A r \in Receiver : pc'[r] = pc[r]
      BY <1>2, <2>3, SigActionAssumption DEF HandOverInv, SetterInv, SigActionTypeOK, Setting, setter
    <2>5. \A r \in Receiver : Covered(r, k)'
      BY ZenonT(30), <1>2, <1>3, <2>1, <2>2, <2>3, <2>4 DEF OnlyKind, Covered, Expected, receiver, setter, inCall
    <2> QED BY <1>2, <2>1, <2>2, <2>3, <2>5 DEF OnlyKind, setter
  <1> QED BY <1>1, <1>2, <1>4, <1>5 DEF HandOverInv

LEMMA ReceiverHandsOver ==
    ASSUME HandOverInv, NEW r \in Receiver, ReceiverStep(r)
    PROVE  HandOverInv'
  <1>1. SetterInv'
    BY ReceiverKeeps DEF HandOverInv
  <1>2. UNCHANGED <<disposition, tables, setter, history>>
    BY DEF ReceiverStep, Deliver, Check, Call
  <1>3. \A t \in Setter : pc'[t] = pc[t]
    BY ZenonT(60), SigActionAssumption DEF HandOverInv, SetterInv, SigActionTypeOK, ReceiverStep, Deliver, Check, Call
  <1>4. used # {}
    BY DEF HandOverInv, Unused, Kinds, ReceiverStep, Deliver, Check, Call
  <1>5. ASSUME NEW k \in Kinds, used = {k}
        PROVE  OnlyKind(k)'
    <2>1. OnlyKind(k) /\ stored(k)' = stored(k) /\ Covered(r, k)
      BY <1>2, <1>5 DEF HandOverInv, OnlyKind, stored, tables
    <2>2. Setting' = Setting
      BY <1>2, <1>3 DEF Setting, setter
    <2>3. pc[r] \in {k, inCall(k)} => entry(r) = stored(k)
      BY DEF entry, stored, inCall, Kinds
    <2>4. Covered(r, k)'
      <3>1. CASE Deliver(r)
        <4>1. pc'[r] = k /\ expected'[r] = {inForce.handler} \union Incoming /\ outcome'[r] = "none"
          BY <2>1, <3>1 DEF OnlyKind, Deliver, Kinds, HandOverInv, SetterInv, SigActionTypeOK
        <4>2. \A t \in Setting : arg[t].handler \in expected'[r]
          BY <4>1 DEF Incoming
        <4>3. k # inCall(k)
          BY DEF Kinds, inCall
        <4> QED BY <1>2, <2>1, <2>2, <4>1, <4>2, <4>3 DEF OnlyKind, Covered, Expected, setter, inCall
      <3>2. CASE Check(r)
        <4>1. pc[r] = k /\ entry(r) = stored(k) /\ expected' = expected
          BY <2>1, <2>3, <3>2 DEF Covered, Check, Kinds, inCall
        <4>2. CASE stored(k) = Null
          BY <1>2, <2>1, <2>2, <3>2, <4>1, <4>2 DEF Covered, Expected, Check, HandOverInv, SetterInv, SigActionTypeOK, setter, inCall, Kinds
        <4>3. CASE stored(k) # Null
          <5>1. pc'[r] = inCall(k) /\ outcome' = outcome
            BY <3>2, <4>1, <4>3 DEF Check, HandOverInv, SetterInv, SigActionTypeOK, inCall, Kinds
          <5>2. Expected(r)'
            BY <2>1, <4>1, <5>1 DEF Covered, Expected
          <5>3. k # "idle" /\ arg' = arg
            BY <1>2 DEF Kinds, setter
          <5>4. (\A t \in Setting : arg[t].handler \in expected[r]) /\ stored(k) \in expected[r]
            BY <2>1, <4>1, <4>3, <5>3 DEF Covered
          <5> QED BY <2>1, <2>2, <4>1, <4>3, <5>1, <5>2, <5>3, <5>4 DEF Covered, inCall
        <4> QED BY <4>2, <4>3
      <3>3. CASE Call(r)
        <4>1. pc[r] = inCall(k) /\ entry(r) = stored(k) /\ expected' = expected
          BY <2>1, <2>3, <3>3 DEF Covered, Call, Kinds, inCall
        <4>2. pc'[r] = "idle" /\ outcome'[r] = "expected called"
          BY <2>1, <3>3, <4>1 DEF Covered, Call, HandOverInv, SetterInv, SigActionTypeOK, inCall
        <4> QED BY <4>2 DEF Covered, Expected, inCall, Kinds
      <3> QED BY <3>1, <3>2, <3>3 DEF ReceiverStep
    <2>5. ASSUME NEW q \in Receiver, q # r
          PROVE  Covered(q, k)'
      <3>1. pc'[q] = pc[q] /\ expected'[q] = expected[q] /\ outcome'[q] = outcome[q]
        BY ZenonT(30), <2>5 DEF HandOverInv, SetterInv, SigActionTypeOK, ReceiverStep, Deliver, Check, Call
      <3> QED BY <1>2, <2>1, <2>2, <3>1 DEF OnlyKind, Covered, Expected, setter, inCall
    <2> QED BY <1>2, <2>1, <2>4, <2>5 DEF OnlyKind, setter, history
  <1> QED BY <1>1, <1>2, <1>4, <1>5 DEF HandOverInv, history

LEMMA NextHandOver ==
    ASSUME OneSetter, HandOverInv, [SigActionNext]_sigActionVars
    PROVE  HandOverInv'
  <1>1. CASE UNCHANGED sigActionVars
    <2>1. SetterInv'
      BY <1>1, NextSetter DEF HandOverInv
    <2>2. Setting' \subseteq Setting
      BY <1>1 DEF sigActionVars, setter, Setting
    <2> QED BY <1>1, <2>1, <2>2, CallProgresses DEF sigActionVars, setter
  <1>2. ASSUME NEW t \in Setter, SetterStep(t)
        PROVE  HandOverInv'
    BY <1>2, SetBeginHandsOver, GetBeginHandsOver, LoadHandsOver, StoreHandsOver DEF SetterStep
  <1>3. ASSUME NEW r \in Receiver, ReceiverStep(r)
        PROVE  HandOverInv'
    BY <1>3, ReceiverHandsOver
  <1> QED BY <1>1, <1>2, <1>3 DEF SigActionNext

\* In a program with handlers of one kind, a signal reaches the handler that
\* was in force or a newer one, and is dropped only if one of these actions
\* has none: the two loads of simple_handler() and info_handler() are harmless.
THEOREM HandlersHandOver ==
    ASSUME OneSetter
    PROVE  SigActionSpec => []OneKindHandsOver
  <1>1. HandOverInv /\ [SigActionNext]_sigActionVars => HandOverInv'
    BY NextHandOver
  <1>2. HandOverInv => OneKindHandsOver
    BY DEF HandOverInv, OnlyKind, Covered, Expected, OneKindHandsOver, Kinds
  <1> QED BY <1>1, <1>2, InitHandOver, PTL DEF SigActionSpec

-----------------------------------------------------------------------------
(* Messages: the inductive invariant *)

\* Lists of numbers without repetition, as recvmsg() fills them in.
Distinct == {s \in Seq(Num) : \A i, j \in DOMAIN s : s[i] = s[j] => i = j}

CredentialsMessage == [type : {"CREDENTIALS"}, size : 0 .. CredentialsSize]

RightsMessage == [type : {"RIGHTS"}, fds : Distinct \ {<<>>}]

\* What is left of a reception: files come last, and once at most.
Headers ==
    {<<>>} \union {<<c>> : c \in CredentialsMessage} \union {<<r>> : r \in RightsMessage}
      \union {<<pair[1], pair[2]>> : pair \in CredentialsMessage \X RightsMessage}

Piece == [bytes : 1 .. MaxPayload, files : Lists]

MessagesTyped ==
    /\ iovec \in 0 .. MaxPayload
    /\ control_msg \in Lists
    /\ passcred \in BOOLEAN
    /\ queue \in Seq(Piece)
    /\ m_control_buffer \in BufferSizes \union {0}
    /\ msg_controllen = 0 \/ \E extent \in BufferSizes : msg_controllen \in Header .. extent
    /\ msgs \in Headers
    /\ table \in [Num -> File \union {Own, NoFile}]
    /\ mine \in [Num -> File \union {Own, NoFile}]
    /\ m_fds \in Seq(Num)
    /\ m_unclaimed_fds \in BOOLEAN
    /\ m_unclaimed_fds => m_fds \in Distinct
    /\ handed \in Seq(Lists)
    /\ arrived \in Seq(Lists)

His == {n \in Num : mine[n] # NoFile}

\* Every open file of the receiver has one owner.
OwnedByOne ==
    /\ Numbers = His \union InHeader \union Range(Unclaimed)
    /\ His \intersect (InHeader \union Range(Unclaimed)) = {}
    /\ InHeader \intersect Range(Unclaimed) = {}
    /\ \A n \in His : table[n] = mine[n]

MessagesInv == MessagesTyped /\ OwnedByOne

-----------------------------------------------------------------------------
(* Messages: lemmas *)

\* The smaller of two numbers.
LEMMA MinOfTwo ==
    ASSUME NEW a \in Int, NEW b \in Int
    PROVE  Min({a, b}) = IF a <= b THEN a ELSE b
<1> DEFINE least == IF a <= b THEN a ELSE b
<1>1. least \in {a, b} /\ \A y \in {a, b} : least <= y
  OBVIOUS
<1>2. \A x \in {a, b} : (\A y \in {a, b} : x <= y) => x = least
  OBVIOUS
<1> HIDE DEF least
<1>3. (CHOOSE x \in {a, b} : \A y \in {a, b} : x =< y) = least
  BY <1>1, <1>2
<1> QED BY <1>3 DEF Min, least

\* The larger of two numbers.
LEMMA MaxOfTwo ==
    ASSUME NEW a \in Int, NEW b \in Int
    PROVE  Max({a, b}) = IF a >= b THEN a ELSE b
<1> DEFINE most == IF a >= b THEN a ELSE b
<1>1. most \in {a, b} /\ \A y \in {a, b} : most >= y
  OBVIOUS
<1>2. \A x \in {a, b} : (\A y \in {a, b} : x >= y) => x = most
  OBVIOUS
<1> HIDE DEF most
<1>3. (CHOOSE x \in {a, b} : \A y \in {a, b} : x >= y) = most
  BY <1>1, <1>2
<1> QED BY <1>3 DEF Max, most

\* Every place has a free number.
LEMMA PlacesAreTaken ==
    /\ IsFiniteSet(Free) /\ Cardinality(Free) \in Nat
    /\ \A i \in 1 .. Cardinality(Free) : \E n \in Free : Rank(n) = i
<1> DEFINE N == Cardinality(Free)
           Upto(n) == {m \in Free : m <= n}
<1>1. IsFiniteSet(Free) /\ N \in Nat /\ Free \subseteq Nat
  BY MessagesAssumption, FS_Subset, FS_CardinalityType DEF Free
<1> HIDE DEF Free
<1>2. ASSUME NEW n \in Free
      PROVE  IsFiniteSet(Upto(n)) /\ Rank(n) = Cardinality(Upto(n)) /\ Rank(n) \in 1 .. N
  <2>1. IsFiniteSet(Upto(n)) /\ Cardinality(Upto(n)) <= N /\ Cardinality(Upto(n)) \in Nat
    BY <1>1, FS_Subset, FS_CardinalityType
  <2>2. n \in Upto(n)
    BY <1>1
  <2>3. Cardinality(Upto(n)) # 0
    BY <2>1, <2>2, FS_EmptySet
  <2>4. Rank(n) = Cardinality(Upto(n))
    BY DEF Rank
  <2> HIDE DEF Upto, N
  <2> QED BY <1>1, <2>1, <2>3, <2>4
<1>3. ASSUME NEW n \in Free, NEW m \in Free, n < m PROVE Rank(n) # Rank(m)
  <2>0. n \in Nat /\ m \in Nat /\ \A k \in Free : k \in Nat
    BY <1>1
  <2>1. Upto(n) \subseteq Upto(m) /\ m \in Upto(m) /\ m \notin Upto(n)
    <3>1. \A k \in Free : k <= n => k <= m
      BY <1>3, <2>0
    <3>2. m <= m /\ ~(m <= n)
      BY <1>3, <2>0
    <3> QED BY <3>1, <3>2
  <2>2. Upto(n) # Upto(m)
    BY <2>1
  <2>3. IsFiniteSet(Upto(m)) /\ Rank(m) = Cardinality(Upto(m)) /\ Rank(n) = Cardinality(Upto(n))
    BY <1>2
  <2> HIDE DEF Upto
  <2> QED BY <2>1, <2>2, <2>3, FS_Subset
<1> DEFINE f == [n \in Free |-> Rank(n)]
<1>4. f \in Injection(Free, 1 .. N)
  <2>1. f \in [Free -> 1 .. N]
    BY <1>2
  <2>2. \A n, m \in Free : f[n] = f[m] => n = m
    <3>1. ASSUME NEW n \in Free, NEW m \in Free, f[n] = f[m], n # m PROVE FALSE
      <4>1. n < m \/ m < n
        BY <1>1, <3>1
      <4> QED BY <1>3, <3>1, <4>1
    <3> QED BY <3>1
  <2> HIDE DEF f, N
  <2> QED BY <2>1, <2>2 DEF Injection, IsInjective
<1>5. IsFiniteSet(1 .. N) /\ Cardinality(1 .. N) = N
  BY <1>1, FS_Interval
<1>6. f \in Surjection(Free, 1 .. N)
  <2> HIDE DEF f
  <2>1. Cardinality(Free) = Cardinality(1 .. N) <=> f \in Surjection(Free, 1 .. N)
    BY <1>4, <1>5, FS_Injection
  <2> QED BY <1>5, <2>1
<1>7. \A i \in 1 .. N : \E n \in Free : f[n] = i
  <2> HIDE DEF f, N
  <2> QED BY <1>6 DEF Surjection
<1> QED BY <1>1, <1>7

\* New numbers are free and different.
LEMMA FreshNumbers ==
    ASSUME NEW count \in Nat
    PROVE  /\ Fresh(count) \in Distinct
           /\ Len(Fresh(count)) <= count
           /\ \A i \in DOMAIN Fresh(count) : Fresh(count)[i] \in Free
<1> DEFINE N == Cardinality(Free)
           L == Min({count, N})
<1>1. /\ N \in Nat
      /\ \A i \in 1 .. N : \E n \in Free : Rank(n) = i
  BY PlacesAreTaken
<1> HIDE DEF N
<1>2. L \in Nat /\ L <= count /\ L <= N
  BY <1>1, MinOfTwo
<1>3. Fresh(count) = [i \in 1 .. L |-> CHOOSE n \in Free : Rank(n) = i]
  BY DEF Fresh, N
<1> HIDE DEF L
<1>4. \A i \in 1 .. L : Fresh(count)[i] \in Free /\ Rank(Fresh(count)[i]) = i
  <2> SUFFICES ASSUME NEW i \in 1 .. L PROVE Fresh(count)[i] \in Free /\ Rank(Fresh(count)[i]) = i
    OBVIOUS
  <2>1. \E n \in Free : Rank(n) = i
    BY <1>1, <1>2
  <2>2. Fresh(count)[i] = CHOOSE n \in Free : Rank(n) = i
    BY <1>3
  <2> QED BY <2>1, <2>2
<1>5. DOMAIN Fresh(count) = 1 .. L
  BY <1>3
<1>6. Fresh(count) \in Seq(Num) /\ Len(Fresh(count)) = L
  <2>1. \A i \in 1 .. L : Fresh(count)[i] \in Num
    BY <1>4 DEF Free
  <2>2. Fresh(count) \in [1 .. L -> Num]
    BY <1>3, <2>1
  <2> QED BY <1>2, <2>2
<1>7. \A i, j \in 1 .. L : Fresh(count)[i] = Fresh(count)[j] => i = j
  BY <1>4
<1> QED BY <1>2, <1>4, <1>5, <1>6, <1>7 DEF Distinct

\* The numbers in what is left of a reception.
HeldBy(rest) == UNION {Range(rest[i].fds) : i \in {k \in DOMAIN rest : rest[k].type = "RIGHTS"}}

\* They are those of the one message that brought files.
LEMMA HeaderNumbers ==
    /\ HeldBy(<<>>) = {}
    /\ \A c \in CredentialsMessage : HeldBy(<<c>>) = {}
    /\ \A r \in RightsMessage : HeldBy(<<r>>) = Range(r.fds)
    /\ \A c \in CredentialsMessage, r \in RightsMessage : HeldBy(<<c, r>>) = Range(r.fds)
<1> DEFINE K(rest) == {k \in DOMAIN rest : rest[k].type = "RIGHTS"}
<1>0. \A rest : HeldBy(rest) = UNION {Range(rest[i].fds) : i \in K(rest)}
  BY DEF HeldBy
<1>1. K(<<>>) = {}
  OBVIOUS
<1>2. \A c \in CredentialsMessage : K(<<c>>) = {}
  BY DEF CredentialsMessage
<1>3. \A r \in RightsMessage : K(<<r>>) = {1} /\ <<r>>[1] = r
  BY DEF RightsMessage
<1>4. \A c \in CredentialsMessage, r \in RightsMessage : K(<<c, r>>) = {2} /\ <<c, r>>[2] = r
  BY DEF CredentialsMessage, RightsMessage
<1> HIDE DEF K
<1>5. \A x, rest : K(rest) = {x} => HeldBy(rest) = Range(rest[x].fds)
  BY <1>0
<1> QED BY <1>0, <1>1, <1>2, <1>3, <1>4, <1>5

\* A list without repetition has as many members as places.
LEMMA DistinctCounts ==
    ASSUME NEW s \in Distinct
    PROVE  Cardinality(Range(s)) = Len(s) /\ Range(s) \subseteq Num
<1>1. s \in Seq(Num) /\ Len(s) \in Nat /\ DOMAIN s = 1 .. Len(s) /\ \A i, j \in DOMAIN s : s[i] = s[j] => i = j
  BY LenProperties DEF Distinct
<1>2. IsFiniteSet(1 .. Len(s)) /\ Cardinality(1 .. Len(s)) = Len(s)
  BY SMTT(30), <1>1, FS_Interval
<1>3. s \in [1 .. Len(s) -> Range(s)]
  BY <1>1 DEF Range
<1>4. s \in Bijection(1 .. Len(s), Range(s))
  <2>1. s \in Injection(1 .. Len(s), Range(s))
    BY <1>1, <1>3 DEF Injection, IsInjective
  <2>2. s \in Surjection(1 .. Len(s), Range(s))
    BY <1>1, <1>3 DEF Surjection, Range
  <2> QED BY <2>1, <2>2 DEF Bijection
<1>5. ExistsBijection(1 .. Len(s), Range(s))
  BY <1>4 DEF ExistsBijection
<1>6. Cardinality(Range(s)) = Len(s)
  BY <1>2, <1>5, FS_Bijection
<1>7. Range(s) \subseteq Num
  BY <1>1, ElementOfSeq DEF Range
<1> QED BY <1>6, <1>7

\* When the numbers do not suffice, all of them are in use.
LEMMA FreshUsesUp ==
    ASSUME NEW count \in Nat
    PROVE  \/ Len(Fresh(count)) = count
           \/ Len(Fresh(count)) < count /\ Free \subseteq Range(Fresh(count))
<1> DEFINE N == Cardinality(Free)
           L == Min({count, N})
           fds == Fresh(count)
<1>1. N \in Nat /\ IsFiniteSet(Free)
  BY PlacesAreTaken
<1>2. /\ fds \in Distinct /\ fds \in Seq(Num) /\ \A i \in DOMAIN fds : fds[i] \in Free
  BY FreshNumbers DEF Distinct
<1>3. L = IF count <= N THEN count ELSE N
  <2> HIDE DEF N
  <2> QED BY <1>1, MinOfTwo
<1>4. Len(fds) = L
  <2>1. fds = [i \in 1 .. L |-> CHOOSE n \in Free : Rank(n) = i]
    BY DEF Fresh
  <2>2. L \in Nat
    BY <1>1, <1>3
  <2> HIDE DEF L
  <2> QED BY <2>1, <2>2
<1>5. Cardinality(Range(fds)) = Len(fds) /\ Range(fds) \in SUBSET Free
  <2>1. Cardinality(Range(fds)) = Len(fds)
    BY <1>2, DistinctCounts
  <2> QED BY <1>2, <2>1 DEF Range
<1> HIDE DEF N, L, fds
<1>6. CASE count <= N
  BY <1>3, <1>4, <1>6 DEF fds
<1>7. CASE ~(count <= N)
  <2>1. Cardinality(Range(fds)) = Cardinality(Free)
    BY <1>3, <1>4, <1>5, <1>7 DEF N
  <2>2. Free = Range(fds)
    BY <1>1, <1>5, <2>1, FS_Subset
  <2> QED BY <1>1, <1>3, <1>4, <1>7, <2>2 DEF fds
<1> QED BY <1>6, <1>7

\* A list of files can be cut off at its end.
LEMMA ListsCutOff ==
    ASSUME NEW list \in Lists
    PROVE  /\ list \in Seq(File) /\ Len(list) \in 0 .. 2
           /\ \A k \in 0 .. Len(list) : SubSeq(list, 1, k) \in Lists
<1>0. <<>> \in Lists /\ \A f \in File : <<f>> \in Lists
  BY DEF Lists
<1>1. CASE list = <<>>
  <2>1. list \in Seq(File) /\ Len(list) = 0
    BY <1>1
  <2>2. SubSeq(list, 1, 0) = <<>>
    BY SubSeqEmpty
  <2>3. ASSUME NEW k \in 0 .. Len(list) PROVE SubSeq(list, 1, k) \in Lists
    <3>1. k = 0
      BY <2>1
    <3> QED BY <1>0, <2>2, <3>1
  <2> QED BY <2>1, <2>3
<1>2. ASSUME NEW f \in File, list = <<f>> PROVE /\ list \in Seq(File) /\ Len(list) \in 0 .. 2
                                                /\ \A k \in 0 .. Len(list) : SubSeq(list, 1, k) \in Lists
  <2>1. list \in Seq(File) /\ Len(list) = 1
    BY <1>2
  <2>2. SubSeq(list, 1, 0) = <<>>
    BY SubSeqEmpty
  <2>3. SubSeq(list, 1, 1) = list
    BY <2>1, SubSeqFull
  <2>4. ASSUME NEW k \in 0 .. Len(list) PROVE SubSeq(list, 1, k) \in Lists
    <3>1. k = 0 \/ k = 1
      BY <2>1
    <3> QED BY <1>0, <2>2, <2>3, <3>1
  <2> QED BY <2>1, <2>4
<1>3. ASSUME NEW f \in File, NEW g \in File, list = <<f, g>>
      PROVE  list \in Seq(File) /\ Len(list) \in 0 .. 2 /\ \A k \in 0 .. Len(list) : SubSeq(list, 1, k) \in Lists
  <2>1. list \in Seq(File) /\ Len(list) = 2 /\ list[1] = f
    BY <1>3
  <2>2. SubSeq(list, 1, 0) = <<>>
    BY SubSeqEmpty
  <2>3. SubSeq(list, 1, 2) = list
    BY <2>1, SubSeqFull
  <2>4. SubSeq(list, 1, 1) = <<f>>
    <3> DEFINE first == SubSeq(list, 1, 1)
    <3>1. \A i \in 1 .. 1 : list[i] \in File
      BY <2>1
    <3>2. /\ first \in Seq(File) /\ Len(first) = IF 1 <= 1 THEN 1 - 1 + 1 ELSE 0
          /\ \A i \in 1 .. 1 - 1 + 1 : first[i] = list[1 + i - 1]
      BY <3>1, SubSeqProperties
    <3> HIDE DEF first
    <3>3. Len(first) = 1 /\ first[1] = f
      BY <2>1, <3>2
    <3>4. <<f>> \in Seq(File) /\ Len(<<f>>) = 1 /\ <<f>>[1] = f
      OBVIOUS
    <3>5. \A i \in 1 .. Len(first) : first[i] = <<f>>[i]
      BY <3>3, <3>4
    <3>6. first = <<f>>
      BY <3>2, <3>3, <3>4, <3>5, SeqEqual
    <3> QED BY <3>6 DEF first
  <2>5. ASSUME NEW k \in 0 .. Len(list) PROVE SubSeq(list, 1, k) \in Lists
    <3>1. k = 0 \/ k = 1 \/ k = 2
      BY <2>1
    <3> QED BY <1>0, <2>2, <2>3, <2>4, <3>1
  <2> QED BY <2>1, <2>5
<1>4. ASSUME list \in File \X File PROVE \E f, g \in File : list = <<f, g>>
  BY <1>4
<1>5. list = <<>> \/ (\E f \in File : list = <<f>>) \/ list \in File \X File
  BY DEF Lists
<1> QED BY <1>1, <1>2, <1>3, <1>4, <1>5

\* The words that the msghdr has for control messages are those of a buffer.
LEMMA ControlFits ==
    ASSUME MessagesTyped, NEW n \in Nat, n <= Room
    PROVE  n = 0 \/ \E extent \in BufferSizes : n \in Header .. extent
<1>1. /\ m_control_buffer \in BufferSizes \union {0} /\ BufferSizes \subseteq Nat
      /\ msg_controllen = 0 \/ \E extent \in BufferSizes : msg_controllen \in Header .. extent
  BY MessagesAssumption DEF MessagesTyped
<1>2. CASE m_control_buffer > 0
  BY <1>1, <1>2 DEF Room, Header
<1>3. CASE ~(m_control_buffer > 0)
  <2>1. n <= msg_controllen
    BY <1>3 DEF Room
  <2>2. CASE msg_controllen = 0
    BY <2>1, <2>2
  <2>3. ASSUME NEW extent \in BufferSizes, msg_controllen \in Header .. extent
        PROVE  n = 0 \/ n \in Header .. extent
    BY <1>1, <2>1, <2>3 DEF Header
  <2> QED BY <1>1, <2>2, <2>3
<1> QED BY <1>2, <1>3

\* Control messages take no more words than there are, and files no more than
\* credentials leave to them.
LEMMA RoomSuffices ==
    ASSUME MessagesTyped, NEW taken \in Nat, taken <= Max({RoomAfter(Room) - Header, 0})
    PROVE  LET words == (IF Credentials(Room) = <<>> THEN 0 ELSE Header + Credentials(Room)[1].size)
                          + (IF taken = 0 THEN 0 ELSE Header + taken)
           IN  /\ words \in Nat /\ words <= Room
               /\ Credentials(Room) = <<>> \/ \E c \in CredentialsMessage : Credentials(Room) = <<c>>
<1>1. Room \in Nat
  BY MessagesAssumption DEF MessagesTyped, Room, Header
<1> DEFINE gap == Room - Header - CredentialsSize
<1>9. gap = Room - 3 /\ gap \in Int
  BY <1>1 DEF Header, CredentialsSize
<1>10. RoomAfter(Room) = IF passcred THEN Max({gap, 0}) ELSE Room
  BY DEF RoomAfter
<1> HIDE DEF gap
<1>11. Max({gap, 0}) = IF gap >= 0 THEN gap ELSE 0
  BY <1>9, MaxOfTwo
<1>12. /\ passcred => RoomAfter(Room) = IF Room - 3 >= 0 THEN Room - 3 ELSE 0
       /\ ~passcred => RoomAfter(Room) = Room
       /\ RoomAfter(Room) \in Int
  BY <1>1, <1>9, <1>10, <1>11
<1>2. Max({RoomAfter(Room) - Header, 0}) = IF RoomAfter(Room) - 1 >= 0 THEN RoomAfter(Room) - 1 ELSE 0
  <2> DEFINE rest == RoomAfter(Room) - Header
  <2>1. rest = RoomAfter(Room) - 1 /\ rest \in Int
    BY <1>12 DEF Header
  <2> HIDE DEF rest
  <2>2. Max({rest, 0}) = IF rest >= 0 THEN rest ELSE 0
    BY <2>1, MaxOfTwo
  <2> QED BY <2>1, <2>2 DEF rest
<1>3. CASE ~passcred \/ Room = 0
  <2>1. Credentials(Room) = <<>>
    BY <1>1, <1>3 DEF Credentials, Header
  <2>2. RoomAfter(Room) <= Room /\ RoomAfter(Room) \in Int
    BY <1>1, <1>3, <1>12
  <2>3. taken = 0 \/ 1 + taken <= Room
    BY <1>1, <1>2, <2>2
  <2> QED BY <1>1, <2>1, <2>3 DEF Header
<1>4. CASE passcred /\ Room > 0
  <2> DEFINE extent == Min({Room - Header, CredentialsSize})
             c == [type |-> "CREDENTIALS", size |-> extent]
  <2>1. extent = IF Room - 1 <= 2 THEN Room - 1 ELSE 2
    <3> DEFINE rest == Room - Header
    <3>1. rest = Room - 1 /\ rest \in Int
      BY <1>1 DEF Header
    <3> HIDE DEF rest
    <3>2. Min({rest, 2}) = IF rest <= 2 THEN rest ELSE 2
      BY <3>1, MinOfTwo
    <3> QED BY <3>1, <3>2 DEF rest, CredentialsSize
  <2>2. RoomAfter(Room) = IF Room - 3 >= 0 THEN Room - 3 ELSE 0
    BY <1>4, <1>12
  <2>3. Credentials(Room) = <<c>>
    BY <1>1, <1>4 DEF Credentials, Header
  <2> HIDE DEF extent
  <2>4. extent \in 0 .. 2 /\ extent <= Room - 1
    BY <1>1, <1>4, <2>1
  <2>5. c \in CredentialsMessage /\ c.size = extent
    BY <2>4 DEF CredentialsMessage, CredentialsSize
  <2>6. taken # 0 => 1 + extent + 1 + taken <= Room
    BY <1>1, <1>2, <2>1, <2>2
  <2> HIDE DEF c
  <2>7. Credentials(Room) # <<>> /\ Credentials(Room)[1].size = extent
    BY <2>3, <2>5
  <2> QED BY <1>1, <2>3, <2>4, <2>5, <2>6, <2>7 DEF Header
<1> QED BY <1>1, <1>3, <1>4

-----------------------------------------------------------------------------
(* Messages: steps *)

\* The owners depend on the tables, the header and the UnixRightsMessage only.
LEMMA SameOwners ==
    ASSUME OwnedByOne, UNCHANGED <<table, msgs, m_fds, m_unclaimed_fds, mine>>
    PROVE  OwnedByOne'
  BY DEF OwnedByOne, Numbers, His, InHeader, Unclaimed

\* The numbers of the header, of the next state, too.
LEMMA HeaderHolds == InHeader = HeldBy(msgs) /\ InHeader' = HeldBy(msgs')
  BY DEF InHeader, HeldBy

\* In the beginning there is nothing.
LEMMA InitMessagesInv == Init => MessagesInv
<1> SUFFICES ASSUME Init PROVE MessagesInv
  OBVIOUS
<1>1. <<>> \in Headers /\ <<>> \in Lists
  BY DEF Headers, Lists
<1>2. MessagesTyped
  <2>1. /\ queue \in Seq(Piece) /\ m_fds \in Seq(Num) /\ handed \in Seq(Lists) /\ arrived \in Seq(Lists)
        /\ control_msg \in Lists /\ msgs \in Headers
    BY <1>1 DEF Init
  <2>2. /\ table \in [Num -> File \union {Own, NoFile}] /\ mine \in [Num -> File \union {Own, NoFile}]
        /\ passcred \in BOOLEAN /\ m_unclaimed_fds = FALSE
    BY DEF Init
  <2>3. iovec \in 0 .. MaxPayload /\ m_control_buffer \in BufferSizes \union {0} /\ msg_controllen = 0
    BY MessagesAssumption DEF Init
  <2> QED BY <2>1, <2>2, <2>3 DEF MessagesTyped
<1>3. InHeader = {}
  BY HeaderHolds, HeaderNumbers DEF Init
<1>4. Unclaimed = <<>> /\ Range(<<>>) = {}
  BY DEF Init, Unclaimed, Range
<1>5. Numbers = {} /\ His = {}
  BY DEF Init, Numbers, His
<1>6. OwnedByOne
  BY <1>3, <1>4, <1>5 DEF OwnedByOne
<1> QED BY <1>2, <1>6 DEF MessagesInv

\* The sender keeps away from the receiver's files.
LEMMA SenderKeepsInv ==
    ASSUME MessagesInv, SenderStep
    PROVE  MessagesInv'
<1>1. MessagesTyped /\ OwnedByOne
  BY DEF MessagesInv
<1>2. ASSUME NEW bytes \in 1 .. MaxPayload, NEW list \in Lists, Prepare(bytes, list) PROVE MessagesInv'
  <2>1. iovec' = bytes /\ control_msg' = list /\ handed' = IF list = <<>> THEN handed ELSE Append(handed, list)
    BY <1>2 DEF Prepare
  <2>2. UNCHANGED <<passcred, queue, m_control_buffer, msg_controllen, msgs, table, m_fds, m_unclaimed_fds,
                    mine, arrived>>
    BY <1>2 DEF Prepare, header, rights
  <2>3. bytes \in 0 .. MaxPayload /\ handed' \in Seq(Lists)
    BY <1>1, <2>1, MessagesAssumption, AppendProperties DEF MessagesTyped
  <2>4. MessagesTyped'
    BY <1>1, <2>1, <2>2, <2>3 DEF MessagesTyped
  <2> QED BY <1>1, <2>2, <2>4, SameOwners DEF MessagesInv
<1>3. ASSUME NEW bytes \in 1 .. MaxPayload, SendMessage(bytes) PROVE MessagesInv'
  <2> DEFINE piece == [bytes |-> bytes, files |-> control_msg]
  <2>1. /\ bytes <= iovec /\ queue' = Append(queue, piece) /\ iovec' = iovec - bytes /\ control_msg' = <<>>
    BY <1>3 DEF SendMessage
  <2>2. UNCHANGED <<passcred, m_control_buffer, msg_controllen, msgs, table, m_fds, m_unclaimed_fds,
                    mine, handed, arrived>>
    BY <1>3 DEF SendMessage, header, rights
  <2>3. piece \in Piece /\ control_msg \in Lists /\ queue \in Seq(Piece)
    BY <1>1 DEF MessagesTyped, Piece
  <2> HIDE DEF piece
  <2>4. queue' \in Seq(Piece)
    BY <2>1, <2>3, AppendProperties
  <2>5. iovec' \in 0 .. MaxPayload
    BY <1>1, <2>1, MessagesAssumption DEF MessagesTyped
  <2>6. control_msg' \in Lists
    BY <2>1 DEF Lists
  <2>7. MessagesTyped'
    BY <1>1, <2>2, <2>4, <2>5, <2>6 DEF MessagesTyped
  <2> QED BY <1>1, <2>2, <2>7, SameOwners DEF MessagesInv
<1> QED BY <1>2, <1>3 DEF SenderStep

\* The size of the buffer is changed, or recvmsg() fails.
LEMMA PreparingKeepsInv ==
    ASSUME MessagesInv, ReceiveFails \/ \E extent \in BufferSizes \union {0} : SetControlBufferSize(extent)
    PROVE  MessagesInv'
<1>1. MessagesTyped /\ OwnedByOne
  BY DEF MessagesInv
<1>2. UNCHANGED <<iovec, control_msg, passcred, queue, msgs, table, m_fds, m_unclaimed_fds, mine, handed, arrived>>
  BY DEF ReceiveFails, SetControlBufferSize, sender, rights
<1>3. CASE ReceiveFails
  <2>1. msg_controllen' = Room /\ m_control_buffer' = m_control_buffer
    BY <1>3 DEF ReceiveFails
  <2>2. Room \in Nat /\ Room <= Room
    BY <1>1, MessagesAssumption DEF MessagesTyped, Room, Header
  <2>3. Room = 0 \/ \E extent \in BufferSizes : Room \in Header .. extent
    BY <1>1, <2>2, ControlFits
  <2>4. MessagesTyped'
    BY <1>1, <1>2, <2>1, <2>3 DEF MessagesTyped
  <2> QED BY <1>1, <1>2, <2>4, SameOwners DEF MessagesInv
<1>4. ASSUME NEW extent \in BufferSizes \union {0}, SetControlBufferSize(extent) PROVE MessagesInv'
  <2>1. msg_controllen' = msg_controllen /\ m_control_buffer' = extent
    BY <1>4 DEF SetControlBufferSize
  <2>2. MessagesTyped'
    BY <1>1, <1>2, <2>1 DEF MessagesTyped
  <2> QED BY <1>1, <1>2, <2>2, SameOwners DEF MessagesInv
<1> QED BY <1>3, <1>4

\* The client hands on the next message of the header.
LEMMA TailOfHeader ==
    ASSUME msgs \in Headers, msgs # <<>>
    PROVE  /\ Tail(msgs) \in Headers
           /\ msgs[1].type = "RIGHTS" => /\ msgs[1] \in RightsMessage /\ HeldBy(msgs) = Range(msgs[1].fds)
                                         /\ HeldBy(Tail(msgs)) = {}
           /\ msgs[1].type = "CREDENTIALS" => HeldBy(Tail(msgs)) = HeldBy(msgs)
<1>1. ASSUME NEW c \in CredentialsMessage, msgs = <<c>>
      PROVE  Tail(msgs) = <<>> /\ msgs[1].type = "CREDENTIALS" /\ HeldBy(Tail(msgs)) = HeldBy(msgs)
  <2>1. Tail(msgs) = <<>> /\ msgs[1] = c
    BY <1>1
  <2> QED BY <1>1, <2>1, HeaderNumbers DEF CredentialsMessage
<1>2. ASSUME NEW r \in RightsMessage, msgs = <<r>>
      PROVE  /\ Tail(msgs) = <<>> /\ msgs[1] = r /\ r.type = "RIGHTS"
             /\ HeldBy(msgs) = Range(r.fds) /\ HeldBy(Tail(msgs)) = {}
  <2>1. Tail(msgs) = <<>> /\ msgs[1] = r
    BY <1>2
  <2> QED BY <1>2, <2>1, HeaderNumbers DEF RightsMessage
<1>3. ASSUME NEW c \in CredentialsMessage, NEW r \in RightsMessage, msgs = <<c, r>>
      PROVE  Tail(msgs) = <<r>> /\ msgs[1].type = "CREDENTIALS" /\ HeldBy(Tail(msgs)) = HeldBy(msgs)
  <2>1. Tail(msgs) = <<r>> /\ msgs[1] = c
    BY <1>3
  <2> QED BY <1>3, <2>1, HeaderNumbers DEF CredentialsMessage
<1>4. <<>> \in Headers /\ \A r \in RightsMessage : <<r>> \in Headers
  BY DEF Headers
<1>5. \/ \E c \in CredentialsMessage : msgs = <<c>>
      \/ \E r \in RightsMessage : msgs = <<r>>
      \/ \E c \in CredentialsMessage, r \in RightsMessage : msgs = <<c, r>>
  BY DEF Headers
<1> QED BY <1>1, <1>2, <1>3, <1>4, <1>5

\* A list that closeUnclaimed() goes through.
LEMMA UnclaimedNumbers ==
    ASSUME MessagesTyped
    PROVE  Unclaimed \in Distinct /\ Range(Unclaimed) \subseteq Num /\ Cardinality(Range(Unclaimed)) = Len(Unclaimed)
<1>1. <<>> \in Distinct
  BY DEF Distinct
<1>2. Unclaimed \in Distinct
  BY <1>1 DEF MessagesTyped, Unclaimed
<1> QED BY <1>2, DistinctCounts

\* Closed numbers are free.
LEMMA ClosedNumbers ==
    ASSUME MessagesTyped, NEW fds, table' = Closed(fds)
    PROVE  /\ table' \in [Num -> File \union {Own, NoFile}]
           /\ \A n \in Num : table'[n] = IF n \in Range(fds) THEN NoFile ELSE table[n]
           /\ Numbers' = Numbers \ Range(fds)
  BY DEF MessagesTyped, Closed, Numbers

\* Two lists of one member each.
LEMMA JoinedPair ==
    ASSUME NEW c, NEW r
    PROVE  <<c>> \o <<r>> = <<c, r>>
<1> DEFINE S == {c, r}
<1>1. <<c>> \in Seq(S) /\ <<r>> \in Seq(S) /\ <<c, r>> \in Seq(S)
  OBVIOUS
<1>2. Len(<<c>>) = 1 /\ Len(<<r>>) = 1 /\ Len(<<c, r>>) = 2
  OBVIOUS
<1>3. <<c>>[1] = c /\ <<r>>[1] = r /\ <<c, r>>[1] = c /\ <<c, r>>[2] = r
  OBVIOUS
<1> HIDE DEF S
<1>4. /\ <<c>> \o <<r>> \in Seq(S)
      /\ Len(<<c>> \o <<r>>) = Len(<<c>>) + Len(<<r>>)
      /\ \A i \in 1 .. Len(<<c>>) + Len(<<r>>) :
           (<<c>> \o <<r>>)[i] = IF i <= Len(<<c>>) THEN <<c>>[i] ELSE <<r>>[i - Len(<<c>>)]
  BY <1>1, ConcatProperties
<1> DEFINE joined == <<c>> \o <<r>>
<1> DEFINE p == <<c>>
<1> DEFINE q == <<r>>
<1> DEFINE both == <<c, r>>
<1>5. /\ joined \in Seq(S) /\ Len(joined) = Len(p) + Len(q)
      /\ \A i \in 1 .. Len(p) + Len(q) :
           joined[i] = IF i <= Len(p) THEN p[i] ELSE q[i - Len(p)]
      /\ both \in Seq(S) /\ Len(both) = 2 /\ both[1] = c /\ both[2] = r
      /\ Len(p) = 1 /\ Len(q) = 1 /\ p[1] = c /\ q[1] = r
  BY <1>1, <1>2, <1>3, <1>4
<1> HIDE DEF joined, p, q, both
<1>6. joined[1] = both[1] /\ joined[2] = both[2] /\ Len(joined) = 2
  BY <1>5
<1>7. joined = both
  BY SMTT(30), <1>5, <1>6, SeqEqual
<1> QED BY <1>7 DEF joined, both

\* The numbers that the files of a list get, as far as there is room.
WhatFits(list) == Fresh(Min({Len(list), Max({RoomAfter(Room) - Header, 0})}))

\* What receiveMessage() takes from the socket.
LEMMA ReceivedFiles ==
    ASSUME MessagesInv, NEW bytes \in 1 .. MaxPayload, ReceiveMessage(bytes)
    PROVE  LET list == queue[1].files
               fds == WhatFits(list)
           IN /\ queue \in Seq(Piece) /\ queue # <<>> /\ queue[1] \in Piece /\ Tail(queue) \in Seq(Piece)
              /\ list \in Lists /\ list \in Seq(File) /\ Len(list) \in 0 .. 2
              /\ \A k \in 0 .. Len(list) : SubSeq(list, 1, k) \in Lists
              /\ fds \in Distinct /\ fds \in Seq(Num) /\ DOMAIN fds = 1 .. Len(fds)
              /\ Len(fds) \in 0 .. Len(list) /\ Len(fds) <= Max({RoomAfter(Room) - Header, 0})
              /\ fds = <<>> <=> Len(fds) = 0
              /\ table' \in [Num -> File \union {Own, NoFile}]
              /\ \A i \in 1 .. Len(fds) : table'[fds[i]] = list[i]
              /\ \A n \in Num : /\ n \in Range(fds) => table'[n] \in File /\ table[n] = NoFile
                                /\ n \notin Range(fds) => table'[n] = table[n]
              /\ \/ Len(fds) = Len(list)
                 \/ RoomAfter(Room) - Header < Len(list)
                 \/ \A n \in Num : table'[n] # NoFile
<1> DEFINE list == queue[1].files
           count == Min({Len(list), Max({RoomAfter(Room) - Header, 0})})
           fds == WhatFits(list)
<1>1. MessagesTyped /\ queue \in Seq(Piece) /\ queue # <<>>
  BY DEF MessagesInv, MessagesTyped, ReceiveMessage
<1>2. queue[1] \in Piece /\ Len(queue) \in Nat \ {0} /\ Tail(queue) \in Seq(Piece)
  BY <1>1, HeadTailProperties, EmptySeq
<1>3. list \in Lists /\ list \in Seq(File) /\ Len(list) \in 0 .. 2
      /\ \A k \in 0 .. Len(list) : SubSeq(list, 1, k) \in Lists
  <2>1. list \in Lists
    BY Zenon, <1>2 DEF Piece
  <2> HIDE DEF list
  <2> QED BY <2>1, ListsCutOff
<1>4. table' = [n \in Num |-> IF \E i \in DOMAIN fds : fds[i] = n
                             THEN list[CHOOSE i \in DOMAIN fds : fds[i] = n] ELSE table[n]]
  BY DEF ReceiveMessage, WhatFits
<1> DEFINE most == Max({RoomAfter(Room) - Header, 0})
<1>13. RoomAfter(Room) \in Int
  <2>1. Room \in Nat
    BY <1>1, MessagesAssumption DEF MessagesTyped, Room, Header
  <2>2. RoomAfter(Room) \in Int
    <3> DEFINE gap == Room - Header - CredentialsSize
    <3>1. gap \in Int
      BY <2>1 DEF Header, CredentialsSize
    <3>2. RoomAfter(Room) = IF passcred THEN Max({gap, 0}) ELSE Room
      BY DEF RoomAfter
    <3> HIDE DEF gap
    <3>3. Max({gap, 0}) = IF gap >= 0 THEN gap ELSE 0
      BY <3>1, MaxOfTwo
    <3> QED BY <2>1, <3>1, <3>2, <3>3
  <2> QED BY <2>2
<1>5. most \in Nat
  <2> DEFINE rest == RoomAfter(Room) - Header
  <2>3. rest \in Int
    BY <1>13 DEF Header
  <2> HIDE DEF rest
  <2>4. Max({rest, 0}) = IF rest >= 0 THEN rest ELSE 0
    BY <2>3, MaxOfTwo
  <2> QED BY <2>3, <2>4 DEF rest
<1>6. count \in Nat /\ count = IF Len(list) <= most THEN Len(list) ELSE most
  <2>1. count = Min({Len(list), most})
    OBVIOUS
  <2>2. Len(list) \in Nat
    BY <1>3
  <2> HIDE DEF list, most, count
  <2>3. Min({Len(list), most}) = IF Len(list) <= most THEN Len(list) ELSE most
    BY <1>5, <2>2, MinOfTwo
  <2> QED BY <1>5, <2>1, <2>2, <2>3
<1>7. /\ fds \in Distinct /\ Len(fds) <= count /\ \A i \in DOMAIN fds : fds[i] \in Free
      /\ Len(fds) = count \/ Free \subseteq Range(fds)
  <2>1. fds = Fresh(count)
    BY DEF WhatFits
  <2> HIDE DEF count, fds
  <2> QED BY <1>6, <2>1, FreshNumbers, FreshUsesUp
<1> HIDE DEF count, fds, most, list
<1>8. fds \in Seq(Num) /\ Len(fds) \in Nat /\ DOMAIN fds = 1 .. Len(fds) /\ (fds = <<>> <=> Len(fds) = 0)
  BY <1>7, LenProperties, EmptySeq DEF Distinct
<1>9. /\ table' \in [Num -> File \union {Own, NoFile}]
      /\ \A n \in Num : /\ n \in Range(fds) => table'[n] \in File /\ table[n] = NoFile
                        /\ n \notin Range(fds) => table'[n] = table[n]
  <2>1. ASSUME NEW n \in Range(fds) PROVE n \in Num /\ table[n] = NoFile /\ table'[n] \in File
    <3>1. PICK j \in DOMAIN fds : fds[j] = n
      BY DEF Range
    <3>2. n \in Num /\ table[n] = NoFile
      BY <1>7, <3>1 DEF Free
    <3> DEFINE i == CHOOSE k \in DOMAIN fds : fds[k] = n
    <3>3. i \in DOMAIN fds
      BY <3>1
    <3>4. table'[n] = list[i]
      BY <1>4, <3>1, <3>2
    <3> HIDE DEF i
    <3>5. i \in 1 .. Len(list)
      BY <1>3, <1>6, <1>7, <1>8, <3>3
    <3>6. list[i] \in File
      BY <1>3, <3>5, ElementOfSeq
    <3> QED BY <3>2, <3>4, <3>6
  <2>2. ASSUME NEW n \in Num, n \notin Range(fds) PROVE table'[n] = table[n]
    <3>1. ~ \E i \in DOMAIN fds : fds[i] = n
      BY <2>2 DEF Range
    <3> QED BY <1>4, <3>1
  <2>3. table \in [Num -> File \union {Own, NoFile}]
    BY <1>1 DEF MessagesTyped
  <2>4. \A n \in Num : table'[n] \in File \union {Own, NoFile}
    BY <2>1, <2>2, <2>3
  <2>5. DOMAIN table' = Num /\ table' = [n \in Num |-> table'[n]]
    BY <1>4
  <2> QED BY <2>1, <2>2, <2>4, <2>5
<1>10. Len(fds) \in 0 .. Len(list) /\ Len(fds) <= most
  <2>1. Len(fds) \in Nat /\ Len(fds) <= count /\ Len(list) \in Nat
    BY <1>3, <1>7, <1>8
  <2>2. count <= Len(list) /\ count <= most
    BY <1>5, <1>6, <2>1
  <2> QED BY <1>5, <1>6, <2>1, <2>2
<1>11. ASSUME NEW i \in 1 .. Len(fds) PROVE table'[fds[i]] = list[i]
  <2>1. fds[i] \in Num /\ \A j \in DOMAIN fds : fds[j] = fds[i] <=> j = i
    BY <1>7, <1>8, ElementOfSeq DEF Distinct
  <2>2. (CHOOSE j \in DOMAIN fds : fds[j] = fds[i]) = i
    BY <1>8, <2>1
  <2> QED BY <1>4, <1>8, <2>1, <2>2
<1>12. \/ Len(fds) = Len(list)
       \/ RoomAfter(Room) - Header < Len(list)
       \/ \A n \in Num : table'[n] # NoFile
  <2>1. CASE Len(fds) = count
    <3>1. Len(fds) = Len(list) \/ most < Len(list)
      BY <1>3, <1>5, <1>6, <2>1
    <3> DEFINE rest == RoomAfter(Room) - Header
    <3>2. rest <= most
      <4>1. rest \in Int
        BY <1>13 DEF Header
      <4> HIDE DEF rest
      <4>2. Max({rest, 0}) = IF rest >= 0 THEN rest ELSE 0
        BY <4>1, MaxOfTwo
      <4> QED BY <4>1, <4>2 DEF most, rest
    <3> QED BY <1>3, <1>5, <1>13, <3>1, <3>2 DEF Header
  <2>2. CASE Free \subseteq Range(fds)
    <3>1. \A n \in Num : table[n] = NoFile => n \in Range(fds)
      BY <2>2 DEF Free
    <3> QED BY <1>9, <3>1, MessagesAssumption
  <2> QED BY <1>7, <2>1, <2>2
<1> QED BY Zenon, <1>1, <1>2, <1>3, <1>7, <1>8, <1>9, <1>10, <1>11, <1>12 DEF list, fds, most

\* Files arrive under free numbers, or are dropped (receiveMessage()).
LEMMA ReceiveKeepsInv ==
    ASSUME MessagesInv, NEW bytes \in 1 .. MaxPayload, ReceiveMessage(bytes)
    PROVE  MessagesInv'
<1> DEFINE list == queue[1].files
           fds == WhatFits(list)
           received == IF fds = <<>> THEN <<>> ELSE <<[type |-> "RIGHTS", fds |-> fds]>>
<1>1. MessagesTyped /\ OwnedByOne /\ queue \in Seq(Piece) /\ queue # <<>>
  BY Zenon DEF MessagesInv, MessagesTyped, ReceiveMessage
<1>2. queue[1] \in Piece /\ Tail(queue) \in Seq(Piece)
  BY ReceivedFiles
<1>3. list \in Lists /\ \A k \in 0 .. Len(list) : SubSeq(list, 1, k) \in Lists
  BY Zenon, ReceivedFiles
<1>4. /\ msgs = <<>> /\ bytes <= queue[1].bytes
      /\ table' = [n \in Num |-> IF \E i \in DOMAIN fds : fds[i] = n
                                 THEN list[CHOOSE i \in DOMAIN fds : fds[i] = n] ELSE table[n]]
      /\ msgs' = Credentials(Room) \o received
      /\ msg_controllen' = (IF Credentials(Room) = <<>> THEN 0 ELSE Header + Credentials(Room)[1].size)
                             + (IF fds = <<>> THEN 0 ELSE Header + Len(fds))
      /\ arrived' = IF list = <<>> THEN arrived ELSE Append(arrived, SubSeq(list, 1, Len(fds)))
      /\ queue' = IF bytes = queue[1].bytes THEN Tail(queue)
                  ELSE <<[bytes |-> queue[1].bytes - bytes, files |-> <<>>]>> \o Tail(queue)
      /\ UNCHANGED <<iovec, control_msg, passcred, m_control_buffer, m_fds, m_unclaimed_fds, mine, handed>>
  BY DEF ReceiveMessage, WhatFits, sender, rights
<1>7. /\ fds \in Distinct /\ Len(fds) \in 0 .. Len(list) /\ Len(fds) <= Max({RoomAfter(Room) - Header, 0})
      /\ fds \in Seq(Num) /\ DOMAIN fds = 1 .. Len(fds) /\ (fds = <<>> <=> Len(fds) = 0)
  BY ReceivedFiles
<1>9. /\ table' \in [Num -> File \union {Own, NoFile}]
      /\ \A n \in Num : /\ n \in Range(fds) => table'[n] \in File /\ table[n] = NoFile
                        /\ n \notin Range(fds) => table'[n] = table[n]
  BY ReceivedFiles
<1> HIDE DEF fds, list
<1>10. LET words == (IF Credentials(Room) = <<>> THEN 0 ELSE Header + Credentials(Room)[1].size)
                       + (IF Len(fds) = 0 THEN 0 ELSE Header + Len(fds))
       IN  /\ words \in Nat /\ words <= Room
           /\ Credentials(Room) = <<>> \/ \E c \in CredentialsMessage : Credentials(Room) = <<c>>
  <2>1. Len(fds) \in Nat /\ Len(fds) <= Max({RoomAfter(Room) - Header, 0})
    <3>1. Len(fds) <= Max({RoomAfter(Room) - Header, 0})
      BY <1>7
    <3>2. Len(fds) \in Nat
      BY <1>7, LenProperties
    <3> QED BY <3>1, <3>2
  <2> QED BY <1>1, <2>1, RoomSuffices
<1>11. msg_controllen' = 0 \/ \E extent \in BufferSizes : msg_controllen' \in Header .. extent
  <2>1. msg_controllen' \in Nat /\ msg_controllen' <= Room
    BY <1>4, <1>7, <1>10
  <2> QED BY <1>1, <2>1, ControlFits
<1>12. msgs' \in Headers /\ HeldBy(msgs') = Range(fds)
  <2>1. CASE fds = <<>>
    <3>1. received = <<>> /\ Range(fds) = {}
      BY <2>1 DEF Range
    <3>2. msgs' = Credentials(Room)
      BY <1>4, <1>10, <3>1
    <3> QED BY <1>10, <3>1, <3>2, HeaderNumbers DEF Headers
  <2>2. CASE fds # <<>>
    <3> DEFINE r == [type |-> "RIGHTS", fds |-> fds]
    <3>1. r \in RightsMessage /\ received = <<r>> /\ r.fds = fds
      BY <1>7, <2>2 DEF RightsMessage
    <3> HIDE DEF r, received
    <3>2. CASE Credentials(Room) = <<>>
      <4>1. msgs' = <<r>>
        BY <1>4, <3>1, <3>2
      <4> QED BY <3>1, <4>1, HeaderNumbers DEF Headers
    <3>3. ASSUME NEW c \in CredentialsMessage, Credentials(Room) = <<c>>
          PROVE  msgs' \in Headers /\ HeldBy(msgs') = Range(fds)
      <4>1. msgs' = <<c, r>>
        BY <1>4, <3>1, <3>3, JoinedPair
      <4>2. <<c, r>> \in Headers
        <5> DEFINE pair == <<c, r>>
        <5>1. pair \in CredentialsMessage \X RightsMessage /\ <<c, r>> = <<pair[1], pair[2]>>
          BY <3>1
        <5> HIDE DEF pair
        <5> QED BY <5>1 DEF Headers
      <4>3. HeldBy(<<c, r>>) = Range(r.fds)
        BY <3>1, HeaderNumbers
      <4> QED BY <3>1, <4>1, <4>2, <4>3
    <3> QED BY <1>10, <3>2, <3>3
  <2> QED BY <2>1, <2>2
<1>13. queue' \in Seq(Piece)
  <2> DEFINE rest == [bytes |-> queue[1].bytes - bytes, files |-> <<>>]
  <2>1. CASE bytes = queue[1].bytes
    BY <1>2, <1>4, <2>1
  <2>2. CASE bytes # queue[1].bytes
    <3>1. queue[1].bytes - bytes \in 1 .. MaxPayload
      <4>1. queue[1].bytes \in 1 .. MaxPayload /\ bytes \in 1 .. MaxPayload /\ MaxPayload \in Nat
        BY <1>2, MessagesAssumption DEF Piece
      <4>2. bytes <= queue[1].bytes
        BY <1>4
      <4> QED BY <2>2, <4>1, <4>2
    <3>2. rest \in Piece
      BY <3>1 DEF Piece, Lists
    <3> HIDE DEF rest
    <3>3. <<rest>> \in Seq(Piece)
      BY <3>2
    <3>4. <<rest>> \o Tail(queue) \in Seq(Piece)
      BY <1>2, <3>3, ConcatProperties
    <3> QED BY <1>4, <2>2, <3>4 DEF rest
  <2> QED BY <2>1, <2>2
<1>14. arrived' \in Seq(Lists)
  <2>2. SubSeq(list, 1, Len(fds)) \in Lists /\ arrived \in Seq(Lists)
    BY <1>1, <1>3, <1>7 DEF MessagesTyped
  <2>3. Append(arrived, SubSeq(list, 1, Len(fds))) \in Seq(Lists)
    BY Zenon, <2>2, AppendProperties
  <2> QED BY <1>4, <2>2, <2>3
<1>15. MessagesTyped'
  BY Zenon, <1>1, <1>4, <1>9, <1>11, <1>12, <1>13, <1>14 DEF MessagesTyped
<1>16. OwnedByOne'
  <2>1. InHeader = {} /\ InHeader' = Range(fds)
    BY <1>4, <1>12, HeaderHolds, HeaderNumbers
  <2>2. Unclaimed' = Unclaimed /\ His' = His
    BY <1>4 DEF Unclaimed, His
  <2>3. Range(fds) \subseteq Num
    BY <1>7, DistinctCounts
  <2>4. Numbers' = Numbers \union Range(fds) /\ Numbers \intersect Range(fds) = {}
    BY <1>9, <2>3, MessagesAssumption DEF Numbers
  <2>5. \A n \in His : n \in Num /\ n \notin Range(fds)
    BY <1>1, <2>4 DEF OwnedByOne, His
  <2>6. \A n \in His : table'[n] = mine'[n]
    BY <1>1, <1>4, <1>9, <2>5 DEF OwnedByOne
  <2> QED BY <1>1, <2>1, <2>2, <2>4, <2>6 DEF OwnedByOne
<1> QED BY Zenon, <1>15, <1>16 DEF MessagesInv

\* The UnixRightsMessage takes the next message, and closes what nobody took.
LEMMA DeserializeKeepsInv ==
    ASSUME MessagesInv, Deserialize \/ DeserializeCredentials
    PROVE  MessagesInv'
<1>1. MessagesTyped /\ OwnedByOne
  BY DEF MessagesInv
<1>2. /\ msgs \in Headers /\ msgs # <<>> /\ msgs' = Tail(msgs)
      /\ UNCHANGED <<iovec, control_msg, passcred, queue, m_control_buffer, msg_controllen, mine, handed, arrived>>
  BY <1>1 DEF MessagesTyped, Deserialize, DeserializeCredentials, sender
<1>3. CASE DeserializeCredentials
  <2>1. msgs[1].type = "CREDENTIALS" /\ UNCHANGED <<table, m_fds, m_unclaimed_fds>>
    BY <1>3 DEF DeserializeCredentials, rights
  <2>2. msgs' \in Headers /\ HeldBy(msgs') = HeldBy(msgs)
    BY <1>2, <2>1, TailOfHeader
  <2>3. MessagesTyped'
    BY <1>1, <1>2, <2>1, <2>2 DEF MessagesTyped
  <2>4. InHeader' = InHeader /\ Numbers' = Numbers /\ His' = His /\ Unclaimed' = Unclaimed
    BY <1>2, <2>1, <2>2, HeaderHolds DEF Numbers, His, Unclaimed
  <2>5. OwnedByOne'
    BY <1>1, <1>2, <2>1, <2>4 DEF OwnedByOne
  <2> QED BY <2>3, <2>5 DEF MessagesInv
<1>4. CASE Deserialize
  <2>1. /\ msgs[1].type = "RIGHTS" /\ table' = Closed(Unclaimed) /\ m_fds' = msgs[1].fds /\ m_unclaimed_fds' = TRUE
    BY <1>4 DEF Deserialize
  <2>2. /\ msgs' \in Headers /\ msgs[1] \in RightsMessage
        /\ InHeader = Range(m_fds') /\ InHeader' = {}
    BY <1>2, <2>1, TailOfHeader, HeaderHolds
  <2>3. m_fds' \in Distinct /\ m_fds' \in Seq(Num)
    BY <2>1, <2>2 DEF RightsMessage, Distinct
  <2>4. /\ table' \in [Num -> File \union {Own, NoFile}]
        /\ \A n \in Num : table'[n] = IF n \in Range(Unclaimed) THEN NoFile ELSE table[n]
        /\ Numbers' = Numbers \ Range(Unclaimed)
    BY <1>1, <2>1, ClosedNumbers
  <2>5. MessagesTyped'
    BY <1>1, <1>2, <2>1, <2>2, <2>3, <2>4 DEF MessagesTyped
  <2>6. Unclaimed' = m_fds' /\ His' = His
    BY <1>2, <2>1 DEF Unclaimed, His
  <2>7. \A n \in His : n \in Num /\ n \notin Range(Unclaimed)
    BY <1>1 DEF OwnedByOne, His
  <2>8. OwnedByOne'
    BY <1>1, <1>2, <2>2, <2>4, <2>6, <2>7 DEF OwnedByOne
  <2> QED BY <2>5, <2>8 DEF MessagesInv
<1> QED BY <1>3, <1>4

\* The client takes the numbers, or the object closes them.
LEMMA ObjectKeepsInv ==
    ASSUME MessagesInv, TakeFDs \/ ClearFDs \/ \E n \in Num : AddFD(n)
    PROVE  MessagesInv'
<1>1. MessagesTyped /\ OwnedByOne
  BY DEF MessagesInv
<1>2. UNCHANGED <<iovec, control_msg, passcred, queue, m_control_buffer, msg_controllen, msgs, handed, arrived>>
  BY DEF TakeFDs, ClearFDs, AddFD, sender, header
<1>3. InHeader' = InHeader
  BY <1>2, HeaderHolds
<1>4. Range(<<>>) = {} /\ <<>> \in Seq(Num) /\ <<>> \in Distinct
  BY DEF Range, Distinct
<1>5. Range(Unclaimed) \subseteq Num
  BY <1>1, UnclaimedNumbers
<1>6. CASE TakeFDs
  <2>1. /\ mine' = [n \in Num |-> IF n \in Range(Unclaimed) THEN table[n] ELSE mine[n]]
        /\ m_fds' = (IF m_unclaimed_fds THEN <<>> ELSE m_fds) /\ m_unclaimed_fds' = FALSE /\ table' = table
    BY <1>6 DEF TakeFDs
  <2>2. mine' \in [Num -> File \union {Own, NoFile}] /\ m_fds' \in Seq(Num)
    BY <1>1, <1>4, <2>1 DEF MessagesTyped
  <2>3. MessagesTyped'
    BY <1>1, <1>2, <2>1, <2>2 DEF MessagesTyped
  <2>4. Range(Unclaimed') = {} /\ Numbers' = Numbers
    BY <1>4, <2>1 DEF Unclaimed, Numbers
  <2>5. \A n \in Range(Unclaimed) : table[n] # NoFile
    BY <1>1 DEF OwnedByOne, Numbers
  <2>6. His' = His \union Range(Unclaimed)
    BY <1>5, <2>1, <2>5 DEF His
  <2>7. \A n \in His' : table'[n] = mine'[n]
    BY <1>1, <1>5, <2>1, <2>6 DEF OwnedByOne, His
  <2>8. OwnedByOne'
    BY <1>1, <1>3, <2>4, <2>6, <2>7 DEF OwnedByOne
  <2> QED BY <2>3, <2>8 DEF MessagesInv
<1>7. CASE ClearFDs
  <2>1. table' = Closed(Unclaimed) /\ m_fds' = <<>> /\ m_unclaimed_fds' = FALSE /\ mine' = mine
    BY <1>7 DEF ClearFDs
  <2>2. /\ table' \in [Num -> File \union {Own, NoFile}]
        /\ \A n \in Num : table'[n] = IF n \in Range(Unclaimed) THEN NoFile ELSE table[n]
        /\ Numbers' = Numbers \ Range(Unclaimed)
    BY <1>1, <2>1, ClosedNumbers
  <2>3. MessagesTyped'
    BY <1>1, <1>2, <1>4, <2>1, <2>2 DEF MessagesTyped
  <2>4. Range(Unclaimed') = {} /\ His' = His
    BY <1>4, <2>1 DEF Unclaimed, His
  <2>5. \A n \in His : n \in Num /\ n \notin Range(Unclaimed)
    BY <1>1 DEF OwnedByOne, His
  <2>6. OwnedByOne'
    BY <1>1, <1>3, <2>1, <2>2, <2>4, <2>5 DEF OwnedByOne
  <2> QED BY <2>3, <2>6 DEF MessagesInv
<1>8. ASSUME NEW n \in Num, AddFD(n) PROVE MessagesInv'
  <2>1. /\ m_fds' = Append(m_fds, n) /\ ~m_unclaimed_fds
        /\ UNCHANGED <<table, m_unclaimed_fds, mine>>
    BY <1>8 DEF AddFD
  <2>2. m_fds' \in Seq(Num)
    BY <1>1, <2>1, AppendProperties DEF MessagesTyped
  <2>3. MessagesTyped'
    BY <1>1, <1>2, <2>1, <2>2 DEF MessagesTyped
  <2>4. Unclaimed' = Unclaimed /\ Numbers' = Numbers /\ His' = His
    BY <2>1 DEF Unclaimed, Numbers, His
  <2>5. OwnedByOne'
    BY <1>1, <1>3, <2>1, <2>4 DEF OwnedByOne
  <2> QED BY <2>3, <2>5 DEF MessagesInv
<1> QED BY <1>6, <1>7, <1>8

\* The number that the receiver's own file gets was free.
LEMMA OpenedIsFree ==
    ASSUME OpenOwn
    PROVE  Fresh(1)[1] \in Free
<1>1. Fresh(1) # <<>> /\ Fresh(1) \in Distinct /\ \A i \in DOMAIN Fresh(1) : Fresh(1)[i] \in Free
  BY FreshNumbers DEF OpenOwn
<1>2. 1 \in DOMAIN Fresh(1)
  <2>1. Fresh(1) \in Seq(Num)
    BY <1>1 DEF Distinct
  <2> QED BY <1>1, <2>1, EmptySeq, LenProperties
<1> QED BY <1>1, <1>2

\* The receiver opens and closes its own files.
LEMMA OwnKeepsInv ==
    ASSUME MessagesInv, OpenOwn \/ \E n \in Num : CloseOwn(n)
    PROVE  MessagesInv'
<1>1. MessagesTyped /\ OwnedByOne
  BY DEF MessagesInv
<1>2. UNCHANGED <<iovec, control_msg, passcred, queue, m_control_buffer, msg_controllen, msgs, m_fds,
                  m_unclaimed_fds, handed, arrived>>
  BY DEF OpenOwn, CloseOwn, sender, header, rights
<1>3. InHeader' = InHeader /\ Unclaimed' = Unclaimed
  BY <1>2, HeaderHolds DEF Unclaimed
<1>4. Own # NoFile
  BY MessagesAssumption
<1>5. CASE OpenOwn
  <2> DEFINE n == Fresh(1)[1]
  <2>1. n \in Free
    BY <1>5, OpenedIsFree
  <2>2. table' = [table EXCEPT ![n] = Own] /\ mine' = [mine EXCEPT ![n] = Own]
    BY <1>5 DEF OpenOwn
  <2> HIDE DEF n
  <2>3. n \in Num /\ table[n] = NoFile
    BY <2>1 DEF Free
  <2>4. /\ table' \in [Num -> File \union {Own, NoFile}] /\ mine' \in [Num -> File \union {Own, NoFile}]
        /\ table'[n] = Own /\ mine'[n] = Own
        /\ \A m \in Num \ {n} : table'[m] = table[m] /\ mine'[m] = mine[m]
    BY <1>1, <2>2, <2>3 DEF MessagesTyped
  <2>5. MessagesTyped'
    BY <1>1, <1>2, <2>4 DEF MessagesTyped
  <2>6. Numbers' = Numbers \union {n} /\ His' = His \union {n} /\ n \notin Numbers
    BY <1>4, <2>3, <2>4 DEF Numbers, His
  <2>7. \A m \in His' : table'[m] = mine'[m]
    BY <1>1, <2>4, <2>6 DEF OwnedByOne, His
  <2>8. OwnedByOne'
    BY <1>1, <1>3, <2>6, <2>7 DEF OwnedByOne
  <2> QED BY <2>5, <2>8 DEF MessagesInv
<1>6. ASSUME NEW n \in Num, CloseOwn(n) PROVE MessagesInv'
  <2>1. mine[n] # NoFile /\ table' = [table EXCEPT ![n] = NoFile] /\ mine' = [mine EXCEPT ![n] = NoFile]
    BY <1>6 DEF CloseOwn
  <2>2. /\ table' \in [Num -> File \union {Own, NoFile}] /\ mine' \in [Num -> File \union {Own, NoFile}]
        /\ table'[n] = NoFile /\ mine'[n] = NoFile
        /\ \A m \in Num \ {n} : table'[m] = table[m] /\ mine'[m] = mine[m]
    BY <1>1, <2>1 DEF MessagesTyped
  <2>3. MessagesTyped'
    BY <1>1, <1>2, <2>2 DEF MessagesTyped
  <2>4. Numbers' = Numbers \ {n} /\ His' = His \ {n} /\ n \in His
    BY <2>1, <2>2 DEF Numbers, His
  <2>5. \A m \in His' : table'[m] = mine'[m]
    BY <1>1, <2>2, <2>4 DEF OwnedByOne, His
  <2>6. OwnedByOne'
    BY <1>1, <1>3, <2>4, <2>5 DEF OwnedByOne
  <2> QED BY <2>3, <2>6 DEF MessagesInv
<1> QED BY <1>5, <1>6

-----------------------------------------------------------------------------
(* Messages: theorems *)

\* What a run checks follows from the invariant.
LEMMA InvImpliesOwned == MessagesInv => ReceivedOwnedOnce
<1> SUFFICES ASSUME MessagesInv PROVE ReceivedOwnedOnce
  OBVIOUS
<1>1. MessagesTyped /\ OwnedByOne
  BY DEF MessagesInv
<1>2. Range(m_fds) \subseteq Num
  BY <1>1, LenProperties, ElementOfSeq DEF MessagesTyped, Range
<1>3. \A i \in DOMAIN queue : queue[i] \in [bytes : 1 .. MaxPayload, files : Lists]
  BY ZenonT(30), <1>1, LenProperties, ElementOfSeq DEF MessagesTyped, Piece
<1>4. /\ \A i \in DOMAIN handed : handed[i] \in Lists
      /\ \A i \in DOMAIN arrived : arrived[i] \in Lists
  BY <1>1, LenProperties, ElementOfSeq DEF MessagesTyped
<1>5. \A i \in DOMAIN msgs :
        \/ msgs[i] \in [type : {"CREDENTIALS"}, size : 0 .. CredentialsSize]
        \/ msgs[i].type = "RIGHTS" /\ msgs[i].fds # <<>> /\ Range(msgs[i].fds) \subseteq Num
  <2>1. \A i \in DOMAIN msgs : msgs[i] \in CredentialsMessage \/ msgs[i] \in RightsMessage
    <3>1. msgs \in Headers
      BY <1>1 DEF MessagesTyped
    <3>2. \/ msgs = <<>>
          \/ \E c \in CredentialsMessage : msgs = <<c>>
          \/ \E r \in RightsMessage : msgs = <<r>>
          \/ \E c \in CredentialsMessage, r \in RightsMessage : msgs = <<c, r>>
      BY <3>1 DEF Headers
    <3> QED BY <3>2
  <2>2. \A r \in RightsMessage : r.type = "RIGHTS" /\ r.fds # <<>> /\ r.fds \in Distinct
    BY DEF RightsMessage
  <2> QED BY <2>1, <2>2, DistinctCounts DEF CredentialsMessage
<1>6. TypeOK
  BY <1>1, <1>2, <1>3, <1>4, <1>5 DEF MessagesTyped, TypeOK
<1>7. Cardinality(Range(Unclaimed)) = Len(Unclaimed)
  BY <1>1, UnclaimedNumbers
<1> QED BY <1>1, <1>6, <1>7 DEF OwnedByOne, His, ReceivedOwnedOnce

\* Every step keeps the invariant.
LEMMA NextMessagesInv == MessagesInv /\ [Next]_vars => MessagesInv'
<1> SUFFICES ASSUME MessagesInv, [Next]_vars PROVE MessagesInv'
  OBVIOUS
<1>1. CASE UNCHANGED vars
  BY <1>1, SameOwners DEF MessagesInv, MessagesTyped, vars
<1>2. CASE SenderStep
  BY <1>2, SenderKeepsInv
<1>3. CASE ReceptionStep
  BY <1>3, PreparingKeepsInv, ReceiveKeepsInv, DeserializeKeepsInv, ObjectKeepsInv, OwnKeepsInv
     DEF ReceptionStep
<1> QED BY <1>1, <1>2, <1>3 DEF Next

\* The invariant holds in every reachable state.
THEOREM MessagesInvariance == Spec => []MessagesInv
  BY InitMessagesInv, NextMessagesInv, PTL DEF Spec

\* A received file is closed or taken once, and the files of the client never
\* behind its back, however headers and UnixRightsMessage are reused.
THEOREM ReceivedFilesHaveOneOwner == Spec => []ReceivedOwnedOnce
  BY MessagesInvariance, InvImpliesOwned, PTL

-----------------------------------------------------------------------------
(* Messages: what was sent, is in the socket and has arrived *)

\* The pieces of q up to the i-th that files were sent along with.
Carry(q, i) == {j \in 1 .. Len(q) : j <= i /\ q[j].files # <<>>}

\* The lists that were sent are those that have arrived and those in q.
InOrder(q, snt, arr) ==
    /\ Len(arr) + Cardinality(Carry(q, Len(q))) = Len(snt)
    /\ \A i \in Carry(q, Len(q)) : q[i].files = snt[Len(arr) + Cardinality(Carry(q, i))]

\* A list arrives whole or cut off at its end.
CutOff(snt, arr) == \A i \in 1 .. Len(arr) : IsPrefix(arr[i], snt[i])

\* The numbers stand for the files of the last list that brought any.
LastBrought(fds, tab, arr) ==
    \E k \in 1 .. Len(arr) :
        /\ arr[k] # <<>> /\ Len(fds) = Len(arr[k])
        /\ \A i \in 1 .. Len(fds) : tab[fds[i]] = arr[k][i]
        /\ \A l \in 1 .. Len(arr) : l > k => arr[l] = <<>>

\* What the header and the UnixRightsMessage offer was sent last.
Offered ==
    /\ \A i \in DOMAIN msgs : msgs[i].type = "RIGHTS" => LastBrought(msgs[i].fds, table, arrived)
    /\ m_unclaimed_fds /\ InHeader = {} => LastBrought(m_fds, table, arrived)

\* Files that wait for the first of their payload are the last ones handed over.
LastWaits == control_msg # <<>> => handed # <<>> /\ Last(handed) = control_msg /\ iovec > 0

RightsInv ==
    MessagesInv /\ LastWaits /\ InOrder(queue, Sent, arrived) /\ CutOff(Sent, arrived) /\ Offered

\* What was sent are lists again.
LEMMA SentTyped == ASSUME MessagesTyped, LastWaits PROVE Sent \in Seq(Lists)
<1>1. CASE control_msg = <<>>
  BY <1>1 DEF MessagesTyped, Sent
<1>2. CASE control_msg # <<>>
  <2>1. handed \in Seq(Lists) /\ handed # <<>>
    BY <1>2 DEF MessagesTyped, LastWaits
  <2>2. Len(handed) - 1 \in 0 .. Len(handed)
    BY <2>1, LenProperties, EmptySeq
  <2> QED BY <1>2, <2>1, <2>2, SubSeqProperties DEF Sent, Front
<1> QED BY <1>1, <1>2

\* A list that is handed over waits.
LEMMA HandedWaits ==
    ASSUME MessagesTyped, LastWaits, NEW list \in Lists, list # <<>>,
           handed' = Append(handed, list), control_msg = <<>>, control_msg' = list
    PROVE  Sent' = Sent /\ handed' # <<>> /\ Last(handed') = list
<1>0. handed \in Seq(Lists) /\ Len(handed) \in Nat
  BY LenProperties DEF MessagesTyped
<1>1. /\ handed' \in Seq(Lists) /\ Len(handed') = Len(handed) + 1
      /\ \A i \in 1 .. Len(handed) : handed'[i] = handed[i]
      /\ handed'[Len(handed) + 1] = list
  BY <1>0, AppendProperties
<1>2. SubSeq(handed', 1, Len(handed)) = handed
  <2>1. Len(handed) \in 0 .. Len(handed')
    BY <1>0, <1>1
  <2>2. SubSeq(handed', 1, Len(handed)) = [i \in 1 .. Len(handed) |-> handed'[i]]
    BY <1>1, <2>1
  <2> QED BY <1>0, <1>1, <2>2, LenProperties
<1>3. Sent' = SubSeq(handed', 1, Len(handed)) /\ Sent = handed
  BY <1>0, <1>1 DEF Sent, Front
<1>4. handed' # <<>> /\ Last(handed') = list
  BY <1>0, <1>1, EmptySeq DEF Last
<1> QED BY <1>2, <1>3, <1>4

\* It is sent when it does so no more.
LEMMA WaitedThenSent ==
    ASSUME MessagesTyped, LastWaits, handed' = handed, control_msg' = <<>>, control_msg # <<>>
    PROVE  Sent' = Append(Sent, control_msg)
<1>0. handed \in Seq(Lists) /\ Len(handed) \in Nat
  BY LenProperties DEF MessagesTyped
<1>1. handed # <<>> /\ control_msg = handed[Len(handed)]
  BY DEF LastWaits, Last
<1>2. Len(handed) >= 1
  BY <1>0, <1>1, EmptySeq
<1> DEFINE front == SubSeq(handed, 1, Len(handed) - 1)
<1>3. /\ front \in Seq(Lists) /\ Len(front) = Len(handed) - 1
      /\ \A i \in 1 .. Len(front) : front[i] = handed[i]
  <2> DEFINE n == Len(handed) - 1
  <2>1. n \in 0 .. Len(handed) /\ n - 1 + 1 = n /\ \A i \in 1 .. n : 1 + i - 1 = i /\ i \in 1 .. Len(handed)
    BY <1>0, <1>2
  <2>2. \A i \in 1 .. n : handed[i] \in Lists
    BY <1>0, <2>1, ElementOfSeq
  <2> HIDE DEF n
  <2>3. SubSeq(handed, 1, n) = [i \in 1 .. n |-> handed[i]]
    BY <2>1
  <2> QED BY <2>1, <2>2, <2>3, LenProperties DEF n
<1> HIDE DEF front
<1>4. Append(front, handed[Len(handed)]) = handed
  <2>1. handed[Len(handed)] \in Lists
    BY <1>0, <1>2, ElementOfSeq
  <2>2. /\ Append(front, handed[Len(handed)]) \in Seq(Lists)
        /\ Len(Append(front, handed[Len(handed)])) = Len(handed)
        /\ \A i \in 1 .. Len(handed) : Append(front, handed[Len(handed)])[i] = handed[i]
    BY <1>0, <1>2, <1>3, <2>1, AppendProperties
  <2> QED BY <1>0, <2>2, SeqEqual
<1>5. Sent = front /\ Sent' = handed
  BY DEF Sent, Front, front
<1> QED BY <1>1, <1>4, <1>5

\* The pieces with files can be counted.
LEMMA CarryCounts ==
    ASSUME NEW q \in Seq(Piece), NEW i \in Nat
    PROVE  /\ IsFiniteSet(Carry(q, i)) /\ Cardinality(Carry(q, i)) \in Nat
           /\ Cardinality(Carry(q, i)) <= Cardinality(Carry(q, Len(q)))
           /\ i \in Carry(q, Len(q)) => Cardinality(Carry(q, i)) >= 1
<1>1. Len(q) \in Nat /\ IsFiniteSet(1 .. Len(q))
  BY LenProperties, FS_Interval
<1>2. ASSUME NEW k \in Nat PROVE IsFiniteSet(Carry(q, k)) /\ Cardinality(Carry(q, k)) \in Nat
  <2>1. Carry(q, k) \in SUBSET (1 .. Len(q))
    BY DEF Carry
  <2> QED BY <1>1, <2>1, FS_Subset, FS_CardinalityType
<1>3. Carry(q, i) \in SUBSET Carry(q, Len(q))
  BY <1>1 DEF Carry
<1>4. Cardinality(Carry(q, i)) <= Cardinality(Carry(q, Len(q)))
  BY <1>1, <1>2, <1>3, FS_Subset
<1>5. i \in Carry(q, Len(q)) => Carry(q, i) # {}
  BY <1>1 DEF Carry
<1>6. Carry(q, i) # {} => Cardinality(Carry(q, i)) # 0
  BY <1>2, FS_EmptySet
<1> QED BY <1>2, <1>4, <1>5, <1>6

\* One piece more.
LEMMA CarryAppend ==
    ASSUME NEW q \in Seq(Piece), NEW piece \in Piece
    PROVE  LET p == Append(q, piece) IN
           /\ \A i \in 0 .. Len(q) : Carry(p, i) = Carry(q, i)
           /\ Carry(p, Len(p)) = IF piece.files = <<>> THEN Carry(q, Len(q))
                                 ELSE Carry(q, Len(q)) \union {Len(p)}
<1> DEFINE p == Append(q, piece)
<1>1. /\ p \in Seq(Piece) /\ Len(q) \in Nat /\ Len(p) = Len(q) + 1
      /\ \A i \in 1 .. Len(q) : p[i] = q[i]
      /\ p[Len(q) + 1] = piece
  BY AppendProperties, LenProperties
<1> HIDE DEF p
<1>2. ASSUME NEW i \in 0 .. Len(q) PROVE Carry(p, i) = Carry(q, i)
  BY <1>1 DEF Carry
<1>3. \A j : j \in Carry(p, Len(p)) <=> j \in Carry(q, Len(q)) \/ (j = Len(p) /\ piece.files # <<>>)
  <2> SUFFICES ASSUME NEW j
               PROVE  j \in Carry(p, Len(p)) <=> j \in Carry(q, Len(q)) \/ (j = Len(p) /\ piece.files # <<>>)
    OBVIOUS
  <2>1. CASE j \in 1 .. Len(q)
    BY <1>1, <2>1 DEF Carry
  <2>2. CASE j = Len(p)
    BY <1>1, <2>2 DEF Carry
  <2>3. CASE j \notin 1 .. Len(p)
    BY <1>1, <2>3 DEF Carry
  <2>4. j \in 1 .. Len(p) => j \in 1 .. Len(q) \/ j = Len(p)
    BY <1>1
  <2> QED BY <2>1, <2>2, <2>3, <2>4
<1>4. Carry(p, Len(p)) = IF piece.files = <<>> THEN Carry(q, Len(q))
                         ELSE Carry(q, Len(q)) \union {Len(p)}
  BY <1>3
<1> QED BY <1>2, <1>4 DEF p

\* One piece less.
LEMMA CarryTail ==
    ASSUME NEW q \in Seq(Piece), q # <<>>, NEW i \in 0 .. Len(Tail(q))
    PROVE  /\ \A j \in Nat : j \in Carry(Tail(q), i) <=> j + 1 \in Carry(q, i + 1) /\ j # 0
           /\ Cardinality(Carry(q, i + 1)) =
                 Cardinality(Carry(Tail(q), i)) + (IF q[1].files = <<>> THEN 0 ELSE 1)
<1> DEFINE t == Tail(q)
           S == Carry(t, i)
           T == {j \in Carry(q, i + 1) : j # 1}
           f == [j \in S |-> j + 1]
<1>1. /\ t \in Seq(Piece) /\ Len(q) \in Nat \ {0} /\ Len(t) = Len(q) - 1
      /\ \A j \in 1 .. Len(t) : t[j] = q[j + 1]
  BY HeadTailProperties, EmptySeq
<1>2. i \in Nat /\ i <= Len(t)
  BY <1>1
<1> HIDE DEF t
<1>3. ASSUME NEW j \in Nat PROVE j \in S <=> j + 1 \in Carry(q, i + 1) /\ j # 0
  <2>1. CASE j \in 1 .. Len(t)
    <3>1. t[j] = q[j + 1] /\ j + 1 \in 1 .. Len(q) /\ (j <= i <=> j + 1 <= i + 1)
      BY <1>1, <1>2, <2>1
    <3> QED BY <2>1, <3>1 DEF Carry
  <2>2. CASE j \notin 1 .. Len(t)
    <3>1. j = 0 \/ j + 1 \notin 1 .. Len(q)
      BY <1>1, <2>2
    <3> QED BY <2>2, <3>1 DEF Carry
  <2> QED BY <2>1, <2>2
<1>4. S \subseteq Nat /\ T \subseteq Nat \ {0, 1} /\ IsFiniteSet(S) /\ IsFiniteSet(Carry(q, i + 1))
  <2>1. IsFiniteSet(S) /\ IsFiniteSet(Carry(q, i + 1))
    BY <1>1, <1>2, CarryCounts
  <2>2. S \subseteq Nat /\ T \subseteq Nat \ {0, 1}
    BY DEF Carry
  <2> QED BY <2>1, <2>2
<1> HIDE DEF S
<1>5. f \in Bijection(S, T)
  <2>1. \A j \in S : j + 1 \in T
    BY <1>3, <1>4
  <2>2. \A k \in T : k - 1 \in S /\ k = (k - 1) + 1
    BY <1>3, <1>4
  <2>3. f \in [S -> T]
    BY <2>1
  <2> HIDE DEF T
  <2>4. \A a, b \in S : f[a] = f[b] => a = b
    BY <1>4
  <2>5. \A k \in T : \E j \in S : f[j] = k
    BY <2>2
  <2> HIDE DEF f
  <2> QED BY <2>3, <2>4, <2>5 DEF Bijection, Injection, IsInjective, Surjection
<1>6. IsFiniteSet(T) /\ Cardinality(T) = Cardinality(S) /\ Cardinality(S) \in Nat
  BY <1>4, <1>5, FS_Bijection, FS_CardinalityType DEF ExistsBijection
<1>7. 1 \in Carry(q, i + 1) <=> q[1].files # <<>>
  BY <1>1, <1>2 DEF Carry
<1>8. Carry(q, i + 1) = IF q[1].files = <<>> THEN T ELSE T \union {1}
  BY <1>7
<1>9. Cardinality(T \union {1}) = Cardinality(T) + 1
  <2>1. 1 \notin T
    OBVIOUS
  <2> HIDE DEF T
  <2> QED BY <1>6, <2>1, FS_AddElement
<1> HIDE DEF T
<1>10. Cardinality(Carry(q, i + 1)) = Cardinality(S) + (IF q[1].files = <<>> THEN 0 ELSE 1)
  BY <1>6, <1>8, <1>9
<1> QED BY <1>3, <1>10 DEF S, t

\* A piece is sent, with its list if it has one.
LEMMA SendInOrder ==
    ASSUME NEW q \in Seq(Piece), NEW piece \in Piece, NEW snt \in Seq(Lists), NEW arr \in Seq(Lists),
           InOrder(q, snt, arr)
    PROVE  InOrder(Append(q, piece), IF piece.files = <<>> THEN snt ELSE Append(snt, piece.files), arr)
<1> DEFINE p == Append(q, piece)
           s == IF piece.files = <<>> THEN snt ELSE Append(snt, piece.files)
           N == Cardinality(Carry(q, Len(q)))
<1>1. /\ p \in Seq(Piece) /\ Len(q) \in Nat /\ Len(p) = Len(q) + 1
      /\ \A i \in 1 .. Len(q) : p[i] = q[i]
      /\ p[Len(p)] = piece
  BY AppendProperties, LenProperties
<1>2. /\ \A i \in 0 .. Len(q) : Carry(p, i) = Carry(q, i)
      /\ Carry(p, Len(p)) = IF piece.files = <<>> THEN Carry(q, Len(q))
                            ELSE Carry(q, Len(q)) \union {Len(p)}
  BY CarryAppend
<1> HIDE DEF p
<1>3. IsFiniteSet(Carry(q, Len(q))) /\ N \in Nat /\ Len(arr) \in Nat /\ Len(snt) \in Nat /\ Len(arr) + N = Len(snt)
  BY <1>1, CarryCounts, LenProperties DEF InOrder
<1>4. ASSUME NEW i \in Carry(q, Len(q))
      PROVE  /\ i \in 1 .. Len(q) /\ q[i].files = snt[Len(arr) + Cardinality(Carry(q, i))]
             /\ Len(arr) + Cardinality(Carry(q, i)) \in 1 .. Len(snt)
  <2>1. i \in 1 .. Len(q)
    BY DEF Carry
  <2>2. Cardinality(Carry(q, i)) \in Nat /\ Cardinality(Carry(q, i)) <= N /\ Cardinality(Carry(q, i)) >= 1
    BY <1>1, <2>1, CarryCounts
  <2> QED BY <1>3, <2>1, <2>2 DEF InOrder
<1>5. ASSUME piece.files = <<>> PROVE InOrder(p, s, arr)
  <2>1. s = snt /\ Carry(p, Len(p)) = Carry(q, Len(q))
    BY <1>2, <1>5
  <2>2. ASSUME NEW i \in Carry(q, Len(q)) PROVE p[i].files = snt[Len(arr) + Cardinality(Carry(p, i))]
    <3>1. i \in 0 .. Len(q) /\ p[i] = q[i]
      BY <1>1, <1>4
    <3> QED BY <1>2, <1>4, <3>1
  <2> HIDE DEF s
  <2> QED BY <1>3, <2>1, <2>2 DEF InOrder
<1>6. ASSUME piece.files # <<>> PROVE InOrder(p, s, arr)
  <2>1. piece.files \in Lists
    BY DEF Piece
  <2>2. /\ s = Append(snt, piece.files) /\ Len(s) = Len(snt) + 1
        /\ \A i \in 1 .. Len(snt) : s[i] = snt[i]
        /\ s[Len(snt) + 1] = piece.files
    BY <1>6, <2>1, AppendProperties
  <2> HIDE DEF s
  <2>3. Len(p) \notin Carry(q, Len(q))
    BY <1>1 DEF Carry
  <2>4. Cardinality(Carry(p, Len(p))) = N + 1
    BY <1>2, <1>3, <1>6, <2>3, FS_AddElement
  <2>5. ASSUME NEW i \in Carry(p, Len(p)) PROVE p[i].files = s[Len(arr) + Cardinality(Carry(p, i))]
    <3>1. CASE i = Len(p)
      BY <1>1, <1>3, <2>2, <2>4, <3>1
    <3>2. CASE i # Len(p)
      <4>1. i \in Carry(q, Len(q))
        BY <1>2, <1>6, <3>2
      <4>2. i \in 0 .. Len(q) /\ p[i] = q[i]
        BY <1>1, <1>4, <4>1
      <4> QED BY <1>2, <1>4, <2>2, <4>1, <4>2
    <3> QED BY <3>1, <3>2
  <2>6. Len(arr) + Cardinality(Carry(p, Len(p))) = Len(s)
    <3> DEFINE M == Cardinality(Carry(p, Len(p)))
    <3>1. M = N + 1
      BY <2>4
    <3> HIDE DEF M, N
    <3>2. Len(s) = Len(snt) + 1
      BY <2>2
    <3>3. N \in Nat /\ Len(arr) \in Nat /\ Len(snt) \in Nat /\ Len(arr) + N = Len(snt)
      BY <1>3
    <3>4. Len(arr) + M = Len(s)
      <4> DEFINE a == Len(arr)
                 b == Len(snt)
      <4>1. N \in Nat /\ a \in Nat /\ b \in Nat /\ a + N = b
        BY <3>3
      <4> HIDE DEF a, b
      <4>2. a + (N + 1) = b + 1
        BY <4>1
      <4> QED BY <3>1, <3>2, <4>2 DEF a, b
    <3> QED BY <3>4 DEF M
  <2> QED BY <2>5, <2>6 DEF InOrder
<1>7. InOrder(p, s, arr)
  BY <1>5, <1>6
<1> QED BY <1>7 DEF s, p

\* The first piece is taken: its list arrives, in whatever length.
LEMMA TakeInOrder ==
    ASSUME NEW q \in Seq(Piece), q # <<>>, NEW snt \in Seq(Lists), NEW arr \in Seq(Lists), NEW list \in Lists,
           InOrder(q, snt, arr)
    PROVE  /\ InOrder(Tail(q), snt, IF q[1].files = <<>> THEN arr ELSE Append(arr, list))
           /\ q[1].files # <<>> => Len(arr) < Len(snt) /\ q[1].files = snt[Len(arr) + 1]
<1> DEFINE t == Tail(q)
           a == IF q[1].files = <<>> THEN arr ELSE Append(arr, list)
           d == IF q[1].files = <<>> THEN 0 ELSE 1
<1>1. /\ t \in Seq(Piece) /\ Len(q) \in Nat \ {0} /\ Len(t) = Len(q) - 1 /\ Len(arr) \in Nat /\ Len(snt) \in Nat
      /\ \A j \in 1 .. Len(t) : t[j] = q[j + 1]
  BY HeadTailProperties, EmptySeq, LenProperties
<1>2. Len(a) = Len(arr) + d
  BY <1>1, AppendProperties
<1> HIDE DEF a
<1>3. ASSUME NEW i \in 0 .. Len(t)
      PROVE  /\ Cardinality(Carry(q, i + 1)) = Cardinality(Carry(t, i)) + d /\ Cardinality(Carry(t, i)) \in Nat
             /\ \A j \in Nat : j \in Carry(t, i) <=> j + 1 \in Carry(q, i + 1) /\ j # 0
  <2>1. i \in Nat
    BY <1>1
  <2> QED BY <1>1, <2>1, CarryTail, CarryCounts
<1> HIDE DEF t
<1>4. Len(t) \in 0 .. Len(t) /\ Len(t) + 1 = Len(q) /\ d \in {0, 1}
  BY <1>1
<1>5. Len(a) + Cardinality(Carry(t, Len(t))) = Len(snt)
  <2>1. Cardinality(Carry(q, Len(t) + 1)) = Cardinality(Carry(t, Len(t))) + d /\ Cardinality(Carry(t, Len(t))) \in Nat
    BY <1>3, <1>4
  <2>2. Len(arr) + Cardinality(Carry(q, Len(q))) = Len(snt)
    BY DEF InOrder
  <2> HIDE DEF d
  <2> QED BY SMTT(30), <1>1, <1>2, <1>4, <2>1, <2>2
<1>6. ASSUME NEW i \in Carry(t, Len(t)) PROVE t[i].files = snt[Len(a) + Cardinality(Carry(t, i))]
  <2>1. i \in 1 .. Len(t) /\ i \in 0 .. Len(t) /\ i \in Nat
    BY <1>1 DEF Carry
  <2>2. i + 1 \in Carry(q, Len(q))
    BY <1>3, <1>4, <2>1
  <2>3. q[i + 1].files = snt[Len(arr) + Cardinality(Carry(q, i + 1))]
    BY <2>2 DEF InOrder
  <2>4. Len(arr) + Cardinality(Carry(q, i + 1)) = Len(a) + Cardinality(Carry(t, i))
    <3>1. Cardinality(Carry(q, i + 1)) = Cardinality(Carry(t, i)) + d /\ Cardinality(Carry(t, i)) \in Nat
      BY <1>3, <2>1
    <3>2. Len(a) = Len(arr) + d /\ Len(arr) \in Nat /\ d \in Nat
      BY <1>1, <1>2, <1>4
    <3> HIDE DEF d
    <3> QED BY <3>1, <3>2
  <2> QED BY <1>1, <2>1, <2>3, <2>4
<1>7. ASSUME q[1].files # <<>> PROVE Len(arr) < Len(snt) /\ q[1].files = snt[Len(arr) + 1]
  <2>1. 1 \in Carry(q, Len(q))
    BY <1>1, <1>7 DEF Carry
  <2>2. Carry(q, 1) = {1}
    BY <1>1, <1>7 DEF Carry
  <2>3. Cardinality(Carry(q, 1)) = 1
    BY <2>2, FS_Singleton
  <2>4. Cardinality(Carry(q, 1)) <= Cardinality(Carry(q, Len(q))) /\ Cardinality(Carry(q, Len(q))) \in Nat
    BY <1>1, CarryCounts
  <2>5. Len(arr) + Cardinality(Carry(q, Len(q))) = Len(snt) /\ q[1].files = snt[Len(arr) + Cardinality(Carry(q, 1))]
    BY <2>1 DEF InOrder
  <2> QED BY <1>1, <2>3, <2>4, <2>5
<1> QED BY <1>5, <1>6, <1>7 DEF InOrder, a, t

\* The first piece becomes shorter, and has no list any more.
LEMMA RestInOrder ==
    ASSUME NEW q \in Seq(Piece), NEW rest \in Piece, rest.files = <<>>, NEW snt, NEW arr, InOrder(q, snt, arr)
    PROVE  InOrder(<<rest>> \o q, snt, arr)
<1> DEFINE p == <<rest>> \o q
<1>1. <<rest>> \in Seq(Piece) /\ Len(<<rest>>) = 1 /\ <<rest>>[1] = rest
  OBVIOUS
<1>2. /\ p \in Seq(Piece) /\ Len(p) = 1 + Len(q) /\ Len(q) \in Nat
      /\ \A i \in 1 .. Len(p) : p[i] = IF i <= 1 THEN rest ELSE q[i - 1]
  BY <1>1, ConcatProperties, LenProperties
<1> HIDE DEF p
<1>3. p # <<>> /\ p[1] = rest
  BY <1>2, EmptySeq
<1>4. Tail(p) = q
  <2> DEFINE t == Tail(p)
  <2>1. /\ t \in Seq(Piece) /\ Len(t) = Len(q)
        /\ \A i \in 1 .. Len(t) : t[i] = p[i + 1]
    BY <1>2, <1>3, HeadTailProperties
  <2> HIDE DEF t
  <2>2. ASSUME NEW i \in 1 .. Len(q) PROVE t[i] = q[i]
    <3>1. i + 1 \in 1 .. Len(p) /\ ~(i + 1 <= 1) /\ (i + 1) - 1 = i
      BY <1>2
    <3> QED BY <1>2, <2>1, <3>1
  <2>3. t = q
    BY <2>1, <2>2, SeqEqual
  <2> QED BY <2>3 DEF t
<1>5. ASSUME NEW i \in 0 .. Len(q)
      PROVE  /\ Cardinality(Carry(p, i + 1)) = Cardinality(Carry(q, i))
             /\ \A j \in Nat : j \in Carry(q, i) <=> j + 1 \in Carry(p, i + 1) /\ j # 0
  <2>1. Cardinality(Carry(q, i)) \in Nat
    <3>1. i \in Nat
      BY <1>2
    <3> QED BY <3>1, CarryCounts
  <2>2. /\ Cardinality(Carry(p, i + 1)) = Cardinality(Carry(Tail(p), i)) + (IF p[1].files = <<>> THEN 0 ELSE 1)
        /\ \A j \in Nat : j \in Carry(Tail(p), i) <=> j + 1 \in Carry(p, i + 1) /\ j # 0
    BY <1>2, <1>3, <1>4, CarryTail
  <2>3. (IF p[1].files = <<>> THEN 0 ELSE 1) = 0
    BY <1>3
  <2>4. Carry(Tail(p), i) = Carry(q, i)
    BY <1>4
  <2>5. Cardinality(Carry(p, i + 1)) = Cardinality(Carry(q, i)) + 0
    BY <2>2, <2>3, <2>4
  <2> QED BY <2>1, <2>2, <2>4, <2>5
<1>6. Cardinality(Carry(p, Len(p))) = Cardinality(Carry(q, Len(q)))
  <2>1. Len(q) \in 0 .. Len(q) /\ Len(q) + 1 = Len(p)
    BY <1>2
  <2> QED BY <1>5, <2>1
<1>7. ASSUME NEW k \in Carry(p, Len(p)) PROVE p[k].files = snt[Len(arr) + Cardinality(Carry(p, k))]
  <2>1. k \in 1 .. Len(p) /\ k # 1
    BY <1>3 DEF Carry
  <2>2. k - 1 \in 1 .. Len(q) /\ (k - 1) + 1 = k /\ p[k] = q[k - 1]
    BY <1>2, <2>1
  <2>3. k - 1 \in 0 .. Len(q)
    BY <2>2
  <2>4. k - 1 \in Carry(q, Len(q))
    BY <1>2, <2>1, <2>2 DEF Carry
  <2>5. q[k - 1].files = snt[Len(arr) + Cardinality(Carry(q, k - 1))]
    BY <2>4 DEF InOrder
  <2> QED BY <1>5, <2>2, <2>3, <2>5
<1> QED BY <1>6, <1>7 DEF InOrder, p

\* What is offered depends on the files behind the numbers that are offered.
LEMMA SameOffer ==
    ASSUME NEW fds \in Seq(Num), NEW tab, NEW arr, LastBrought(fds, tab, arr),
           NEW new, \A n \in Range(fds) : new[n] = tab[n]
    PROVE  LastBrought(fds, new, arr)
<1>1. \A i \in 1 .. Len(fds) : new[fds[i]] = tab[fds[i]]
  BY LenProperties DEF Range
<1> QED BY <1>1 DEF LastBrought

\* Another list arrives, without its files: what was brought last stays so.
LEMMA NothingBrought ==
    ASSUME NEW fds, NEW tab, NEW arr \in Seq(Lists), LastBrought(fds, tab, arr)
    PROVE  LastBrought(fds, tab, Append(arr, <<>>))
<1> DEFINE a == Append(arr, <<>>)
<1>1. <<>> \in Lists
  BY DEF Lists
<1>2. /\ Len(a) = Len(arr) + 1 /\ Len(arr) \in Nat /\ a[Len(arr) + 1] = <<>>
      /\ \A i \in 1 .. Len(arr) : a[i] = arr[i]
  BY <1>1, AppendProperties, LenProperties
<1> HIDE DEF a
<1>3. PICK k \in 1 .. Len(arr) :
        /\ arr[k] # <<>> /\ Len(fds) = Len(arr[k])
        /\ \A i \in 1 .. Len(fds) : tab[fds[i]] = arr[k][i]
        /\ \A l \in 1 .. Len(arr) : l > k => arr[l] = <<>>
  BY DEF LastBrought
<1>4. k \in 1 .. Len(a) /\ a[k] = arr[k]
  BY <1>2
<1>5. \A l \in 1 .. Len(a) : l > k => a[l] = <<>>
  <2>1. ASSUME NEW l \in 1 .. Len(a), l > k PROVE a[l] = <<>>
    <3>1. l \in 1 .. Len(arr) \/ l = Len(arr) + 1
      BY <1>2
    <3> QED BY <1>2, <1>3, <2>1, <3>1
  <2> QED BY <2>1
<1>6. LastBrought(fds, tab, a)
  BY <1>3, <1>4, <1>5 DEF LastBrought
<1> QED BY <1>6 DEF a

\* The steps that leave the socket, and what has arrived, alone.
LEMMA SameRights ==
    ASSUME RightsInv, MessagesInv', UNCHANGED <<iovec, control_msg, handed, queue, arrived>>, Offered'
    PROVE  RightsInv'
  BY DEF RightsInv, InOrder, CutOff, LastWaits, Sent

\* The numbers in the header.
LEMMA OfferedInHeader ==
    ASSUME MessagesTyped, NEW i \in DOMAIN msgs, msgs[i].type = "RIGHTS"
    PROVE  /\ msgs[i].fds \in Seq(Num) /\ msgs[i].fds \in Distinct /\ Range(msgs[i].fds) \subseteq InHeader
           /\ InHeader # {}
<1>1. msgs[i] \in RightsMessage
  <2>1. msgs \in Headers
    BY DEF MessagesTyped
  <2>2. \A c \in CredentialsMessage : c.type # "RIGHTS"
    BY DEF CredentialsMessage
  <2>3. \/ msgs = <<>>
        \/ \E c \in CredentialsMessage : msgs = <<c>>
        \/ \E r \in RightsMessage : msgs = <<r>>
        \/ \E c \in CredentialsMessage, r \in RightsMessage : msgs = <<c, r>>
    BY <2>1 DEF Headers
  <2> QED BY <2>2, <2>3
<1>2. msgs[i].fds \in Seq(Num) /\ msgs[i].fds \in Distinct /\ msgs[i].fds # <<>>
  BY <1>1 DEF RightsMessage, Distinct
<1>3. Range(msgs[i].fds) \subseteq InHeader
  BY DEF InHeader
<1>4. 1 \in DOMAIN msgs[i].fds
  BY <1>2, LenProperties, EmptySeq
<1>5. Range(msgs[i].fds) # {}
  BY <1>4 DEF Range
<1> QED BY <1>2, <1>3, <1>5

\* When the header, the UnixRightsMessage and the files behind their numbers
\* stay what they are, so does what they offer.
LEMMA SameOffered ==
    ASSUME MessagesInv, Offered, UNCHANGED <<msgs, arrived, m_fds>>, m_unclaimed_fds' => m_unclaimed_fds,
           \A n \in InHeader : table'[n] = table[n],
           m_unclaimed_fds' => \A n \in Range(Unclaimed) : table'[n] = table[n]
    PROVE  Offered'
<1>1. MessagesTyped
  BY DEF MessagesInv
<1>2. ASSUME NEW i \in DOMAIN msgs, msgs[i].type = "RIGHTS" PROVE LastBrought(msgs[i].fds, table', arrived)
  <2>1. LastBrought(msgs[i].fds, table, arrived)
    BY <1>2 DEF Offered
  <2>2. msgs[i].fds \in Seq(Num) /\ Range(msgs[i].fds) \subseteq InHeader
    BY <1>1, <1>2, OfferedInHeader
  <2> QED BY <2>1, <2>2, SameOffer
<1>3. ASSUME m_unclaimed_fds', InHeader' = {} PROVE LastBrought(m_fds, table', arrived)
  <2>1. InHeader = {} /\ m_unclaimed_fds
    BY <1>3, HeaderHolds
  <2>2. LastBrought(m_fds, table, arrived) /\ m_fds \in Seq(Num) /\ Unclaimed = m_fds
    BY <1>1, <2>1 DEF Offered, MessagesTyped, Unclaimed
  <2> QED BY <1>3, <2>2, SameOffer
<1> QED BY <1>2, <1>3 DEF Offered

\* In the beginning nothing has been sent.
LEMMA InitRights == Init => RightsInv
<1> SUFFICES ASSUME Init PROVE RightsInv
  OBVIOUS
<1>1. /\ queue = <<>> /\ Sent = <<>> /\ arrived = <<>> /\ msgs = <<>> /\ m_unclaimed_fds = FALSE
      /\ LastWaits
  <2>1. /\ queue = <<>> /\ handed = <<>> /\ control_msg = <<>> /\ arrived = <<>> /\ msgs = <<>>
        /\ m_unclaimed_fds = FALSE
    BY Zenon DEF Init
  <2> QED BY <2>1 DEF Sent, LastWaits
<1>2. Len(<<>>) = 0 /\ Carry(<<>>, 0) = {} /\ Cardinality({}) = 0
  BY FS_EmptySet DEF Carry
<1>3. InOrder(queue, Sent, arrived) /\ CutOff(Sent, arrived)
  <2>1. Carry(queue, Len(queue)) = {} /\ Len(arrived) = 0 /\ Len(Sent) = 0
    BY Zenon, <1>1, <1>2
  <2>2. InOrder(queue, Sent, arrived)
    BY <1>2, <2>1 DEF InOrder
  <2>3. CutOff(Sent, arrived)
    BY <2>1 DEF CutOff
  <2> QED BY <2>2, <2>3
<1>4. Offered
  BY <1>1 DEF Offered
<1> QED BY <1>1, <1>3, <1>4, InitMessagesInv DEF RightsInv

\* A list is sent with the first part of the payload, and only with it.
LEMMA SenderKeepsRights ==
    ASSUME RightsInv, MessagesInv', SenderStep
    PROVE  RightsInv'
<1>1. MessagesInv /\ MessagesTyped /\ LastWaits /\ InOrder(queue, Sent, arrived) /\ CutOff(Sent, arrived) /\ Offered
  BY DEF RightsInv, MessagesInv
<1>2. UNCHANGED <<msgs, table, m_fds, m_unclaimed_fds, arrived>>
  BY DEF SenderStep, Prepare, SendMessage, header, rights
<1>3. Offered'
  BY <1>1, <1>2, SameOffered
<1>5. ASSUME NEW bytes \in 1 .. MaxPayload, SendMessage(bytes) PROVE RightsInv'
  <2> DEFINE piece == [bytes |-> bytes, files |-> control_msg]
  <2>1. /\ queue' = Append(queue, piece)
        /\ Sent' = IF control_msg = <<>> THEN Sent ELSE Append(Sent, control_msg)
        /\ LastWaits'
    <3>1. queue' = Append(queue, piece) /\ handed' = handed /\ control_msg' = <<>>
      BY <1>5 DEF SendMessage
    <3> QED BY <1>1, <3>1, WaitedThenSent DEF LastWaits, Sent
  <2>2. piece \in Piece /\ piece.files = control_msg /\ control_msg \in Lists
    BY <1>1 DEF MessagesTyped, Piece
  <2>3. queue \in Seq(Piece) /\ Sent \in Seq(Lists) /\ arrived \in Seq(Lists)
    BY <1>1, SentTyped DEF MessagesTyped
  <2> HIDE DEF piece
  <2>4. InOrder(queue', Sent', arrived')
    BY <1>1, <1>2, <2>1, <2>2, <2>3, SendInOrder
  <2>5. CutOff(Sent', arrived')
    <3>1. Len(arrived) <= Len(Sent) /\ Len(arrived) \in Nat /\ Len(Sent) \in Nat
      <4> DEFINE N == Cardinality(Carry(queue, Len(queue)))
      <4>1. N \in Nat
        BY <2>3, CarryCounts, LenProperties
      <4>2. Len(arrived) + N = Len(Sent)
        BY <1>1 DEF InOrder
      <4> HIDE DEF N
      <4> QED BY <2>3, <4>1, <4>2, LenProperties
    <3>2. \A i \in 1 .. Len(Sent) : Sent'[i] = Sent[i]
      BY <2>1, <2>2, <2>3, AppendProperties
    <3>3. \A i \in 1 .. Len(arrived) : i \in 1 .. Len(Sent)
      BY <3>1
    <3> QED BY <1>1, <1>2, <3>2, <3>3 DEF CutOff
  <2> QED BY <1>3, <2>1, <2>4, <2>5 DEF RightsInv
<1>6. ASSUME NEW bytes \in 1 .. MaxPayload, NEW list \in Lists, Prepare(bytes, list) PROVE RightsInv'
  <2>1. /\ iovec = 0 /\ iovec' = bytes /\ control_msg' = list /\ queue' = queue
        /\ handed' = IF list = <<>> THEN handed ELSE Append(handed, list)
    BY <1>6 DEF Prepare
  <2>2. control_msg = <<>> /\ bytes > 0
    BY <1>1, <2>1 DEF LastWaits
  <2>3. Sent' = Sent /\ LastWaits'
    <3>1. CASE list = <<>>
      BY <2>1, <2>2, <3>1 DEF Sent, LastWaits
    <3>2. CASE list # <<>>
      BY <1>1, <2>1, <2>2, <3>2, HandedWaits DEF LastWaits
    <3> QED BY <3>1, <3>2
  <2> QED BY <1>1, <1>2, <1>3, <2>1, <2>3 DEF RightsInv, InOrder, CutOff
<1> QED BY <1>5, <1>6 DEF SenderStep

\* The first list in the socket arrives, cut off where room or numbers end.
LEMMA ReceiveKeepsRights ==
    ASSUME RightsInv, MessagesInv', NEW bytes \in 1 .. MaxPayload, ReceiveMessage(bytes)
    PROVE  RightsInv'
<1> DEFINE list == queue[1].files
           fds == WhatFits(list)
           part == SubSeq(list, 1, Len(fds))
<1>1. /\ MessagesInv /\ MessagesTyped /\ LastWaits /\ InOrder(queue, Sent, arrived) /\ CutOff(Sent, arrived) /\ Offered
      /\ MessagesTyped'
  BY Zenon DEF RightsInv, MessagesInv
<1>2. /\ msgs = <<>>
      /\ arrived' = IF list = <<>> THEN arrived ELSE Append(arrived, part)
      /\ queue' = IF bytes = queue[1].bytes THEN Tail(queue)
                  ELSE <<[bytes |-> queue[1].bytes - bytes, files |-> <<>>]>> \o Tail(queue)
      /\ msgs' = Credentials(Room) \o (IF fds = <<>> THEN <<>> ELSE <<[type |-> "RIGHTS", fds |-> fds]>>)
      /\ UNCHANGED <<m_fds, m_unclaimed_fds, iovec, control_msg, handed>>
  BY DEF ReceiveMessage, WhatFits, sender, rights
<1>3. /\ queue \in Seq(Piece) /\ queue # <<>> /\ queue[1] \in Piece /\ Tail(queue) \in Seq(Piece)
      /\ list \in Lists /\ list \in Seq(File) /\ Len(list) \in Nat /\ part \in Lists
      /\ fds \in Seq(Num) /\ Len(fds) \in 0 .. Len(list) /\ (fds = <<>> <=> Len(fds) = 0)
      /\ \A i \in 1 .. Len(fds) : table'[fds[i]] = list[i]
      /\ \A n \in Num : n \notin Range(fds) => table'[n] = table[n]
      /\ \A n \in Range(fds) : n \in Num /\ table[n] = NoFile
  <2>1. \A n \in Range(fds) : n \in Num
    <3>1. fds \in Distinct
      BY <1>1, ReceivedFiles
    <3> HIDE DEF fds
    <3> QED BY <3>1, DistinctCounts
  <2>2. Len(list) \in Nat
    BY <1>1, ReceivedFiles
  <2> HIDE DEF list
  <2> QED BY <1>1, <2>1, <2>2, ReceivedFiles DEF list
<1>4. Sent \in Seq(Lists) /\ arrived \in Seq(Lists)
  BY <1>1, SentTyped DEF MessagesTyped
<1>13. Sent' = Sent /\ LastWaits'
  BY <1>1, <1>2 DEF Sent, LastWaits
<1>5. part \in Seq(File) /\ Len(part) = Len(fds) /\ \A i \in 1 .. Len(fds) : part[i] = list[i]
  <2>1. Len(fds) \in Nat /\ \A i \in 1 .. Len(fds) : list[i] \in File
    BY <1>3, ElementOfSeq
  <2> HIDE DEF fds, list
  <2>2. /\ part \in Seq(File) /\ Len(part) = IF 1 <= Len(fds) THEN Len(fds) - 1 + 1 ELSE 0
        /\ \A i \in 1 .. Len(fds) - 1 + 1 : part[i] = list[1 + i - 1]
    BY <2>1, SubSeqProperties
  <2> QED BY <2>1, <2>2
<1> HIDE DEF list, fds, part
<1>6. /\ InOrder(Tail(queue), Sent, arrived')
      /\ list # <<>> => Len(arrived) < Len(Sent) /\ list = Sent[Len(arrived) + 1]
  BY <1>1, <1>2, <1>3, <1>4, TakeInOrder DEF list
<1>7. InOrder(queue', Sent', arrived')
  <2>1. CASE bytes = queue[1].bytes
    BY <1>2, <1>6, <1>13, <2>1
  <2>2. CASE bytes # queue[1].bytes
    <3> DEFINE rest == [bytes |-> queue[1].bytes - bytes, files |-> <<>>]
    <3>1. bytes <= queue[1].bytes
      BY DEF ReceiveMessage
    <3>2. queue[1].bytes - bytes \in 1 .. MaxPayload
      <4>1. queue[1].bytes \in 1 .. MaxPayload /\ bytes \in 1 .. MaxPayload /\ MaxPayload \in Nat
        BY <1>3, MessagesAssumption DEF Piece
      <4> QED BY <2>2, <3>1, <4>1
    <3>3. rest \in Piece /\ rest.files = <<>>
      BY <3>2 DEF Piece, Lists
    <3> HIDE DEF rest
    <3>4. InOrder(<<rest>> \o Tail(queue), Sent, arrived')
      BY <1>3, <1>6, <3>3, RestInOrder
    <3> QED BY Zenon, <1>2, <1>13, <2>2, <3>4 DEF rest
  <2> QED BY <2>1, <2>2
<1>8. CutOff(Sent', arrived')
  <2>1. CASE list = <<>>
    BY <1>1, <1>2, <1>13, <2>1
  <2>2. CASE list # <<>>
    <3>1. /\ Len(arrived') = Len(arrived) + 1 /\ Len(arrived) \in Nat
          /\ \A i \in 1 .. Len(arrived) : arrived'[i] = arrived[i]
          /\ arrived'[Len(arrived) + 1] = part
      BY <1>2, <1>3, <1>4, <2>2, AppendProperties, LenProperties
    <3>2. IsPrefix(part, list)
      <4>1. Len(part) <= Len(list)
        BY <1>3, <1>5
      <4>2. SubSeq(part, 1, Len(part)) = part
        BY <1>5, SubSeqFull
      <4> QED BY <1>5, <4>1, <4>2 DEF IsPrefix, part
    <3>3. ASSUME NEW i \in 1 .. Len(arrived') PROVE IsPrefix(arrived'[i], Sent'[i])
      <4>1. i \in 1 .. Len(arrived) \/ i = Len(arrived) + 1
        BY <3>1
      <4> QED BY <1>1, <1>6, <1>13, <2>2, <3>1, <3>2, <4>1 DEF CutOff
    <3> QED BY <3>3 DEF CutOff
  <2> QED BY <2>1, <2>2
<1>9. fds # <<>> => LastBrought(fds, table', arrived')
  <2> SUFFICES ASSUME fds # <<>> PROVE LastBrought(fds, table', arrived')
    OBVIOUS
  <2>1. Len(fds) # 0 /\ Len(list) # 0
    BY <1>3
  <2>2. list # <<>> /\ part # <<>>
    BY <1>5, <2>1
  <2>3. /\ Len(arrived') = Len(arrived) + 1 /\ Len(arrived) \in Nat
        /\ arrived'[Len(arrived) + 1] = part
    BY <1>2, <1>3, <1>4, <2>2, AppendProperties, LenProperties
  <2> DEFINE k == Len(arrived) + 1
  <2>4. k \in 1 .. Len(arrived') /\ arrived'[k] = part /\ \A l \in 1 .. Len(arrived') : ~(l > k)
    BY <2>3
  <2> HIDE DEF k
  <2> QED BY <1>3, <1>5, <2>2, <2>4 DEF LastBrought
<1>10. /\ \A i \in DOMAIN msgs' : msgs'[i].type = "RIGHTS" => msgs'[i].fds = fds /\ fds # <<>>
       /\ fds # <<>> => \E i \in DOMAIN msgs' : msgs'[i].type = "RIGHTS" /\ msgs'[i].fds = fds
  <2>1. Credentials(Room) = <<>> \/ \E m : Credentials(Room) = <<[type |-> "CREDENTIALS", size |-> m]>>
    BY DEF Credentials
  <2> DEFINE r == [type |-> "RIGHTS", fds |-> fds]
  <2>2. r.type = "RIGHTS" /\ r.fds = fds
    OBVIOUS
  <2>3. CASE fds = <<>>
    <3>1. msgs' = Credentials(Room)
      BY <1>2, <2>1, <2>3
    <3> QED BY <2>1, <2>3, <3>1
  <2>4. CASE fds # <<>> /\ Credentials(Room) = <<>>
    <3>1. msgs' = <<r>>
      BY <1>2, <2>4
    <3> HIDE DEF r
    <3> QED BY <2>2, <2>4, <3>1
  <2>5. ASSUME fds # <<>>, NEW m, Credentials(Room) = <<[type |-> "CREDENTIALS", size |-> m]>>
        PROVE  /\ \A i \in DOMAIN msgs' : msgs'[i].type = "RIGHTS" => msgs'[i].fds = fds
               /\ \E i \in DOMAIN msgs' : msgs'[i].type = "RIGHTS" /\ msgs'[i].fds = fds
    <3> DEFINE c == [type |-> "CREDENTIALS", size |-> m]
    <3>1. msgs' = <<c>> \o <<r>>
      BY <1>2, <2>5
    <3>2. c.type # "RIGHTS"
      OBVIOUS
    <3> HIDE DEF c, r
    <3>3. msgs' = <<c, r>>
      BY <3>1, JoinedPair
    <3>4. DOMAIN msgs' = {1, 2} /\ msgs'[1] = c /\ msgs'[2] = r
      BY <3>3
    <3> QED BY <2>2, <2>5, <3>2, <3>4
  <2> QED BY <2>1, <2>3, <2>4, <2>5
<1>11. ASSUME m_unclaimed_fds', InHeader' = {} PROVE LastBrought(m_fds', table', arrived')
  <2>1. InHeader = {} /\ m_unclaimed_fds /\ m_fds \in Seq(Num)
    BY <1>1, <1>2, <1>11, HeaderHolds, HeaderNumbers DEF MessagesTyped
  <2>2. LastBrought(m_fds, table, arrived)
    BY <1>1, <2>1 DEF Offered
  <2>3. ASSUME NEW n \in Range(m_fds) PROVE table'[n] = table[n]
    <3>1. Unclaimed = m_fds
      BY <2>1 DEF Unclaimed
    <3>2. n \in Num /\ table[n] # NoFile
      BY <1>1, <3>1 DEF MessagesInv, OwnedByOne, Numbers
    <3> QED BY <1>3, <3>2
  <2>4. LastBrought(m_fds, table', arrived)
    BY <2>1, <2>2, <2>3, SameOffer
  <2>5. fds = <<>>
    <3>1. SUFFICES ASSUME fds # <<>> PROVE FALSE
      OBVIOUS
    <3>2. Range(fds) \subseteq InHeader'
      BY <1>10, <3>1 DEF InHeader
    <3>3. 1 \in DOMAIN fds
      BY <1>3, <3>1, LenProperties, EmptySeq
    <3> QED BY <1>11, <3>2, <3>3 DEF Range
  <2>6. list # <<>> => part = <<>>
    BY <1>3, <1>5, <2>5, EmptySeq
  <2> QED BY <1>2, <1>4, <2>4, <2>6, NothingBrought
<1>12. Offered'
  BY <1>9, <1>10, <1>11 DEF Offered
<1> QED BY <1>7, <1>8, <1>12, <1>13 DEF RightsInv

\* The header hands on what it has, and the object takes it.
LEMMA DeserializeKeepsRights ==
    ASSUME RightsInv, MessagesInv', Deserialize \/ DeserializeCredentials
    PROVE  RightsInv'
<1>1. MessagesInv /\ MessagesTyped /\ OwnedByOne /\ Offered
  BY DEF RightsInv, MessagesInv
<1>2. /\ msgs \in Headers /\ msgs # <<>> /\ msgs' = Tail(msgs)
      /\ UNCHANGED <<iovec, control_msg, handed, queue, arrived>>
  BY <1>1 DEF MessagesTyped, Deserialize, DeserializeCredentials, sender
<1>3. \A i \in DOMAIN msgs' : i + 1 \in DOMAIN msgs /\ msgs'[i] = msgs[i + 1]
  <2>1. \/ \E x : msgs = <<x>>
        \/ \E x, y : msgs = <<x, y>>
    BY <1>2 DEF Headers
  <2>2. ASSUME NEW x, msgs = <<x>> PROVE msgs' = <<>>
    BY <1>2, <2>2
  <2>3. ASSUME NEW x, NEW y, msgs = <<x, y>>
        PROVE  \A i \in DOMAIN msgs' : i + 1 \in DOMAIN msgs /\ msgs'[i] = msgs[i + 1]
    <3>1. msgs' = <<y>>
      BY <1>2, <2>3
    <3> QED BY <2>3, <3>1
  <2> QED BY <2>1, <2>2, <2>3
<1>4. CASE DeserializeCredentials
  <2>1. msgs[1].type = "CREDENTIALS" /\ UNCHANGED <<table, m_fds, m_unclaimed_fds>>
    BY <1>4 DEF DeserializeCredentials, rights
  <2>2. InHeader' = InHeader
    BY <1>2, <2>1, TailOfHeader, HeaderHolds
  <2>3. Offered'
    BY <1>1, <1>2, <1>3, <2>1, <2>2 DEF Offered
  <2> QED BY <1>2, <2>3, SameRights
<1>5. CASE Deserialize
  <2>1. /\ msgs[1].type = "RIGHTS" /\ table' = Closed(Unclaimed) /\ m_fds' = msgs[1].fds
    BY <1>5 DEF Deserialize
  <2>2. 1 \in DOMAIN msgs
    BY <1>2 DEF Headers
  <2>3. LastBrought(msgs[1].fds, table, arrived)
    BY <1>1, <2>1, <2>2 DEF Offered
  <2>4. msgs[1].fds \in Seq(Num) /\ Range(msgs[1].fds) \subseteq InHeader
    BY <1>1, <2>1, <2>2, OfferedInHeader
  <2>5. \A n \in Num : table'[n] = IF n \in Range(Unclaimed) THEN NoFile ELSE table[n]
    BY <1>1, <2>1, ClosedNumbers
  <2>6. ASSUME NEW n \in Range(msgs[1].fds) PROVE table'[n] = table[n]
    <3>1. n \in Num /\ n \notin Range(Unclaimed)
      BY <1>1, <2>4 DEF OwnedByOne, Numbers
    <3> QED BY <2>5, <3>1
  <2>7. LastBrought(m_fds', table', arrived')
    BY <1>2, <2>1, <2>3, <2>4, <2>6, SameOffer
  <2>8. \A i \in DOMAIN msgs' : msgs'[i].type # "RIGHTS"
    <3>1. \/ \E c \in CredentialsMessage : msgs = <<c>>
          \/ \E r \in RightsMessage : msgs = <<r>>
          \/ \E c \in CredentialsMessage, r \in RightsMessage : msgs = <<c, r>>
      BY <1>2 DEF Headers
    <3>2. msgs' = <<>>
      <4>1. \A c \in CredentialsMessage : c.type # "RIGHTS"
        BY DEF CredentialsMessage
      <4>2. \E r : msgs = <<r>>
        BY <2>1, <3>1, <4>1
      <4> QED BY <1>2, <4>2
    <3> QED BY <3>2
  <2>9. Offered'
    BY <2>7, <2>8 DEF Offered
  <2> QED BY <1>2, <2>9, SameRights
<1> QED BY <1>4, <1>5

\* The client takes or adds numbers, or the object closes what it has.
LEMMA ObjectKeepsRights ==
    ASSUME RightsInv, MessagesInv', TakeFDs \/ ClearFDs \/ \E n \in Num : AddFD(n)
    PROVE  RightsInv'
<1>1. MessagesInv /\ MessagesTyped /\ OwnedByOne /\ Offered
  BY DEF RightsInv, MessagesInv
<1>2. UNCHANGED <<iovec, control_msg, handed, queue, msgs, arrived>> /\ m_unclaimed_fds' = FALSE
  BY <1>1 DEF TakeFDs, ClearFDs, AddFD, sender, header, MessagesTyped
<1>3. \A n \in InHeader : table'[n] = table[n]
  <2>1. CASE table' = table
    BY <2>1
  <2>2. CASE table' = Closed(Unclaimed)
    <3>1. \A n \in Num : table'[n] = IF n \in Range(Unclaimed) THEN NoFile ELSE table[n]
      BY <1>1, <2>2, ClosedNumbers
    <3> QED BY <1>1, <3>1 DEF OwnedByOne, Numbers
  <2> QED BY <2>1, <2>2 DEF TakeFDs, ClearFDs, AddFD
<1>4. ASSUME NEW i \in DOMAIN msgs, msgs[i].type = "RIGHTS" PROVE LastBrought(msgs[i].fds, table', arrived)
  <2>1. LastBrought(msgs[i].fds, table, arrived)
    BY <1>1, <1>4 DEF Offered
  <2>2. msgs[i].fds \in Seq(Num) /\ Range(msgs[i].fds) \subseteq InHeader
    BY <1>1, <1>4, OfferedInHeader
  <2> QED BY <1>3, <2>1, <2>2, SameOffer
<1>5. Offered'
  BY <1>2, <1>4 DEF Offered
<1> QED BY <1>2, <1>5, SameRights

\* The receiver's own files are not those that were received.
LEMMA OwnKeepsRights ==
    ASSUME RightsInv, MessagesInv', OpenOwn \/ \E n \in Num : CloseOwn(n)
    PROVE  RightsInv'
<1>1. MessagesInv /\ MessagesTyped /\ OwnedByOne /\ Offered
  BY DEF RightsInv, MessagesInv
<1>2. UNCHANGED <<iovec, control_msg, handed, queue, msgs, arrived, m_fds, m_unclaimed_fds>>
  BY DEF OpenOwn, CloseOwn, sender, header, rights
<1>3. \A n \in InHeader \union Range(Unclaimed) : table'[n] = table[n]
  <2>1. CASE OpenOwn
    <3> DEFINE m == Fresh(1)[1]
    <3>1. m \in Free
      BY <2>1, OpenedIsFree
    <3>2. table' = [table EXCEPT ![m] = Own]
      BY <2>1 DEF OpenOwn
    <3> HIDE DEF m
    <3>3. m \notin Numbers
      BY <3>1 DEF Free, Numbers
    <3>4. \A n \in Num : n # m => table'[n] = table[n]
      BY <1>1, <3>2 DEF MessagesTyped
    <3> QED BY <1>1, <3>3, <3>4 DEF OwnedByOne, Numbers
  <2>2. ASSUME NEW m \in Num, CloseOwn(m) PROVE \A n \in InHeader \union Range(Unclaimed) : table'[n] = table[n]
    <3>1. m \in His /\ table' = [table EXCEPT ![m] = NoFile]
      BY <2>2 DEF CloseOwn, His
    <3>2. \A n \in Num : n # m => table'[n] = table[n]
      BY <1>1, <3>1 DEF MessagesTyped
    <3> QED BY <1>1, <3>1, <3>2 DEF OwnedByOne, Numbers
  <2> QED BY <2>1, <2>2
<1>4. Offered'
  BY <1>1, <1>2, <1>3, SameOffered
<1> QED BY <1>2, <1>4, SameRights

\* Every step keeps the invariant.
LEMMA NextRights == RightsInv /\ [Next]_vars => RightsInv'
<1> SUFFICES ASSUME RightsInv, [Next]_vars PROVE RightsInv'
  OBVIOUS
<1>1. MessagesInv /\ MessagesInv' /\ Offered
  BY NextMessagesInv DEF RightsInv
<1>2. CASE UNCHANGED <<iovec, control_msg, handed, queue, msgs, table, m_fds, m_unclaimed_fds, arrived>>
  <2>1. Offered'
    BY <1>1, <1>2, SameOffered
  <2> QED BY <1>1, <1>2, <2>1, SameRights
<1>3. CASE SenderStep
  BY <1>1, <1>3, SenderKeepsRights
<1>4. CASE ReceiveFails \/ \E extent \in BufferSizes \union {0} : SetControlBufferSize(extent)
  BY <1>2, <1>4 DEF ReceiveFails, SetControlBufferSize, sender, rights
<1>5. CASE ReceptionStep
  BY <1>1, <1>4, <1>5, ReceiveKeepsRights, DeserializeKeepsRights, ObjectKeepsRights, OwnKeepsRights
     DEF ReceptionStep
<1> QED BY <1>2, <1>3, <1>5 DEF Next, vars

\* What the property says of a state follows from the invariant.
LEMMA RightsInOrder == RightsInv => ArrivesInOrder
<1> SUFFICES ASSUME RightsInv PROVE ArrivesInOrder
  OBVIOUS
<1>1. MessagesTyped /\ InOrder(queue, Sent, arrived) /\ CutOff(Sent, arrived) /\ Offered
  BY DEF RightsInv, MessagesInv
<1>2. /\ DOMAIN queue = 1 .. Len(queue) /\ DOMAIN arrived = 1 .. Len(arrived)
      /\ m_fds \in Seq(Num) /\ DOMAIN m_fds = 1 .. Len(m_fds)
      /\ \A k \in 1 .. Len(arrived) : arrived[k] \in Lists
  BY <1>1, LenProperties, ElementOfSeq DEF MessagesTyped
<1>3. \A i : CarryingUpTo(i) = Carry(queue, i)
  BY <1>2 DEF CarryingUpTo, Carry
<1>4. /\ Len(arrived) + Cardinality(CarryingUpTo(Len(queue))) = Len(Sent)
      /\ \A i \in CarryingUpTo(Len(queue)) : queue[i].files = Sent[Len(arrived) + Cardinality(CarryingUpTo(i))]
  BY <1>1, <1>3 DEF InOrder
<1>5. ASSUME m_unclaimed_fds, InHeader = {}
      PROVE  \E k \in DOMAIN arrived :
                /\ [i \in DOMAIN m_fds |-> table[m_fds[i]]] = arrived[k]
                /\ arrived[k] # <<>> /\ \A l \in DOMAIN arrived : l > k => arrived[l] = <<>>
  <2>1. PICK k \in 1 .. Len(arrived) :
          /\ arrived[k] # <<>> /\ Len(m_fds) = Len(arrived[k])
          /\ \A i \in 1 .. Len(m_fds) : table[m_fds[i]] = arrived[k][i]
          /\ \A l \in 1 .. Len(arrived) : l > k => arrived[l] = <<>>
    BY <1>1, <1>5 DEF Offered, LastBrought
  <2>2. arrived[k] = [i \in 1 .. Len(m_fds) |-> arrived[k][i]]
    <3>1. arrived[k] \in Seq(File)
      BY <1>2, ListsCutOff
    <3> QED BY <2>1, <3>1, LenProperties
  <2>3. [i \in DOMAIN m_fds |-> table[m_fds[i]]] = arrived[k]
    BY <1>2, <2>1, <2>2
  <2> QED BY <1>2, <2>1, <2>3
<1> QED BY <1>1, <1>2, <1>4, <1>5 DEF ArrivesInOrder, CutOff

\* What it says of a step.
LEMMA RightsHaveRoom ==
    ASSUME RightsInv, [Next]_vars
    PROVE  RoomIsEnough
<1> SUFFICES ASSUME m_control_buffer > 0, arrived' # arrived
             PROVE  \/ Last(arrived') = Sent[Len(arrived')]
                    \/ RoomAfter(m_control_buffer) - Header < Len(Sent[Len(arrived')])
                    \/ \A n \in Num : table'[n] # NoFile
  BY DEF RoomIsEnough
<1>1. MessagesInv /\ MessagesTyped /\ LastWaits /\ InOrder(queue, Sent, arrived)
  BY DEF RightsInv, MessagesInv
<1>2. PICK bytes \in 1 .. MaxPayload : ReceiveMessage(bytes)
  BY Zenon DEF Next, vars, SenderStep, ReceptionStep, Prepare, SendMessage, SetControlBufferSize, ReceiveFails,
         Deserialize, DeserializeCredentials, TakeFDs, ClearFDs, AddFD, CloseOwn, OpenOwn
<1> DEFINE list == queue[1].files
           fds == WhatFits(list)
           part == SubSeq(list, 1, Len(fds))
<1>3. list # <<>> /\ arrived' = Append(arrived, part)
  BY Zenon, <1>2 DEF ReceiveMessage, WhatFits
<1>4. /\ queue \in Seq(Piece) /\ queue # <<>> /\ list \in Seq(File) /\ Len(list) \in Nat /\ part \in Lists
      /\ Len(fds) = Len(list) \/ RoomAfter(Room) - Header < Len(list) \/ \A n \in Num : table'[n] # NoFile
  <2>1. Len(list) \in Nat
    BY <1>1, <1>2, ReceivedFiles
  <2> QED BY <1>1, <1>2, <2>1, ReceivedFiles
<1>5. Sent \in Seq(Lists) /\ arrived \in Seq(Lists)
  BY <1>1, SentTyped DEF MessagesTyped
<1>6. Len(arrived') = Len(arrived) + 1 /\ arrived'[Len(arrived) + 1] = part
  BY <1>3, <1>4, <1>5, AppendProperties
<1>7. list = Sent[Len(arrived) + 1]
  BY <1>1, <1>3, <1>4, <1>5, TakeInOrder
<1>8. Len(fds) = Len(list) => part = list
  BY <1>4, SubSeqFull
<1>9. Room = m_control_buffer
  BY DEF Room
<1> HIDE DEF list, fds, part
<1> QED BY <1>4, <1>6, <1>7, <1>8, <1>9 DEF Last

\* Lists of files arrive once and in order, whole or cut off at their end, and
\* are cut off only for want of room or of numbers: however the payload is
\* split, retried and read, and however header and UnixRightsMessage are reused.
THEOREM FilesArriveOnce == Spec => RightsArriveOnce
<1>1. RightsInv /\ RightsInv' /\ [Next]_vars => [ArrivesInOrder' /\ RoomIsEnough]_vars
  BY RightsInOrder, RightsHaveRoom, PTL
<1> QED BY <1>1, InitRights, NextRights, PTL DEF Spec, RightsArriveOnce

-----------------------------------------------------------------------------
(* Files: where a path leads *)

\* A set of numbers that is not empty has a least one: what the proofs by
\* induction about steps that the kernel repeats rest on.
LEMMA LeastNatural ==
    ASSUME NEW T, T \subseteq Nat, T # {}
    PROVE  \E m \in T : \A k \in T : m <= k
<1> DEFINE R == OpToRel(<, Nat)
<1>1. IsWellFoundedOn(R, Nat)
  BY NatLessThanWellFounded
<1>2. \A x, y \in Nat : <<x, y>> \in R <=> x < y
  BY DEF OpToRel
<1> HIDE DEF R
<1>3. PICK m \in T : \A k \in T : ~(<<k, m>> \in R)
  BY <1>1, WFMin
<1>4. ASSUME NEW k \in T PROVE m <= k
  <2>1. m \in Nat /\ k \in Nat
    OBVIOUS
  <2>2. ~(k < m)
    BY <1>2, <1>3, <2>1
  <2> QED BY <2>1, <2>2
<1> QED BY <1>3, <1>4

\* A set of numbers that contains 0 and with a number below N the next one
\* contains all numbers up to N.
LEMMA StepByStep ==
    ASSUME NEW N \in Nat, NEW S, 0 \in S, \A k \in 1 .. N : k - 1 \in S => k \in S
    PROVE  0 .. N \subseteq S
<1> SUFFICES ASSUME NEW j \in 0 .. N, j \notin S PROVE FALSE
  OBVIOUS
<1> DEFINE T == {k \in 0 .. N : k \notin S}
<1>1. T \subseteq Nat /\ T # {}
  OBVIOUS
<1>2. PICK m \in T : \A k \in T : m <= k
  BY <1>1, LeastNatural
<1>3. m \in 1 .. N /\ m - 1 \in 0 .. N
  BY <1>2
<1>4. m - 1 \in S
  BY <1>2, <1>3
<1> QED BY <1>2, <1>3, <1>4

\* N steps from a first value, each of them computed by a function.
Steps(f, N, first, next) == f[0] = first /\ \A k \in 1 .. N : f[k] = next[<<k, f[k - 1]>>]

\* What following symbolic links computes exists: a function on the number of
\* links, from a first value and a function that takes one step.
LEMMA ChainExists ==
    ASSUME NEW N \in Nat, NEW V, NEW first \in V, NEW next \in [(1 .. N) \X V -> V]
    PROVE  \E f \in [0 .. N -> V] : Steps(f, N, first, next)
<1> DEFINE Good(n, f) == f \in [0 .. n -> V] /\ f[0] = first /\ \A k \in 1 .. n : f[k] = next[<<k, f[k - 1]>>]
           S == {n \in 0 .. N : \E f : Good(n, f)}
<1>1. 0 \in S
  <2>1. Good(0, [k \in 0 .. 0 |-> first])
    OBVIOUS
  <2> HIDE DEF Good
  <2> QED BY <2>1
<1>2. ASSUME NEW n \in 1 .. N, n - 1 \in S PROVE n \in S
  <2>1. PICK f : Good(n - 1, f)
    BY <1>2
  <2> DEFINE g == [k \in 0 .. n |-> IF k = n THEN next[<<n, f[n - 1]>>] ELSE f[k]]
  <2>2. n - 1 \in 0 .. (n - 1) /\ \A k \in 0 .. n : k # n => k \in 0 .. (n - 1)
    OBVIOUS
  <2>3. g \in [0 .. n -> V] /\ g[0] = first
    BY <2>1, <2>2
  <2>4. ASSUME NEW k \in 1 .. n PROVE g[k] = next[<<k, g[k - 1]>>]
    <3>1. CASE k = n
      <4>1. k - 1 \in 0 .. n /\ k - 1 # n
        BY <3>1
      <4> QED BY <3>1, <4>1
    <3>2. CASE k # n
      <4>1. k \in 1 .. (n - 1) /\ k - 1 \in 0 .. n /\ k - 1 # n /\ k \in 0 .. n
        BY <3>2
      <4>2. g[k] = f[k] /\ g[k - 1] = f[k - 1]
        BY Zenon, <3>2, <4>1
      <4> QED BY <2>1, <4>1, <4>2
    <3> QED BY <3>1, <3>2
  <2>5. Good(n, g)
    BY Zenon, <2>3, <2>4
  <2> HIDE DEF g, Good
  <2> QED BY <2>5
<1> HIDE DEF S
<1>3. N \in S
  BY <1>1, <1>2, StepByStep
<1> QED BY <1>3 DEF S, Steps

-----------------------------------------------------------------------------
(* Files: the inductive invariant *)

FileRecord == [type : FileT, owner : UserID, mode : SUBSET FileModeBit,
               text : FilePath, data : Seq(Nat)]

\* The paths name inodes that are in use.
TreeTyped ==
    /\ InUse \subseteq FileNode /\ nodes \in [InUse -> FileRecord]
    /\ entries \in [FilePath -> InUse \union {NoNode}]

\* So do the open files: an inode stays as long as it is open.
OpenFilesStay ==
    /\ files \in Seq([node : FileNode, off : Nat])
    /\ \A k \in DOMAIN files : files[k].node \in InUse

OneFile == Len(files) = 1

TwoFiles == Len(files) = 2 /\ files[1].node # files[2].node

CallTyped ==
    /\ room \in Nat
    /\ calling.paths \in Seq(FilePath) /\ calling.all \in Seq(FilePath)
    /\ calling = [op |-> calling.op, at |-> calling.at, paths |-> calling.paths, all |-> calling.all]

\* Where a call is, and what it works with.
CallFits ==
    \/ calling.op = "none" /\ calling = Idle /\ files = <<>>
    \/ calling.op = "read_symlink" /\ calling.at \in {"read_symlink", "end"}
         /\ Len(calling.paths) = 1
    \/ calling.op = "get_working_dir" /\ calling.at \in {"get_working_dir", "end"}
    \/ calling.op = "which" /\ calling.at \in {"candidates", "end"}
    \/ calling.op = "which" /\ calling.at = "candidate" /\ calling.paths # <<>> /\ OneFile
    \/ calling.op = "compare" /\ calling.at \in {"open", "end"} /\ Len(calling.paths) = 2
    \/ calling.op = "compare" /\ calling.at \in {"status", "compare"}
         /\ Len(calling.paths) = 2 /\ OneFile
    \/ calling.op = "copy" /\ calling.at \in {"start copy", "end"} /\ Len(calling.paths) = 2
    \/ calling.op = "copy" /\ calling.at = "copy" /\ Len(calling.paths) = 2 /\ TwoFiles

\* What the call has found out, and what of it was noted as true: which() has
\* passed over the paths that it does not try any more, and the file that it
\* has opened was the one that the path led to.
FindingsAreTrue ==
    /\ Truths \subseteq seen
    /\ calling.op = "which" =>
         /\ Len(calling.paths) <= Len(calling.all)
         /\ \A k \in 1 .. Len(calling.paths) :
              calling.paths[k] = calling.all[Len(calling.all) - Len(calling.paths) + k]
         /\ \A k \in 1 .. Len(calling.all) - Len(calling.paths) : PassedOver(calling.all[k])
    /\ calling.at = "candidate" => <<"leads", calling.paths[1], files[1].node>> \in seen
    /\ calling.at = "compare" =>
         <<statuses[1].device, statuses[1].inode>> = files[1].node

\* What the two files hold when so many bytes of the source are copied: others
\* only cut them and fill them up with zeroes.
CopiedSoFar(source, in, out, copied) ==
    /\ \A k \in 1 .. Len(source) : k <= Len(in) => in[k] \in {source[k], 0}
    /\ \A k \in 1 .. copied : k <= Len(out) => out[k] \in {source[k], 0}

\* How far the copy is: the offsets say it, and the parameters say what is left.
CopyAdvances ==
    /\ calling.op \in {"none", "copy"} =>
         pars = [len |-> pars.len, off_in |-> pars.off_in, off_out |-> pars.off_out,
                 copied |-> pars.copied]
    /\ calling.op = "none" => statuses = <<>> /\ pars.copied = 0 /\ reply = "none"
    /\ calling.op = "copy" =>
         /\ pars.copied \in Nat
         /\ calling.at = "start copy" => statuses = <<>> /\ pars.copied = 0 /\ reply = "none"
         /\ statuses # <<>> =>
              /\ statuses[1].node.data \in Seq(Nat)
              /\ pars.len \in Nat
              /\ pars.copied + pars.len = Len(statuses[1].node.data)
         /\ calling.at = "copy" =>
              /\ statuses # <<>> /\ reply = "none"
              /\ pars.off_in \in {<<>>, <<pars.copied>>} /\ pars.off_out \in {<<>>, <<pars.copied>>}
              /\ Offset(files[1], pars.off_in) = pars.copied
              /\ Offset(files[2], pars.off_out) = pars.copied
              /\ CopiedSoFar(statuses[1].node.data, nodes[files[1].node].data,
                             nodes[files[2].node].data, pars.copied)
         /\ reply = "copied" => pars.len = 0 \/ \E k \in seen : k <= pars.copied

FilesInv ==
    /\ TreeTyped /\ OpenFilesStay /\ CallTyped /\ CallFits
    /\ FindingsAreTrue /\ CopyAdvances
    /\ AnswersWereTrue

-----------------------------------------------------------------------------
(* Files: links, and what others do *)

\* Following a path ends at an inode that is in use, or nowhere (any function
\* that takes a path and follows links).
LEMMA LeadsSomewhere ==
    ASSUME TreeTyped, NEW p \in FilePath
    PROVE  leads(p) \in InUse \union {NoNode}
<1> DEFINE N == Cardinality(FilePath)
           V == InUse \union {NoNode}
           next == [q \in (1 .. N) \X V |-> IF isLink(q[2]) THEN entries[nodes[q[2]].text] ELSE q[2]]
           Follows(f) == f = [k \in 0 .. N |-> IF k = 0 THEN entries[p]
                                 ELSE IF isLink(f[k - 1]) THEN entries[nodes[f[k - 1]].text]
                                 ELSE f[k - 1]]
           follow == CHOOSE f : Follows(f)
<1>1. N \in Nat
  BY FilesAssumption, FS_CardinalityType
<1>2. next \in [(1 .. N) \X V -> V] /\ entries[p] \in V
  <2>1. ASSUME NEW n \in V, isLink(n) PROVE nodes[n].text \in FilePath
    BY <2>1 DEF TreeTyped, isLink, Exists, FileRecord
  <2>2. ASSUME NEW n \in V PROVE (IF isLink(n) THEN entries[nodes[n].text] ELSE n) \in V
    BY <2>1, <2>2 DEF TreeTyped
  <2> HIDE DEF V, N
  <2>3. next \in [(1 .. N) \X V -> V]
    BY <2>2
  <2>4. entries[p] \in V
    BY DEF TreeTyped, V
  <2> QED BY <2>3, <2>4
<1>3. \E f : Follows(f)
  <2>1. PICK f \in [0 .. N -> V] : Steps(f, N, entries[p], next)
    BY <1>1, <1>2, ChainExists
  <2>2. ASSUME NEW k \in 1 .. N PROVE k - 1 \in 0 .. N /\ f[k - 1] \in V
    BY <1>1, <2>1, <2>2
  <2>3. ASSUME NEW k \in 1 .. N
        PROVE  f[k] = IF isLink(f[k - 1]) THEN entries[nodes[f[k - 1]].text] ELSE f[k - 1]
    <3>1. f[k] = next[<<k, f[k - 1]>>]
      <4> HIDE DEF next, V, N
      <4> QED BY <2>1 DEF Steps
    <3>2. <<k, f[k - 1]>> \in (1 .. N) \X V
      BY <2>2
    <3> HIDE DEF V, N
    <3> QED BY <3>1, <3>2
  <2>4. \A k \in 0 .. N : k # 0 => k \in 1 .. N
    BY <1>1
  <2> HIDE DEF N, V, next
  <2>5. Follows(f)
    BY <2>1, <2>3, <2>4 DEF Steps
  <2> HIDE DEF Follows
  <2> QED BY <2>5
<1>4. Follows(follow)
  <2> HIDE DEF Follows
  <2> QED BY <1>3
<1>5. leads(p) = IF isLink(follow[N]) THEN NoNode ELSE follow[N]
  BY DEF leads
<1> HIDE DEF follow, N, V
<1>6. 0 .. N \subseteq {k \in 0 .. N : follow[k] \in V}
  <2> DEFINE S == {k \in 0 .. N : follow[k] \in V}
  <2>1. 0 \in S
    BY <1>1, <1>2, <1>4
  <2>2. ASSUME NEW k \in 1 .. N, k - 1 \in S PROVE k \in S
    <3>1. k \in 0 .. N /\ k # 0 /\ follow[k - 1] \in V
      BY SMTT(60), <1>1, <2>2
    <3>2. follow[k] = next[<<k, follow[k - 1]>>] /\ <<k, follow[k - 1]>> \in (1 .. N) \X V
      BY <1>4, <3>1
    <3> HIDE DEF next
    <3> QED BY <1>2, <3>1, <3>2
  <2> QED BY <1>1, <2>1, <2>2, StepByStep
<1>7. N \in 0 .. N
  BY <1>1
<1> QED BY <1>5, <1>6, <1>7 DEF V

\* What a file of one state still contains of it in the next: others cut it
\* and fill it up with zeroes (truncate()).
DataKept ==
    \A n \in InUse : n \in InUse' =>
        \A k \in 1 .. Len(nodes'[n].data) :
            \/ nodes'[n].data[k] = 0
            \/ k <= Len(nodes[n].data) /\ nodes'[n].data[k] = nodes[n].data[k]

\* The tables are well-formed in the next state, too.
TablesStay == TreeTyped' /\ OpenFilesStay' /\ DataKept

\* A call that changes one inode (change_mode(), change_owner(), truncate()).
LEMMA RewritesKeeps ==
    ASSUME TreeTyped, OpenFilesStay, files' = files, NEW n \in InUse, NEW node \in FileRecord,
           \A k \in 1 .. Len(node.data) :
               \/ node.data[k] = 0
               \/ k <= Len(nodes[n].data) /\ node.data[k] = nodes[n].data[k],
           nodes' = [nodes EXCEPT ![n] = node], entries' = entries
    PROVE  TablesStay
<1>1. nodes' = [nodes EXCEPT ![n] = node] /\ entries' = entries
  OBVIOUS
<1>2. InUse' = InUse
  BY <1>1 DEF InUse, TreeTyped
<1>3. TreeTyped'
  BY <1>1, <1>2 DEF TreeTyped, InUse
<1>4. OpenFilesStay'
  BY <1>2 DEF OpenFilesStay
<1>5. DataKept
  <2> SUFFICES ASSUME NEW m \in InUse, NEW k \in 1 .. Len(nodes'[m].data)
               PROVE  \/ nodes'[m].data[k] = 0
                      \/ k <= Len(nodes[m].data) /\ nodes'[m].data[k] = nodes[m].data[k]
    BY DEF DataKept
  <2>1. CASE m = n
    BY <1>1, <2>1 DEF TreeTyped
  <2>2. CASE m # n
    <3>1. nodes'[m] = nodes[m]
      BY <1>1, <2>2 DEF TreeTyped
    <3>2. Len(nodes[m].data) \in Nat
      BY DEF TreeTyped, FileRecord
    <3> QED BY <3>1, <3>2
  <2> QED BY <2>1, <2>2
<1> QED BY <1>3, <1>4, <1>5 DEF TablesStay

\* A call that gives paths new names (unlink_file(), linkat(), rename_at()).
LEMMA RenamesKeeps ==
    ASSUME TreeTyped, OpenFilesStay, files' = files,
           NEW new \in [FilePath -> InUse \union {NoNode}],
           entries' = new, nodes' = Collected(nodes, new)
    PROVE  TablesStay
<1> DEFINE kept == {m \in DOMAIN nodes : \/ \E p \in FilePath : new[p] = m
                                         \/ m = cwd \/ \E f \in DOMAIN files : files[f].node = m}
<1>1. nodes' = [n \in kept |-> nodes[n]] /\ entries' = new
  BY DEF Collected
<1>2. InUse' = kept /\ kept \subseteq InUse
  BY <1>1 DEF InUse
<1>3. \A p \in FilePath : new[p] \in kept \union {NoNode}
  BY DEF InUse
<1>4. \A f \in DOMAIN files : files[f].node \in kept
  BY DEF OpenFilesStay, InUse
<1> HIDE DEF kept
<1>5. TreeTyped'
  <2>1. nodes' \in [kept -> FileRecord]
    BY <1>1, <1>2 DEF TreeTyped
  <2>2. entries' \in [FilePath -> kept \union {NoNode}]
    BY <1>1, <1>3
  <2> QED BY <1>2, <2>1, <2>2 DEF TreeTyped
<1>6. OpenFilesStay'
  BY <1>2, <1>4 DEF OpenFilesStay
<1>7. DataKept
  <2> SUFFICES ASSUME NEW m \in InUse, m \in InUse', NEW k \in 1 .. Len(nodes'[m].data)
               PROVE  \/ nodes'[m].data[k] = 0
                      \/ k <= Len(nodes[m].data) /\ nodes'[m].data[k] = nodes[m].data[k]
    BY DEF DataKept
  <2>1. nodes'[m] = nodes[m]
    BY <1>1, <1>2
  <2>2. Len(nodes[m].data) \in Nat
    BY DEF TreeTyped, FileRecord
  <2> QED BY <2>1, <2>2
<1> QED BY <1>5, <1>6, <1>7 DEF TablesStay

\* A call that creates an inode (open(), make_dir(), make_fifo(),
\* make_symlink(), make_tempfile()).
LEMMA CreatesKeeps ==
    ASSUME TreeTyped, OpenFilesStay, files' = files, NEW p \in FilePath,
           NEW node \in FileRecord, NEW n \in FileNode \ InUse,
           entries' = [entries EXCEPT ![p] = n],
           nodes' = [m \in InUse \union {n} |-> IF m = n THEN node ELSE nodes[m]]
    PROVE  TablesStay
<1>1. /\ entries' = [entries EXCEPT ![p] = n]
      /\ nodes' = [m \in InUse \union {n} |-> IF m = n THEN node ELSE nodes[m]]
  OBVIOUS
<1>2. InUse' = InUse \union {n}
  BY <1>1 DEF InUse
<1>3. TreeTyped'
  <2>1. nodes' \in [InUse \union {n} -> FileRecord]
    BY <1>1 DEF TreeTyped
  <2>2. entries' \in [FilePath -> (InUse \union {n}) \union {NoNode}]
    BY <1>1 DEF TreeTyped
  <2>3. InUse \union {n} \subseteq FileNode
    BY DEF TreeTyped
  <2> QED BY <1>2, <2>1, <2>2, <2>3 DEF TreeTyped
<1>4. OpenFilesStay'
  BY <1>2 DEF OpenFilesStay
<1>5. DataKept
  <2> SUFFICES ASSUME NEW m \in InUse, NEW k \in 1 .. Len(nodes'[m].data)
               PROVE  \/ nodes'[m].data[k] = 0
                      \/ k <= Len(nodes[m].data) /\ nodes'[m].data[k] = nodes[m].data[k]
    BY DEF DataKept
  <2>1. nodes'[m] = nodes[m]
    BY <1>1
  <2>2. Len(nodes[m].data) \in Nat
    BY DEF TreeTyped, FileRecord
  <2> QED BY <2>1, <2>2
<1> QED BY <1>3, <1>4, <1>5 DEF TablesStay

\* Nothing changes in the tables (change_dir(), set_umask()).
LEMMA UnchangedKeeps ==
    ASSUME TreeTyped, OpenFilesStay, entries' = entries, nodes' = nodes, files' = files
    PROVE  TablesStay
<1>1. InUse' = InUse
  BY DEF InUse
<1>2. TreeTyped' /\ OpenFilesStay'
  BY <1>1 DEF TreeTyped, OpenFilesStay
<1>3. \A n \in InUse : Len(nodes[n].data) \in Nat
  BY DEF TreeTyped, FileRecord
<1> QED BY <1>2, <1>3 DEF TablesStay, DataKept

\* Whatever one call of another thread or process does, the tables stay
\* well-formed, open files stay, and files are only cut or filled up.
LEMMA OthersKeep ==
    ASSUME TreeTyped, OpenFilesStay, OthersStep
    PROVE  TablesStay /\ UNCHANGED <<calling, room, files, statuses, pars, reply>>
<1>1. UNCHANGED <<calling, room, files, statuses, pars, reply>>
  BY DEF OthersStep, Interferes
<1> SUFFICES TablesStay
  BY <1>1
<1>2. files' = files
  BY <1>1
<1>3. PICK p \in FilePath :
         \/ \E mode \in FileModes :
              \/ \E type \in {"REGULAR", "DIRECTORY"} : OpensNew(p, type, mode)
              \/ make_fifo(p, mode) \/ change_mode(p, mode)
         \/ make_tempfile(p) \/ unlink_file(p) \/ change_dir(p)
         \/ \E user \in UserName, follow \in BOOLEAN : change_owner(p, user, follow)
         \/ \E q \in FilePath :
              \/ make_symlink(q, p)
              \/ \E follow \in BOOLEAN : linkat(p, q, follow)
              \/ \E flags \in RenameFlags : rename_at(p, q, flags)
         \/ \E n \in 0..3 : truncate(p, n)
         \/ \E mode \in FileModes : set_umask(mode)
  BY DEF OthersStep
<1>4. ASSUME NEW type \in FileT, NEW mode \in SUBSET FileModeBit, NEW text \in FilePath
      PROVE  NewNode(type, mode, text, <<>>) \in FileRecord
  <2>1. <<>> \in Seq(Nat)
    BY EmptySeq
  <2> QED BY <2>1 DEF NewNode, FileRecord, UserID
<1>5. ASSUME NEW q \in FilePath PROVE leads(q) \in InUse \union {NoNode} /\ entries[q] \in InUse \union {NoNode}
  BY LeadsSomewhere DEF TreeTyped
<1>6. \A n \in InUse : nodes[n] \in FileRecord /\ Len(nodes[n].data) \in Nat
  BY DEF TreeTyped, FileRecord
<1>7. ASSUME NEW node \in FileRecord, Creates(p, node)
      PROVE  TablesStay
  <2>1. PICK n \in FileNode \ InUse :
           /\ entries' = [entries EXCEPT ![p] = n]
           /\ nodes' = [m \in InUse \union {n} |-> IF m = n THEN node ELSE nodes[m]]
    BY <1>7 DEF Creates
  <2> QED BY <1>2, <2>1, CreatesKeeps
<1>8. ASSUME NEW mode \in FileModes PROVE mode \in SUBSET FileModeBit
  BY FilesAssumption
<1>9. CASE \E mode \in FileModes : \E type \in {"REGULAR", "DIRECTORY"} : OpensNew(p, type, mode)
  <2>1. PICK mode \in FileModes, type \in {"REGULAR", "DIRECTORY"} :
           Creates(p, NewNode(type, mode \ umask, p, <<>>))
    BY <1>9 DEF OpensNew
  <2>2. NewNode(type, mode \ umask, p, <<>>) \in FileRecord
    BY <1>4, <1>8 DEF FileT
  <2> QED BY <1>7, <2>1, <2>2
<1>10. CASE \E mode \in FileModes : make_fifo(p, mode)
  <2>1. PICK mode \in FileModes : Creates(p, NewNode("FIFO", mode \ umask, p, <<>>))
    BY <1>10 DEF make_fifo, OpensNew
  <2>2. NewNode("FIFO", mode \ umask, p, <<>>) \in FileRecord
    BY <1>4, <1>8 DEF FileT
  <2> QED BY <1>7, <2>1, <2>2
<1>11. CASE \E mode \in FileModes : change_mode(p, mode)
  <2>1. PICK mode \in FileModes : change_mode(p, mode)
    BY <1>11
  <2>2. leads(p) \in InUse /\ Rewrites(leads(p), [nodes[leads(p)] EXCEPT !.mode = mode])
    BY <1>5, <2>1 DEF change_mode, Exists
  <2> DEFINE node == [nodes[leads(p)] EXCEPT !.mode = mode]
  <2>3. node \in FileRecord /\ node.data = nodes[leads(p)].data
    BY SMTT(30), <1>6, <1>8, <2>2 DEF FileRecord
  <2>4. \A k \in 1 .. Len(node.data) : k <= Len(nodes[leads(p)].data)
    BY <1>6, <2>2, <2>3
  <2>5. \A k \in 1 .. Len(node.data) :
            \/ node.data[k] = 0
            \/ k <= Len(nodes[leads(p)].data) /\ node.data[k] = nodes[leads(p)].data[k]
    BY <2>3, <2>4
  <2>6. nodes' = [nodes EXCEPT ![leads(p)] = node] /\ entries' = entries
    BY <2>2 DEF Rewrites
  <2> HIDE DEF node
  <2> QED BY <1>2, <2>2, <2>3, <2>5, <2>6, RewritesKeeps
<1>12. CASE make_tempfile(p)
  <2>1. {"OWNER_READ"} \in SUBSET FileModeBit /\ "REGULAR" \in FileT
    BY DEF FileModeBit, FileT
  <2>2. NewNode("REGULAR", {"OWNER_READ"} \ umask, p, <<>>) \in FileRecord
    BY <1>4, <2>1
  <2>3. Creates(p, NewNode("REGULAR", {"OWNER_READ"} \ umask, p, <<>>))
    BY <1>12 DEF make_tempfile, OpensNew
  <2> QED BY <1>7, <2>2, <2>3
<1>13. CASE unlink_file(p)
  <2>1. [entries EXCEPT ![p] = NoNode] \in [FilePath -> InUse \union {NoNode}]
    BY DEF TreeTyped
  <2> QED BY <1>2, <1>13, <2>1, RenamesKeeps DEF unlink_file, Renames
<1>14. CASE change_dir(p)
  BY <1>2, <1>14, UnchangedKeeps DEF change_dir
<1>15. CASE \E user \in UserName, follow \in BOOLEAN : change_owner(p, user, follow)
  <2>1. PICK user \in UserName, follow \in BOOLEAN : change_owner(p, user, follow)
    BY <1>15
  <2> DEFINE n == Target(p, follow)
  <2>2. n \in InUse
    BY <1>5, <2>1 DEF change_owner, Target, Exists
  <2>3. PICK uid \in resolve_user(user) \ {"INVALID"} : Rewrites(n, [nodes[n] EXCEPT !.owner = uid])
    BY <2>1 DEF change_owner
  <2>4. uid \in UserID
    BY <2>3 DEF resolve_user, UserName, UserID
  <2> DEFINE node == [nodes[n] EXCEPT !.owner = uid]
  <2> HIDE DEF n
  <2>5. node \in FileRecord /\ node.data = nodes[n].data
    BY <1>6, <2>2, <2>4 DEF FileRecord
  <2>6. \A k \in 1 .. Len(node.data) : k <= Len(nodes[n].data)
    BY <1>6, <2>2, <2>5
  <2>7. \A k \in 1 .. Len(node.data) :
            \/ node.data[k] = 0
            \/ k <= Len(nodes[n].data) /\ node.data[k] = nodes[n].data[k]
    BY <2>5, <2>6
  <2>8. nodes' = [nodes EXCEPT ![n] = node] /\ entries' = entries
    BY <2>3 DEF Rewrites
  <2> HIDE DEF node
  <2> QED BY <1>2, <2>2, <2>5, <2>7, <2>8, RewritesKeeps
<1>16. CASE \E q \in FilePath : make_symlink(q, p)
  <2>1. PICK q \in FilePath : make_symlink(q, p)
    BY <1>16
  <2>2. NewNode("LINK", {}, q, <<>>) \in FileRecord
    BY <1>4 DEF FileT
  <2>3. Creates(p, NewNode("LINK", {}, q, <<>>))
    BY <2>1 DEF make_symlink
  <2> QED BY <1>7, <2>2, <2>3
<1>17. CASE \E q \in FilePath, follow \in BOOLEAN : linkat(p, q, follow)
  <2>1. PICK q \in FilePath, follow \in BOOLEAN : linkat(p, q, follow)
    BY <1>17
  <2>2. Target(p, follow) \in InUse \union {NoNode}
    BY <1>5 DEF Target
  <2>3. [entries EXCEPT ![q] = Target(p, follow)] \in [FilePath -> InUse \union {NoNode}]
    BY <2>2 DEF TreeTyped
  <2> QED BY <1>2, <2>1, <2>3, RenamesKeeps DEF linkat, Renames
<1>18. CASE \E q \in FilePath, flags \in RenameFlags : rename_at(p, q, flags)
  <2>1. PICK q \in FilePath, flags \in RenameFlags : rename_at(p, q, flags)
    BY <1>18
  <2> DEFINE new == [entries EXCEPT ![q] = entries[p],
                                    ![p] = IF flags = {"EXCHANGE"} THEN entries[q] ELSE NoNode]
  <2>2. new \in [FilePath -> InUse \union {NoNode}]
    BY DEF TreeTyped
  <2>3. entries' = new /\ nodes' = Collected(nodes, new)
    BY <2>1 DEF rename_at, Renames
  <2> HIDE DEF new
  <2> QED BY <1>2, <2>2, <2>3, RenamesKeeps
<1>19. CASE \E n \in 0..3 : truncate(p, n)
  <2>1. PICK n \in 0..3 : truncate(p, n)
    BY <1>19
  <2> DEFINE i == leads(p)
             was == nodes[i].data
             node == [nodes[i] EXCEPT !.data = Resized(was, n)]
  <2>2. i \in InUse /\ Rewrites(i, node)
    BY <1>5, <1>6, <2>1 DEF truncate, Exists, FileRecord
  <2>10. nodes' = [nodes EXCEPT ![i] = node] /\ entries' = entries
    BY <2>2 DEF Rewrites
  <2> HIDE DEF i
  <2>3. nodes[i] \in FileRecord /\ was \in Seq(Nat) /\ Len(was) \in Nat
    BY <1>6, <2>2 DEF FileRecord
  <2>4. \A k \in 1 .. Len(was) : was[k] \in Nat
    BY <2>3
  <2>5. Resized(was, n) \in [1 .. n -> Nat] /\ n \in Nat
    BY <2>3, <2>4 DEF Resized
  <2>6. Resized(was, n) \in Seq(Nat) /\ Len(Resized(was, n)) = n
    BY <2>5
  <2>7. \A k \in 1 .. n : Resized(was, n)[k] = IF k <= Len(was) THEN was[k] ELSE 0
    BY DEF Resized
  <2>8. node \in FileRecord /\ node.data = Resized(was, n)
    BY <2>3, <2>6 DEF FileRecord
  <2>9. \A k \in 1 .. Len(node.data) :
            \/ node.data[k] = 0
            \/ k <= Len(was) /\ node.data[k] = was[k]
    BY <2>6, <2>7, <2>8
  <2> HIDE DEF node
  <2> QED BY <1>2, <2>2, <2>8, <2>9, <2>10, RewritesKeeps
<1>20. CASE \E mode \in FileModes : set_umask(mode)
  BY <1>2, <1>20, UnchangedKeeps DEF set_umask
<1> QED
  BY <1>3, <1>9, <1>10, <1>11, <1>12, <1>13, <1>14, <1>15, <1>16, <1>17, <1>18, <1>19, <1>20

-----------------------------------------------------------------------------
(* Files: steps that keep the call going, and replies *)

\* What was noted stays noted, and what is true after a step is noted.
Notes == seen' = seen \union Truths'

\* Zeroes and cuts leave the bytes that were copied where they belong.
LEMMA ZeroesKeepCopied ==
    ASSUME NEW source \in Seq(Nat), NEW in \in Seq(Nat), NEW in2 \in Seq(Nat),
           NEW out \in Seq(Nat), NEW out2 \in Seq(Nat),
           NEW c \in Nat, NEW rest \in Nat, c + rest = Len(source),
           \A k \in 1 .. Len(in2) : in2[k] = 0 \/ (k <= Len(in) /\ in2[k] = in[k]),
           \A k \in 1 .. Len(out2) : out2[k] = 0 \/ (k <= Len(out) /\ out2[k] = out[k]),
           CopiedSoFar(source, in, out, c)
    PROVE  CopiedSoFar(source, in2, out2, c)
<1>1. ASSUME NEW k \in 1 .. Len(source), k <= Len(in2)
      PROVE  in2[k] \in {source[k], 0}
  <2>1. k \in 1 .. Len(in2)
    BY <1>1
  <2>2. in2[k] = 0 \/ (k <= Len(in) /\ in2[k] = in[k])
    BY <2>1
  <2> QED BY <2>2 DEF CopiedSoFar
<1>2. ASSUME NEW k \in 1 .. c, k <= Len(out2)
      PROVE  out2[k] \in {source[k], 0}
  <2>1. k \in 1 .. Len(out2)
    BY <1>2
  <2>2. out2[k] = 0 \/ (k <= Len(out) /\ out2[k] = out[k])
    BY <2>1
  <2> QED BY <2>2 DEF CopiedSoFar
<1> QED BY <1>1, <1>2 DEF CopiedSoFar

\* The other threads do not touch what the call has found out (any function
\* that takes several system calls).
LEMMA OthersKeepInv ==
    ASSUME FilesInv, OthersStep, Notes
    PROVE  FilesInv'
<1>1. TablesStay /\ UNCHANGED <<calling, room, files, statuses, pars, reply>>
  BY OthersKeep DEF FilesInv
<1>2. seen \subseteq seen' /\ Truths' \subseteq seen'
  BY DEF Notes
<1>3. CallTyped' /\ CallFits'
  BY Zenon, <1>1 DEF FilesInv, CallTyped, CallFits, OneFile, TwoFiles
<1>4. ASSUME NEW p, PassedOver(p) PROVE (\E n \in FileNode \union {NoNode} :
                                            <<"leads", p, n>> \in seen' /\ <<"refused", n>> \in seen')
  BY <1>2, <1>4 DEF PassedOver
<1>5. FindingsAreTrue'
  BY <1>1, <1>2, <1>4 DEF FilesInv, FindingsAreTrue, PassedOver
<1>6. CopyAdvances'
  <2>1. CopyAdvances
    BY DEF FilesInv
  <2>2. ASSUME calling.op = "copy", calling.at = "copy"
        PROVE  CopiedSoFar(statuses[1].node.data, nodes'[files[1].node].data,
                           nodes'[files[2].node].data, pars.copied)
    <3>1. /\ files[1].node \in InUse /\ files[1].node \in InUse'
          /\ files[2].node \in InUse /\ files[2].node \in InUse'
      <4>1. Len(files) = 2
        BY <2>2 DEF FilesInv, CallFits, TwoFiles, Idle
      <4> QED BY <1>1, <4>1 DEF FilesInv, OpenFilesStay, TablesStay
    <3> DEFINE in == files[1].node
               out == files[2].node
               source == statuses[1].node.data
    <3>2. /\ source \in Seq(Nat) /\ pars.copied \in Nat /\ pars.len \in Nat
          /\ pars.copied + pars.len = Len(source)
          /\ CopiedSoFar(source, nodes[in].data, nodes[out].data, pars.copied)
      BY <2>1, <2>2 DEF CopyAdvances
    <3> HIDE DEF in, out, source
    <3>3. in \in InUse /\ in \in InUse' /\ out \in InUse /\ out \in InUse'
      BY <3>1 DEF in, out
    <3>4. ASSUME NEW n \in InUse, n \in InUse'
          PROVE  /\ nodes[n].data \in Seq(Nat) /\ nodes'[n].data \in Seq(Nat)
                 /\ \A k \in 1 .. Len(nodes'[n].data) :
                      \/ nodes'[n].data[k] = 0
                      \/ k <= Len(nodes[n].data) /\ nodes'[n].data[k] = nodes[n].data[k]
      <4>1. nodes[n] \in FileRecord /\ nodes'[n] \in FileRecord
        BY <1>1, <3>4 DEF FilesInv, TablesStay, TreeTyped
      <4>2. nodes[n].data \in Seq(Nat) /\ nodes'[n].data \in Seq(Nat)
        BY <4>1 DEF FileRecord
      <4>3. DataKept
        BY <1>1 DEF TablesStay
      <4>4. \A k \in 1 .. Len(nodes'[n].data) :
                \/ nodes'[n].data[k] = 0
                \/ k <= Len(nodes[n].data) /\ nodes'[n].data[k] = nodes[n].data[k]
        BY <3>4, <4>3, Zenon DEF DataKept
      <4> QED BY <4>2, <4>4
    <3>5. CopiedSoFar(source, nodes'[in].data, nodes'[out].data, pars.copied)
      <4> DEFINE a == nodes[in].data
                 b == nodes'[in].data
                 d == nodes[out].data
                 e == nodes'[out].data
                 far == pars.copied
                 rest == pars.len
      <4>1. /\ a \in Seq(Nat) /\ b \in Seq(Nat)
            /\ \A k \in 1 .. Len(b) : b[k] = 0 \/ (k <= Len(a) /\ b[k] = a[k])
        BY <3>3, <3>4, Zenon
      <4>2. /\ d \in Seq(Nat) /\ e \in Seq(Nat)
            /\ \A k \in 1 .. Len(e) : e[k] = 0 \/ (k <= Len(d) /\ e[k] = d[k])
        BY <3>3, <3>4, Zenon
      <4>3. /\ source \in Seq(Nat) /\ far \in Nat /\ rest \in Nat /\ far + rest = Len(source)
            /\ CopiedSoFar(source, a, d, far)
        BY <3>2
      <4> HIDE DEF a, b, d, e, far, rest
      <4>4. CopiedSoFar(source, b, e, far)
        BY <4>1, <4>2, <4>3, ZeroesKeepCopied
      <4> QED BY <4>4 DEF b, e, far
    <3> QED BY <3>5 DEF in, out, source
  <2>3. (\E k \in seen : k <= pars.copied) => \E k \in seen' : k <= pars.copied
    BY <1>2
  <2> QED BY Zenon, <1>1, <2>1, <2>2, <2>3 DEF CopyAdvances, Offset
<1>7. AnswersWereTrue'
  BY ZenonT(30), <1>1, <1>2, <1>4 DEF FilesInv, AnswersWereTrue, PassedOver
<1> QED BY <1>1, <1>3, <1>5, <1>6, <1>7 DEF FilesInv, TablesStay

\* A step that changes no tables keeps them well-formed.
LEMMA TablesRest ==
    ASSUME TreeTyped, entries' = entries, nodes' = nodes
    PROVE  TreeTyped' /\ InUse' = InUse
BY DEF TreeTyped, InUse

\* The shape of the invariant for a call that has ended.
LEMMA RepliesKeep ==
    ASSUME FilesInv, calling.op # "none", NEW result, Replies(result),
           entries' = entries, nodes' = nodes, Notes,
           calling.op = "copy" =>
             (result = "copied" => pars.len = 0 \/ \E k \in seen : k <= pars.copied),
           AnswersWereTrue'
    PROVE  FilesInv'
<1>1. /\ reply' = result /\ calling' = [calling EXCEPT !.at = "end"] /\ files' = <<>>
      /\ UNCHANGED <<room, statuses, pars>> /\ seen \subseteq seen' /\ Truths' \subseteq seen'
  BY DEF Replies, GoesOn, Notes
<1>2. TreeTyped'
  BY TablesRest DEF FilesInv
<1>3. OpenFilesStay'
  <2>1. files' \in Seq([node : FileNode, off : Nat]) /\ DOMAIN files' = {}
    BY <1>1, EmptySeq
  <2> QED BY <2>1 DEF OpenFilesStay
<1>4. calling' = [op |-> calling.op, at |-> "end", paths |-> calling.paths, all |-> calling.all]
  BY <1>1 DEF FilesInv, CallTyped
<1>5. CallTyped' /\ CallFits'
  <2>1. /\ calling.op \in {"read_symlink", "get_working_dir", "which", "compare", "copy"}
        /\ calling.op = "read_symlink" => Len(calling.paths) = 1
        /\ calling.op = "compare" => Len(calling.paths) = 2
    BY DEF FilesInv, CallFits
  <2>2. calling.op = "copy" => Len(calling.paths) = 2
    BY DEF FilesInv, CallFits
  <2>3. room' \in Nat /\ calling.paths \in Seq(FilePath) /\ calling.all \in Seq(FilePath)
    BY <1>1 DEF FilesInv, CallTyped
  <2>4. /\ calling'.op = calling.op /\ calling'.at = "end"
        /\ calling'.paths = calling.paths /\ calling'.all = calling.all
    BY <1>4
  <2> QED BY <1>1, <1>4, <2>1, <2>2, <2>3, <2>4 DEF CallTyped, CallFits
<1>6. FindingsAreTrue'
  BY <1>1, <1>4 DEF FilesInv, FindingsAreTrue, PassedOver
<1>7. CopyAdvances'
  BY <1>1, <1>4 DEF FilesInv, CopyAdvances
<1> QED BY <1>2, <1>3, <1>5, <1>6, <1>7 DEF FilesInv

\* The first of no numbers: there is nothing that a call has passed at first.
LEMMA NothingPassed ==
    ASSUME NEW n \in Nat
    PROVE  n - n = 0 /\ n <= n /\ 1 .. n - n = {} /\ \A k \in 1 .. n : n - n + k = k
<1>1. n - n = 0
  OBVIOUS
<1>2. \A k \in 1 .. n : 0 + k = k
  OBVIOUS
<1>3. 1 .. 0 = {}
  OBVIOUS
<1> QED BY <1>1, <1>2, <1>3

\* A call starts.
LEMMA CallsKeep ==
    ASSUME FilesInv, NEW op \in {"read_symlink", "which", "compare", "copy", "get_working_dir"},
           NEW at, NEW paths \in Seq(FilePath),
           \/ op = "read_symlink" /\ at = "read_symlink" /\ Len(paths) = 1
           \/ op = "which" /\ at = "candidates"
           \/ op = "compare" /\ at = "open" /\ Len(paths) = 2
           \/ op = "copy" /\ at = "start copy" /\ Len(paths) = 2
           \/ op = "get_working_dir" /\ at = "get_working_dir",
           Calls(op, at, paths), Notes
    PROVE  FilesInv'
<1>1. /\ calling = Idle /\ calling' = [op |-> op, at |-> at, paths |-> paths, all |-> paths]
      /\ room' = FirstRoom /\ entries' = entries /\ nodes' = nodes
      /\ UNCHANGED <<files, statuses, pars, reply>> /\ Truths' \subseteq seen'
  BY DEF Calls, fileSystem, Notes
<1>2. TreeTyped' /\ InUse' = InUse
  BY <1>1, TablesRest DEF FilesInv
<1>3. OpenFilesStay'
  BY <1>1, <1>2 DEF FilesInv, OpenFilesStay
<1>4. CallTyped' /\ CallFits'
  BY <1>1, FilesAssumption DEF CallTyped, CallFits
<1>5. FindingsAreTrue'
  <2> DEFINE l == Len(paths)
  <2>5. l \in Nat
    BY LenProperties
  <2> HIDE DEF l
  <2>6. l - l = 0 /\ l <= l /\ 1 .. l - l = {} /\ \A k \in 1 .. l : l - l + k = k
    BY <2>5, NothingPassed
  <2>3. \A k \in 1 .. l : paths[k] = paths[l - l + k]
    BY <2>6
  <2>2. calling'.paths = paths /\ calling'.all = paths /\ calling'.at = at
    BY <1>1
  <2>4. at \notin {"candidate", "compare"}
    OBVIOUS
  <2> QED BY <1>1, <2>2, <2>3, <2>4, <2>6 DEF FindingsAreTrue, l
<1>6. CopyAdvances'
  <2>1. calling.op = "none" /\ calling'.op = op /\ calling'.at = at
    BY <1>1 DEF Idle
  <2>2. /\ statuses' = <<>> /\ pars'.copied = 0 /\ reply' = "none"
        /\ pars' = [len |-> pars'.len, off_in |-> pars'.off_in, off_out |-> pars'.off_out,
                    copied |-> pars'.copied]
    BY <1>1, <2>1 DEF FilesInv, CopyAdvances
  <2>3. at # "copy"
    OBVIOUS
  <2>4. 0 \in Nat /\ reply' # "copied" /\ op # "none"
    BY <2>2
  <2> QED BY <2>1, <2>2, <2>3, <2>4 DEF CopyAdvances
<1>7. AnswersWereTrue'
  BY <1>1 DEF AnswersWereTrue
<1> QED BY <1>2, <1>3, <1>4, <1>5, <1>6, <1>7 DEF FilesInv

\* The shape of the invariant for a call that goes on, and that is no copy.
LEMMA GoingOnKeeps ==
    ASSUME FilesInv, calling.op \notin {"none", "copy"}, entries' = entries, nodes' = nodes, Notes,
           calling'.op = calling.op, calling'.at # "end", reply' = reply,
           OpenFilesStay', CallTyped', CallFits', FindingsAreTrue'
    PROVE  FilesInv'
<1>1. TreeTyped'
  BY Zenon, TablesRest DEF FilesInv
<1>2. CopyAdvances'
  BY DEF CopyAdvances
<1>3. AnswersWereTrue'
  BY Zenon DEF AnswersWereTrue
<1> QED BY <1>1, <1>2, <1>3 DEF FilesInv

\* read_symlink() returns all of a text that the link had.
LEMMA ReadsLinkKeeps ==
    ASSUME FilesInv, ReadsLink, entries' = entries, nodes' = nodes, Notes
    PROVE  FilesInv'
<1> DEFINE p == calling.paths[1]
           text == nodes[entries[p]].text
           len == IF TextLength[text] < room THEN TextLength[text] ELSE room
<1>1. calling.at = "read_symlink" /\ calling.op = "read_symlink" /\ p \in FilePath /\ room \in Nat
  <2>1. calling.at = "read_symlink"
    BY Zenon DEF ReadsLink
  <2>3. calling.op = "read_symlink" /\ Len(calling.paths) = 1
    <3> HIDE DEF p, text, len
    <3> QED BY <2>1 DEF FilesInv, CallFits, Idle
  <2>2. room \in Nat /\ calling.paths \in Seq(FilePath)
    BY DEF FilesInv, CallTyped
  <2> QED BY <2>1, <2>2, <2>3, ElementOfSeq
<1>r. /\ ~isLink(entries[p]) => Replies("throws")
      /\ isLink(entries[p]) /\ len < room => Replies(<<text, len>>)
      /\ isLink(entries[p]) /\ ~(len < room) =>
           room' = len + 1 /\ UNCHANGED <<calling, files, statuses, pars, reply>>
  BY Zenon DEF ReadsLink
<1>t. isLink(entries[p]) => text \in FilePath /\ text \in Truths
  <2>1. SUFFICES ASSUME isLink(entries[p]) PROVE text \in FilePath /\ text \in Truths
    OBVIOUS
  <2>2. entries[p] \in InUse
    BY <1>1, <2>1 DEF FilesInv, TreeTyped, isLink, Exists
  <2>3. nodes[entries[p]] \in FileRecord
    BY <2>2 DEF FilesInv, TreeTyped
  <2>4. text \in FilePath
    BY <2>3 DEF FileRecord
  <2> QED BY <1>1, <2>1, <2>4 DEF Truths
<1>l. text \in FilePath => len \in Nat /\ (len < room => len = TextLength[text])
  <2>1. SUFFICES ASSUME text \in FilePath PROVE len \in Nat /\ (len < room => len = TextLength[text])
    BY Zenon
  <2> HIDE DEF text
  <2>2. TextLength[text] \in Nat
    BY <2>1, FilesAssumption
  <2> QED BY <1>1, <2>2
<1> HIDE DEF p, text, len
<1>2. calling' = [calling EXCEPT !.at = "end"] => calling'.op = "read_symlink" /\ calling'.at = "end"
  BY <1>1 DEF FilesInv, CallTyped
<1>3. CASE ~isLink(entries[p])
  <2>1. Replies("throws")
    BY <1>3, <1>r
  <2>2. AnswersWereTrue'
    BY <1>2, <2>1 DEF AnswersWereTrue, Replies, GoesOn
  <2> QED BY <1>1, <2>1, <2>2, RepliesKeep
<1>4. CASE isLink(entries[p]) /\ len < room
  <2>1. Replies(<<text, len>>)
    BY <1>4, <1>r
  <2>2. text \in FilePath /\ text \in Truths
    BY <1>4, <1>t
  <2>3. len = TextLength[text]
    BY <1>4, <1>l, <2>2
  <2>5. text \in seen'
    BY <2>2 DEF FilesInv, FindingsAreTrue, Notes
  <2>6. AnswersWereTrue'
    BY <1>2, <2>1, <2>2, <2>3, <2>5 DEF AnswersWereTrue, Replies, GoesOn
  <2> QED BY <1>1, <2>1, <2>6, RepliesKeep
<1>5. CASE isLink(entries[p]) /\ ~(len < room)
  <2>1. room' = len + 1 /\ UNCHANGED <<calling, files, statuses, pars, reply>>
    BY <1>5, <1>r
  <2>2. len \in Nat
    BY <1>5, <1>t, <1>l
  <2>3. InUse' = InUse
    BY DEF InUse
  <2>4. OpenFilesStay'
    BY Zenon, <2>1, <2>3 DEF FilesInv, OpenFilesStay
  <2>5. CallTyped' /\ CallFits'
    <3>1. room' \in Nat
      BY <2>1, <2>2
    <3> QED BY ZenonT(30), <2>1, <3>1 DEF FilesInv, CallTyped, CallFits, OneFile, TwoFiles
  <2>6. FindingsAreTrue'
    BY <1>1, <2>1 DEF FilesInv, FindingsAreTrue, Notes
  <2> QED BY Zenon, <1>1, <2>1, <2>4, <2>5, <2>6, GoingOnKeeps
<1> QED BY Zenon, <1>3, <1>4, <1>5

\* get_working_dir() returns a path that the directory had.
LEMMA GetsWorkingDirKeeps ==
    ASSUME FilesInv, GetsWorkingDir, entries' = entries, nodes' = nodes, Notes
    PROVE  FilesInv'
<1>1. calling.at = "get_working_dir" /\ calling.op = "get_working_dir" /\ room \in Nat
  BY DEF FilesInv, CallTyped, CallFits, GetsWorkingDir, Idle
<1>2. calling' = [calling EXCEPT !.at = "end"] => calling'.op = "get_working_dir" /\ calling'.at = "end"
  BY <1>1 DEF FilesInv, CallTyped
<1>3. CASE Replies("throws")
  <2>1. AnswersWereTrue'
    BY <1>2, <1>3 DEF AnswersWereTrue, Replies, GoesOn
  <2> QED BY <1>1, <1>3, <2>1, RepliesKeep
<1>4. CASE \E p \in PathOf(cwd) : Replies(<<p, TextLength[p]>>)
  <2>1. PICK p \in PathOf(cwd) : Replies(<<p, TextLength[p]>>)
    BY <1>4
  <2>2. p \in FilePath
    BY DEF PathOf
  <2>3. p \in Truths
    BY <1>1 DEF Truths
  <2>4. p \in seen'
    BY <2>3 DEF FilesInv, FindingsAreTrue, Notes
  <2>5. AnswersWereTrue'
    BY <1>2, <2>1, <2>2, <2>4 DEF AnswersWereTrue, Replies, GoesOn
  <2> QED BY <1>1, <2>1, <2>5, RepliesKeep
<1>5. CASE room' = room * 2 /\ UNCHANGED <<calling, files, statuses, pars, reply>>
  <2>1. room' \in Nat
    BY <1>1, <1>5
  <2>2. InUse' = InUse
    BY DEF InUse
  <2>3. OpenFilesStay'
    BY <1>5, <2>2 DEF FilesInv, OpenFilesStay
  <2>4. CallTyped' /\ CallFits'
    BY <1>5, <2>1 DEF FilesInv, CallTyped, CallFits, OneFile, TwoFiles
  <2>5. FindingsAreTrue'
    BY <1>1, <1>5 DEF FilesInv, FindingsAreTrue, Notes
  <2> QED BY <1>1, <1>5, <2>3, <2>4, <2>5, GoingOnKeeps
<1> QED BY <1>3, <1>4, <1>5 DEF GetsWorkingDir

\* A file is opened.
LEMMA OpeningKeeps ==
    ASSUME FilesInv, nodes' = nodes, NEW n \in InUse, files' = <<Opened(n)>>
    PROVE  OpenFilesStay' /\ OneFile' /\ files'[1].node = n
<1>1. Opened(n) \in [node : FileNode, off : Nat] /\ Opened(n).node = n
  BY DEF FilesInv, TreeTyped, Opened
<1>2. files' \in Seq([node : FileNode, off : Nat])
  BY <1>1
<1>3. Len(files') = 1 /\ DOMAIN files' = {1} /\ files'[1] = Opened(n)
  OBVIOUS
<1> QED BY <1>1, <1>2, <1>3 DEF OpenFilesStay, OneFile, InUse

\* which() has looked at its first path that is left: it was refused.
LEMMA PassingOn ==
    ASSUME FilesInv, calling.op = "which", calling.paths # <<>>, Notes,
           calling'.paths = Tail(calling.paths), calling'.all = calling.all,
           NEW n \in FileNode \union {NoNode},
           <<"leads", calling.paths[1], n>> \in seen, <<"refused", n>> \in seen
    PROVE  /\ Tail(calling.paths) \in Seq(FilePath)
           /\ Len(calling'.paths) <= Len(calling'.all)
           /\ \A k \in 1 .. Len(calling'.paths) :
                calling'.paths[k] = calling'.all[Len(calling'.all) - Len(calling'.paths) + k]
           /\ \A k \in 1 .. Len(calling'.all) - Len(calling'.paths) :
                \E m \in FileNode \union {NoNode} :
                    <<"leads", calling'.all[k], m>> \in seen' /\ <<"refused", m>> \in seen'
<1> DEFINE paths == calling.paths
           all == calling.all
           rest == Tail(paths)
           l == Len(paths)
           a == Len(all)
<1>1. paths \in Seq(FilePath) /\ paths # <<>> /\ all \in Seq(FilePath)
  BY DEF FilesInv, CallTyped
<1>2. l \in Nat /\ a \in Nat /\ l # 0
  BY <1>1
<1>3. rest \in Seq(FilePath) /\ Len(rest) = l - 1 /\ \A k \in 1 .. l - 1 : rest[k] = paths[k + 1]
  BY <1>1, <1>2
<1>4. l <= a /\ (\A k \in 1 .. l : paths[k] = all[a - l + k]) /\ \A k \in 1 .. a - l : PassedOver(all[k])
  BY DEF FilesInv, FindingsAreTrue
<1>5. seen \subseteq seen'
  BY DEF Notes
<1> HIDE DEF paths, all, rest, l, a
<1>6. ASSUME NEW k \in 1 .. l - 1 PROVE rest[k] = all[a - (l - 1) + k]
  <2>1. k + 1 \in 1 .. l /\ a - l + (k + 1) = a - (l - 1) + k
    BY <1>2
  <2> QED BY <1>3, <1>4, <2>1
<1>7. ASSUME NEW k \in 1 .. a - (l - 1)
      PROVE  \E m \in FileNode \union {NoNode} : <<"leads", all[k], m>> \in seen' /\ <<"refused", m>> \in seen'
  <2>1. CASE k \in 1 .. a - l
    BY <1>4, <1>5, <2>1 DEF PassedOver
  <2>2. CASE k \notin 1 .. a - l
    <3>1. k = a - l + 1 /\ 1 \in 1 .. l
      BY <1>2, <1>4, <2>2
    <3>2. all[k] = paths[1]
      BY <1>4, <3>1
    <3> QED BY <1>5, <3>2 DEF paths
  <2> QED BY <2>1, <2>2
<1>8. l - 1 <= a
  BY <1>2, <1>4
<1>9. calling'.paths = rest /\ calling'.all = all
  BY DEF rest, paths, all
<1> QED BY ZenonT(60), <1>3, <1>6, <1>7, <1>8, <1>9 DEF a, rest, paths

\* which() opens a candidate, or passes it over.
LEMMA OpensCandidateKeeps ==
    ASSUME FilesInv, OpensCandidate, entries' = entries, nodes' = nodes, Notes
    PROVE  FilesInv'
<1> DEFINE p == calling.paths[1]
<1>1. calling.at = "candidates" /\ calling.op = "which" /\ calling.paths \in Seq(FilePath)
  BY DEF FilesInv, CallTyped, CallFits, OpensCandidate, Idle
<1>2. calling = [op |-> calling.op, at |-> calling.at, paths |-> calling.paths, all |-> calling.all]
  BY DEF FilesInv, CallTyped
<1>3. calling.paths # <<>> => p \in FilePath /\ Len(calling.paths) \in Nat \ {0}
  BY <1>1
<1>4. Truths \subseteq seen /\ seen \subseteq seen' /\ Truths' \subseteq seen'
  BY DEF FilesInv, FindingsAreTrue, Notes
<1>5. InUse' = InUse /\ InUse \subseteq FileNode
  BY DEF InUse, FilesInv, TreeTyped
<1>6. calling.paths # <<>> => leads(p) \in InUse \union {NoNode}
  BY <1>3, LeadsSomewhere DEF FilesInv
<1>7. \A q \in FilePath : <<"leads", q, leads(q)>> \in seen
  BY <1>1, <1>4 DEF Truths
<1>8. CASE calling.paths = <<>>
  <2>1. Replies("nothing")
    BY <1>8 DEF OpensCandidate
  <2>2. \A k \in 1 .. Len(calling.all) - Len(calling.paths) : PassedOver(calling.all[k])
    BY <1>1 DEF FilesInv, FindingsAreTrue
  <2>3. /\ calling'.op = "which" /\ calling'.paths = calling.paths /\ calling'.all = calling.all
        /\ reply' = "nothing"
    BY <1>1, <1>2, <2>1 DEF Replies, GoesOn
  <2>4. AnswersWereTrue'
    BY <1>4, <2>2, <2>3 DEF AnswersWereTrue, PassedOver
  <2> QED BY <1>1, <2>1, <2>4, RepliesKeep
<1>9. CASE calling.paths # <<>> /\ (~Exists(leads(p)) \/ ~mayRead(leads(p)))
  <2>1. /\ calling' = [calling EXCEPT !.paths = Tail(@)]
        /\ UNCHANGED <<room, files, statuses, pars, reply>>
    BY <1>9 DEF OpensCandidate
  <2>2. calling' = [op |-> "which", at |-> "candidates", paths |-> Tail(calling.paths), all |-> calling.all]
    BY <1>1, <1>2, <2>1
  <2>3. /\ calling'.op = "which" /\ calling'.at = "candidates"
        /\ calling'.paths = Tail(calling.paths) /\ calling'.all = calling.all
    BY <2>2
  <2>4. <<"refused", leads(p)>> \in seen
    BY <1>1, <1>4, <1>6, <1>9 DEF Truths, Exists
  <2>5. <<"leads", p, leads(p)>> \in seen
    BY <1>3, <1>7, <1>9
  <2>6. leads(p) \in FileNode \union {NoNode}
    BY <1>5, <1>6, <1>9
  <2>7. /\ Tail(calling.paths) \in Seq(FilePath)
        /\ Len(calling'.paths) <= Len(calling'.all)
        /\ \A k \in 1 .. Len(calling'.paths) :
             calling'.paths[k] = calling'.all[Len(calling'.all) - Len(calling'.paths) + k]
        /\ \A k \in 1 .. Len(calling'.all) - Len(calling'.paths) :
             \E m \in FileNode \union {NoNode} :
                 <<"leads", calling'.all[k], m>> \in seen' /\ <<"refused", m>> \in seen'
    BY <1>1, <1>9, <2>3, <2>4, <2>5, <2>6, PassingOn
  <2>8. OpenFilesStay'
    BY <1>5, <2>1 DEF FilesInv, OpenFilesStay
  <2>9. CallTyped'
    BY <2>1, <2>2, <2>3, <2>7 DEF FilesInv, CallTyped
  <2>10. CallFits'
    BY <2>3 DEF CallFits
  <2>11. FindingsAreTrue'
    BY <1>4, <2>3, <2>7 DEF FindingsAreTrue, PassedOver
  <2> QED BY <1>1, <2>1, <2>3, <2>8, <2>9, <2>10, <2>11, GoingOnKeeps
<1>10. CASE calling.paths # <<>> /\ ~(~Exists(leads(p)) \/ ~mayRead(leads(p)))
  <2>1. /\ files' = <<Opened(leads(p))>> /\ calling' = [calling EXCEPT !.at = "candidate"]
        /\ UNCHANGED <<room, statuses, pars, reply>>
    BY <1>10 DEF OpensCandidate, GoesOn
  <2>2. calling' = [op |-> "which", at |-> "candidate", paths |-> calling.paths, all |-> calling.all]
    BY <1>1, <1>2, <2>1
  <2>3. /\ calling'.op = "which" /\ calling'.at = "candidate"
        /\ calling'.paths = calling.paths /\ calling'.all = calling.all
    BY <2>2
  <2>4. leads(p) \in InUse
    BY <1>6, <1>10 DEF Exists
  <2>5. OpenFilesStay' /\ OneFile' /\ files'[1].node = leads(p)
    BY <2>1, <2>4, OpeningKeeps
  <2>6. CallTyped'
    BY <2>1, <2>2, <2>3 DEF FilesInv, CallTyped
  <2>7. CallFits'
    BY <1>10, <2>3, <2>5 DEF CallFits
  <2>8. <<"leads", p, leads(p)>> \in seen'
    BY <1>3, <1>4, <1>7, <1>10
  <2>9. FindingsAreTrue'
    BY <1>1, <1>4, <2>3, <2>5, <2>8 DEF FilesInv, FindingsAreTrue, PassedOver
  <2> QED BY <1>1, <2>1, <2>3, <2>5, <2>6, <2>7, <2>9, GoingOnKeeps
<1> QED BY <1>8, <1>9, <1>10

\* checkExecutable(): which() returns a path that led to an executable file.
LEMMA ChecksCandidateKeeps ==
    ASSUME FilesInv, ChecksCandidate, entries' = entries, nodes' = nodes, Notes
    PROVE  FilesInv'
<1> DEFINE n == files[1].node
<1>1. /\ calling.at = "candidate" /\ calling.op = "which" /\ calling.paths # <<>> /\ OneFile
      /\ calling.paths \in Seq(FilePath)
  BY DEF FilesInv, CallTyped, CallFits, ChecksCandidate, Idle
<1>2. calling = [op |-> calling.op, at |-> calling.at, paths |-> calling.paths, all |-> calling.all]
  BY DEF FilesInv, CallTyped
<1>3. n \in InUse /\ n \in FileNode
  BY <1>1 DEF FilesInv, OpenFilesStay, OneFile, TreeTyped
<1>4. Truths \subseteq seen /\ seen \subseteq seen' /\ Truths' \subseteq seen'
  BY DEF FilesInv, FindingsAreTrue, Notes
<1>5. <<"leads", calling.paths[1], n>> \in seen
  BY <1>1 DEF FilesInv, FindingsAreTrue
<1>6. <<IF usable(n) THEN "usable" ELSE "refused", n>> \in seen
  BY <1>1, <1>3, <1>4 DEF Truths
<1>7. CASE nodes[n].type = "REGULAR" /\ canAnyExec(nodes[n].mode)
  <2>1. Replies(calling.paths[1])
    BY <1>7 DEF ChecksCandidate
  <2>2. /\ calling'.op = "which" /\ calling'.paths = calling.paths /\ calling'.all = calling.all
        /\ reply' = calling.paths[1]
    BY <1>1, <1>2, <2>1 DEF Replies, GoesOn
  <2>3. <<"leads", reply', n>> \in seen' /\ <<"usable", n>> \in seen'
    BY <1>4, <1>5, <1>6, <1>7, <2>2 DEF usable
  <2>4. \A k \in 1 .. Len(calling.all) - Len(calling.paths) : PassedOver(calling.all[k])
    BY <1>1 DEF FilesInv, FindingsAreTrue
  <2>5. AnswersWereTrue'
    BY <1>3, <1>4, <2>2, <2>3, <2>4 DEF AnswersWereTrue, PassedOver
  <2> QED BY <1>1, <2>1, <2>5, RepliesKeep
<1>8. CASE ~(nodes[n].type = "REGULAR" /\ canAnyExec(nodes[n].mode))
  <2>1. /\ calling' = [calling EXCEPT !.at = "candidates", !.paths = Tail(@)]
        /\ files' = <<>> /\ UNCHANGED <<room, statuses, pars, reply>>
    BY <1>8 DEF ChecksCandidate
  <2>2. calling' = [op |-> "which", at |-> "candidates", paths |-> Tail(calling.paths), all |-> calling.all]
    BY <1>1, <1>2, <2>1
  <2>3. /\ calling'.op = "which" /\ calling'.at = "candidates"
        /\ calling'.paths = Tail(calling.paths) /\ calling'.all = calling.all
    BY <2>2
  <2>4. <<"refused", n>> \in seen
    BY <1>6, <1>8 DEF usable
  <2>5. n \in FileNode \union {NoNode}
    BY <1>3
  <2>6. /\ Tail(calling.paths) \in Seq(FilePath)
        /\ Len(calling'.paths) <= Len(calling'.all)
        /\ \A k \in 1 .. Len(calling'.paths) :
             calling'.paths[k] = calling'.all[Len(calling'.all) - Len(calling'.paths) + k]
        /\ \A k \in 1 .. Len(calling'.all) - Len(calling'.paths) :
             \E m \in FileNode \union {NoNode} :
                 <<"leads", calling'.all[k], m>> \in seen' /\ <<"refused", m>> \in seen'
    BY <1>1, <1>5, <2>3, <2>4, <2>5, PassingOn
  <2>7. OpenFilesStay'
    BY <2>1, EmptySeq DEF OpenFilesStay
  <2>8. CallTyped'
    BY <2>1, <2>2, <2>3, <2>6 DEF FilesInv, CallTyped
  <2>9. CallFits'
    BY <2>3 DEF CallFits
  <2>10. FindingsAreTrue'
    BY <1>4, <2>3, <2>6 DEF FindingsAreTrue, PassedOver
  <2> QED BY <1>1, <2>1, <2>3, <2>7, <2>8, <2>9, <2>10, GoingOnKeeps
<1> QED BY <1>7, <1>8

\* The file of the first FileStatus is opened.
LEMMA OpensFileKeeps ==
    ASSUME FilesInv, OpensFile, entries' = entries, nodes' = nodes, Notes
    PROVE  FilesInv'
<1> DEFINE p == calling.paths[1]
<1>1. /\ calling.at = "open" /\ calling.op = "compare" /\ Len(calling.paths) = 2
      /\ calling.paths \in Seq(FilePath) /\ p \in FilePath
  <2>1. calling.at = "open" /\ calling.op = "compare" /\ Len(calling.paths) = 2
    BY DEF FilesInv, CallFits, OpensFile, Idle
  <2> QED BY <2>1 DEF FilesInv, CallTyped
<1>2. calling = [op |-> calling.op, at |-> calling.at, paths |-> calling.paths, all |-> calling.all]
  BY DEF FilesInv, CallTyped
<1>3. CASE Replies("throws")
  <2>1. calling'.op = "compare" /\ reply' = "throws"
    BY <1>1, <1>2, <1>3 DEF Replies, GoesOn
  <2>2. AnswersWereTrue'
    BY <2>1 DEF AnswersWereTrue
  <2> QED BY <1>1, <1>3, <2>2, RepliesKeep
<1>4. CASE ~(~Exists(leads(p)) \/ ~mayRead(leads(p)))
  <2>1. /\ files' = <<Opened(leads(p))>> /\ calling' = [calling EXCEPT !.at = "status"]
        /\ UNCHANGED <<room, statuses, pars, reply>>
    BY <1>4 DEF OpensFile, GoesOn
  <2>2. calling' = [op |-> "compare", at |-> "status", paths |-> calling.paths, all |-> calling.all]
    BY <1>1, <1>2, <2>1
  <2>3. /\ calling'.op = "compare" /\ calling'.at = "status"
        /\ calling'.paths = calling.paths /\ calling'.all = calling.all
    BY <2>2
  <2>4. leads(p) \in InUse
    BY <1>1, <1>4, LeadsSomewhere DEF Exists, FilesInv
  <2>5. OpenFilesStay' /\ OneFile'
    BY <2>1, <2>4, OpeningKeeps
  <2>6. CallTyped'
    BY <2>1, <2>2, <2>3 DEF FilesInv, CallTyped
  <2>7. CallFits'
    BY <1>1, <2>3, <2>5 DEF CallFits
  <2>8. FindingsAreTrue'
    BY <2>3 DEF FindingsAreTrue, Notes
  <2> QED BY <1>1, <2>1, <2>3, <2>5, <2>6, <2>7, <2>8, GoingOnKeeps
<1> QED BY <1>3, <1>4 DEF OpensFile

\* updateFrom(fd): the status is that of the open file.
LEMMA UpdatesFromFileKeeps ==
    ASSUME FilesInv, UpdatesFromFile, entries' = entries, nodes' = nodes, Notes
    PROVE  FilesInv'
<1>1. calling.at = "status" /\ calling.op = "compare" /\ Len(calling.paths) = 2 /\ OneFile
  BY DEF FilesInv, CallFits, UpdatesFromFile, Idle
<1>2. calling = [op |-> calling.op, at |-> calling.at, paths |-> calling.paths, all |-> calling.all]
  BY DEF FilesInv, CallTyped
<1>3. /\ statuses' = <<StatusOf(files[1].node)>> /\ calling' = [calling EXCEPT !.at = "compare"]
      /\ UNCHANGED <<room, files, pars, reply>>
  BY DEF UpdatesFromFile, GoesOn
<1>4. calling' = [op |-> "compare", at |-> "compare", paths |-> calling.paths, all |-> calling.all]
  BY <1>1, <1>2, <1>3
<1>5. /\ calling'.op = "compare" /\ calling'.at = "compare"
      /\ calling'.paths = calling.paths /\ calling'.all = calling.all
  BY <1>4
<1>6. files[1].node \in Nat \X Nat
  <2>1. files[1].node \in FileNode
    BY <1>1 DEF FilesInv, OpenFilesStay, OneFile, TreeTyped
  <2> QED BY <2>1, FilesAssumption
<1>7. <<statuses'[1].device, statuses'[1].inode>> = files'[1].node
  BY <1>3, <1>6 DEF StatusOf
<1>8. OpenFilesStay'
  BY <1>3 DEF FilesInv, OpenFilesStay, InUse
<1>9. CallTyped' /\ CallFits'
  BY <1>1, <1>3, <1>4, <1>5 DEF FilesInv, CallTyped, CallFits, OneFile
<1>10. FindingsAreTrue'
  BY <1>5, <1>7 DEF FindingsAreTrue, Notes
<1> QED BY <1>1, <1>3, <1>5, <1>8, <1>9, <1>10, GoingOnKeeps

\* isSameFile() compares the open file with the one that the path leads to.
LEMMA ComparesWithPathKeeps ==
    ASSUME FilesInv, ComparesWithPath, entries' = entries, nodes' = nodes, Notes
    PROVE  FilesInv'
<1> DEFINE n == leads(calling.paths[2])
           first == files[1].node
<1>1. /\ calling.at = "compare" /\ calling.op = "compare" /\ Len(calling.paths) = 2 /\ OneFile
      /\ calling.paths[2] \in FilePath
  <2>1. calling.at = "compare" /\ calling.op = "compare" /\ Len(calling.paths) = 2 /\ OneFile
    BY DEF FilesInv, CallFits, ComparesWithPath, Idle
  <2> QED BY <2>1 DEF FilesInv, CallTyped
<1>2. calling = [op |-> calling.op, at |-> calling.at, paths |-> calling.paths, all |-> calling.all]
  BY DEF FilesInv, CallTyped
<1>3. PICK result : /\ Replies(result)
                    /\ result = IF ~Exists(n) THEN "throws"
                                ELSE IF isSameFile(statuses[1], StatusOf(n)) THEN "same" ELSE "different"
  BY DEF ComparesWithPath
<1>4. calling'.op = "compare" /\ reply' = result
  BY <1>1, <1>2, <1>3 DEF Replies, GoesOn
<1>5. CASE ~Exists(n)
  <2>1. AnswersWereTrue'
    BY <1>3, <1>4, <1>5 DEF AnswersWereTrue
  <2> QED BY <1>1, <1>3, <2>1, RepliesKeep
<1>6. CASE Exists(n)
  <2>1. n \in InUse
    BY <1>1, <1>6, LeadsSomewhere DEF Exists, FilesInv
  <2>2. n \in Nat \X Nat /\ first \in Nat \X Nat /\ 1 \in DOMAIN files
    <3>1. n \in FileNode /\ first \in FileNode /\ 1 \in DOMAIN files
      BY <1>1, <2>1 DEF FilesInv, OpenFilesStay, OneFile, TreeTyped
    <3> QED BY <3>1, FilesAssumption
  <2>3. <<statuses[1].device, statuses[1].inode>> = first
    BY <1>1 DEF FilesInv, FindingsAreTrue
  <2>4. isSameFile(statuses[1], StatusOf(n)) <=> n = first
    BY <2>2, <2>3 DEF isSameFile, StatusOf
  <2>5. result = IF n = first THEN "same" ELSE "different"
    BY <1>3, <1>6, <2>4
  <2>6. result \in Truths
    BY <1>1, <2>2, <2>5 DEF Truths
  <2>7. result \in seen'
    BY <2>6 DEF FilesInv, FindingsAreTrue, Notes
  <2>8. AnswersWereTrue'
    BY <1>4, <2>7 DEF AnswersWereTrue
  <2> QED BY <1>1, <1>3, <2>8, RepliesKeep
<1> QED BY <1>5, <1>6

\* Two files are opened for a copy.
LEMMA StartsCopyKeeps ==
    ASSUME FilesInv, StartsCopy, entries' = entries, nodes' = nodes, Notes
    PROVE  FilesInv'
<1> DEFINE in == leads(calling.paths[1])
           out == leads(calling.paths[2])
<1>1. /\ calling.at = "start copy" /\ calling.op = "copy" /\ Len(calling.paths) = 2
      /\ calling.paths[1] \in FilePath /\ calling.paths[2] \in FilePath
  <2>1. calling.at = "start copy"
    BY DEF StartsCopy
  <2>2. calling.op = "copy" /\ Len(calling.paths) = 2
    <3>1. CallFits /\ Idle.at = "idle"
      BY DEF FilesInv, Idle
    <3> QED BY <2>1, <3>1 DEF CallFits
  <2>3. calling.paths \in Seq(FilePath)
    BY DEF FilesInv, CallTyped
  <2>4. 1 \in 1 .. Len(calling.paths) /\ 2 \in 1 .. Len(calling.paths)
    BY <2>2
  <2>5. calling.paths[1] \in FilePath /\ calling.paths[2] \in FilePath
    BY <2>3, <2>4, ElementOfSeq
  <2> QED BY <2>1, <2>2, <2>5
<1>2. calling = [op |-> calling.op, at |-> calling.at, paths |-> calling.paths, all |-> calling.all]
  BY DEF FilesInv, CallTyped
<1>3. CASE Replies("throws")
  <2>1. calling'.op = "copy" /\ "throws" # "copied"
    BY <1>1, <1>2, <1>3 DEF Replies, GoesOn
  <2>2. AnswersWereTrue'
    BY <2>1 DEF AnswersWereTrue
  <2> QED BY <1>1, <1>3, <2>1, <2>2, RepliesKeep
<1>4. CASE ~(~Exists(in) \/ ~Exists(out) \/ in = out) /\ ~Replies("throws")
  <2>1. /\ files' = <<Opened(in), Opened(out)>> /\ statuses' = <<StatusOf(in)>>
        /\ calling' = [calling EXCEPT !.at = "copy"] /\ UNCHANGED <<room, reply>>
    BY <1>4 DEF StartsCopy, GoesOn
  <2>2. PICK off_in, off_out \in {<<>>, <<0>>} :
          pars' = [pars EXCEPT !.len = size(StatusOf(in)), !.off_in = off_in, !.off_out = off_out]
    BY <1>4 DEF StartsCopy
  <2>3. in \in InUse /\ out \in InUse /\ in # out /\ in \in FileNode /\ out \in FileNode
    <3>1. TreeTyped
      BY DEF FilesInv
    <3>2. in \in InUse \union {NoNode} /\ out \in InUse \union {NoNode}
      BY <1>1, <3>1, LeadsSomewhere
    <3> QED BY <1>4, <3>1, <3>2 DEF Exists, TreeTyped
  <2>4. nodes[in].data \in Seq(Nat) /\ Len(nodes[in].data) \in Nat
    BY <2>3 DEF FilesInv, TreeTyped, FileRecord
  <2>5. statuses'[1].node.data = nodes[in].data /\ size(StatusOf(in)) = Len(nodes[in].data)
    BY <2>1 DEF StatusOf, size
  <2> HIDE DEF in, out
  <2>6. calling' = [op |-> "copy", at |-> "copy", paths |-> calling.paths, all |-> calling.all]
    BY <1>1, <1>2, <2>1
  <2>7. /\ calling'.op = "copy" /\ calling'.at = "copy"
        /\ calling'.paths = calling.paths /\ calling'.all = calling.all
    BY <2>6
  <2>8. TreeTyped' /\ InUse' = InUse
    BY TablesRest DEF FilesInv
  <2>9. Opened(in) \in [node : FileNode, off : Nat] /\ Opened(out) \in [node : FileNode, off : Nat]
    BY <2>3 DEF Opened
  <2>10. /\ files' \in Seq([node : FileNode, off : Nat]) /\ DOMAIN files' = {1, 2} /\ Len(files') = 2
         /\ files'[1] = Opened(in) /\ files'[2] = Opened(out)
    BY <2>1, <2>9
  <2>11. OpenFilesStay' /\ TwoFiles'
    BY <2>3, <2>8, <2>10 DEF OpenFilesStay, TwoFiles, Opened
  <2>12. CallTyped'
    BY <2>1, <2>6, <2>7 DEF FilesInv, CallTyped
  <2>13. CallFits'
    BY <1>1, <2>7, <2>11 DEF CallFits
  <2>14. FindingsAreTrue'
    BY <2>7 DEF FindingsAreTrue, Notes
  <2>15. pars.copied = 0 /\ pars = [len |-> pars.len, off_in |-> pars.off_in, off_out |-> pars.off_out,
                                    copied |-> pars.copied]
    BY <1>1 DEF FilesInv, CopyAdvances
  <2>16. pars' = [len |-> Len(nodes[in].data), off_in |-> off_in, off_out |-> off_out, copied |-> 0]
    BY <2>2, <2>5, <2>15
  <2>17. /\ pars'.len = Len(nodes[in].data) /\ pars'.off_in = off_in /\ pars'.off_out = off_out
         /\ pars'.copied = 0
    BY <2>16
  <2>18. Offset(files'[1], off_in) = 0 /\ Offset(files'[2], off_out) = 0
    <3>1. <<0>>[1] = 0 /\ <<0>> # <<>>
      OBVIOUS
    <3> QED BY <2>10, <3>1 DEF Offset, Opened
  <2>19. statuses' # <<>> /\ reply' = "none"
    BY <1>1, <2>1 DEF FilesInv, CopyAdvances
  <2>20. \A k \in 1 .. Len(nodes[in].data) :
           nodes'[files'[1].node].data[k] \in {statuses'[1].node.data[k], 0}
    BY <2>5, <2>10 DEF Opened
  <2>21. 0 + Len(nodes[in].data) = Len(nodes[in].data) /\ 1 .. 0 = {}
    BY SMTT(60), <2>4
  <2>22. CopyAdvances'
    <3>1. pars' = [len |-> pars'.len, off_in |-> pars'.off_in, off_out |-> pars'.off_out,
                   copied |-> pars'.copied]
      BY <2>16, <2>17
    <3>2. /\ pars'.copied \in Nat /\ statuses'[1].node.data \in Seq(Nat) /\ pars'.len \in Nat
          /\ pars'.copied + pars'.len = Len(statuses'[1].node.data)
      BY <2>4, <2>5, <2>17, <2>21
    <3>3. /\ pars'.off_in \in {<<>>, <<pars'.copied>>} /\ pars'.off_out \in {<<>>, <<pars'.copied>>}
          /\ Offset(files'[1], pars'.off_in) = pars'.copied
          /\ Offset(files'[2], pars'.off_out) = pars'.copied
      BY <2>2, <2>17, <2>18
    <3>4. 1 .. pars'.copied = {}
      BY Zenon, <2>17, <2>21
    <3>5. \A k \in 1 .. Len(statuses'[1].node.data) :
           nodes'[files'[1].node].data[k] \in {statuses'[1].node.data[k], 0}
      BY <2>5, <2>20
    <3>6. CopiedSoFar(statuses'[1].node.data, nodes'[files'[1].node].data,
                      nodes'[files'[2].node].data, pars'.copied)
      BY <3>4, <3>5, Zenon DEF CopiedSoFar
    <3> QED BY <2>7, <2>19, <3>1, <3>2, <3>3, <3>6 DEF CopyAdvances, Offset
  <2>23. AnswersWereTrue'
    BY <2>7 DEF AnswersWereTrue
  <2> QED BY <2>8, <2>11, <2>12, <2>13, <2>14, <2>22, <2>23 DEF FilesInv
<1> QED BY <1>3, <1>4 DEF StartsCopy

\* Writing a part at an offset into a file (copy_file_range()): what is there
\* is the part, the old data, or a gap of zeroes.
LEMMA OverwrittenData ==
    ASSUME NEW data \in Seq(Nat), NEW off \in Nat, NEW part \in Seq(Nat)
    PROVE  /\ Overwritten(data, off, part) \in Seq(Nat)
           /\ \A k \in 1 .. Len(Overwritten(data, off, part)) :
                Overwritten(data, off, part)[k] =
                    IF k > off /\ k <= off + Len(part) THEN part[k - off]
                    ELSE IF k <= Len(data) THEN data[k] ELSE 0
<1> DEFINE m == IF off + Len(part) > Len(data) THEN off + Len(part) ELSE Len(data)
           new == [k \in 1 .. m |-> IF k > off /\ k <= off + Len(part) THEN part[k - off]
                                    ELSE IF k <= Len(data) THEN data[k] ELSE 0]
<1>1. Len(data) \in Nat /\ Len(part) \in Nat /\ m \in Nat
  BY LenProperties
<1>2. Overwritten(data, off, part) = new
  BY DEF Overwritten
<1>3. ASSUME NEW k \in 1 .. m PROVE new[k] \in Nat
  <2>1. CASE k > off /\ k <= off + Len(part)
    <3>1. k - off \in 1 .. Len(part)
      BY <1>1, <2>1
    <3>2. part[k - off] \in Nat
      BY <3>1, ElementOfSeq
    <3> QED BY <2>1, <3>2
  <2>2. CASE ~(k > off /\ k <= off + Len(part)) /\ k <= Len(data)
    <3>1. k \in 1 .. Len(data)
      BY <1>1, <2>2
    <3>2. data[k] \in Nat
      BY <3>1, ElementOfSeq
    <3> QED BY <2>2, <3>2
  <2>3. CASE ~(k > off /\ k <= off + Len(part)) /\ ~(k <= Len(data))
    BY <2>3
  <2> QED BY <2>1, <2>2, <2>3
<1>4. new \in [1 .. m -> Nat]
  BY <1>3
<1>5. \A k \in 1 .. m : new[k] = IF k > off /\ k <= off + Len(part) THEN part[k - off]
                                 ELSE IF k <= Len(data) THEN data[k] ELSE 0
  OBVIOUS
<1> HIDE DEF new, m
<1>6. new \in Seq(Nat) /\ Len(new) = m
  BY <1>1, <1>4
<1> QED BY <1>2, <1>5, <1>6

\* The bytes that are copied are bytes of the file.
LEMMA WithinBounds ==
    ASSUME NEW c \in Nat, NEW n \in Nat, NEW l \in Nat, c + n <= l
    PROVE  /\ \A k \in 1 .. n : c + k \in 1 .. l
           /\ \A k \in 1 .. c + n : k \in 1 .. l /\ k <= l
OBVIOUS

\* Bytes that are copied to their place are where they belong.
LEMMA CopyingCopies ==
    ASSUME NEW source \in Seq(Nat), NEW data \in Seq(Nat), NEW was \in Seq(Nat), NEW new \in Seq(Nat),
           NEW c \in Nat, NEW n \in Nat, c + n <= Len(data), c + n <= Len(source), NEW part,
           \A k \in 1 .. n : part[k] = data[c + k],
           \A k \in 1 .. Len(new) :
             new[k] = IF k > c /\ k <= c + n THEN part[k - c] ELSE IF k <= Len(was) THEN was[k] ELSE 0,
           CopiedSoFar(source, data, was, c)
    PROVE  CopiedSoFar(source, data, new, c + n)
<1>1. \A k \in 1 .. Len(source) : k <= Len(data) => data[k] \in {source[k], 0}
  BY DEF CopiedSoFar
<1>2. ASSUME NEW k \in 1 .. c + n, k <= Len(new) PROVE new[k] \in {source[k], 0}
  <2>1. k \in 1 .. Len(new) /\ k \in 1 .. Len(source) /\ k <= Len(data)
    <3> DEFINE d == Len(data)
               l == Len(source)
               m == Len(new)
    <3>1. d \in Nat /\ l \in Nat /\ m \in Nat /\ c + n <= d /\ c + n <= l /\ k <= m
      BY SMTT(30), <1>2
    <3> HIDE DEF d, l, m
    <3>2. k \in 1 .. m /\ k \in 1 .. l /\ k <= d
      BY <3>1
    <3> QED BY <3>2 DEF d, l, m
  <2>2. CASE k > c
    <3>1. k - c \in 1 .. n /\ c + (k - c) = k /\ k <= c + n
      BY <2>2
    <3>2. part[k - c] = data[c + (k - c)]
      BY <3>1
    <3>3. new[k] = data[k]
      BY <2>1, <2>2, <3>1, <3>2
    <3> QED BY <1>1, <2>1, <3>3
  <2>3. CASE ~(k > c)
    <3>1. k \in 1 .. c
      BY <2>3
    <3>2. new[k] = IF k <= Len(was) THEN was[k] ELSE 0
      BY <2>1, <2>3
    <3>3. k <= Len(was) => was[k] \in {source[k], 0}
      BY <3>1 DEF CopiedSoFar
    <3> QED BY <3>2, <3>3
  <2> QED BY <2>2, <2>3
<1> QED BY <1>1, <1>2 DEF CopiedSoFar

\* One call of copy_file_range() moves offsets and lengths by what was copied,
\* and every byte is where it belongs.
LEMMA CopyingKeeps ==
    ASSUME FilesInv, calling.op = "copy", calling.at = "copy",
           NEW n \in Nat \ {0}, n <= pars.len,
           Offset(files[1], pars.off_in) + n <= Len(nodes[files[1].node].data),
           Copied(n), copy_file_range(n),
           UNCHANGED <<calling, room, statuses, reply, entries>>, Notes
    PROVE  FilesInv'
<1> DEFINE in == files[1].node
           out == files[2].node
           source == statuses[1].node.data
           c == pars.copied
           data == nodes[in].data
           was == nodes[out].data
           part == [k \in 1 .. n |-> data[c + k]]
           new == Overwritten(was, c, part)
<1>1. TwoFiles /\ in \in InUse /\ out \in InUse /\ in # out /\ DOMAIN files = {1, 2}
      /\ files[1] \in [node : FileNode, off : Nat] /\ files[2] \in [node : FileNode, off : Nat]
  <2>1. TwoFiles
    BY DEF FilesInv, CallFits
  <2>2. files \in Seq([node : FileNode, off : Nat]) /\ Len(files) = 2
    BY <2>1 DEF FilesInv, OpenFilesStay, TwoFiles
  <2>3. DOMAIN files = {1, 2}
    BY <2>2
  <2>4. files[1] \in [node : FileNode, off : Nat] /\ files[2] \in [node : FileNode, off : Nat]
    <3>1. 1 \in 1 .. Len(files) /\ 2 \in 1 .. Len(files)
      BY <2>2
    <3>2. \A k \in 1 .. Len(files) : files[k] \in [node : FileNode, off : Nat]
      BY <2>2, ElementOfSeq
    <3> QED BY <3>1, <3>2
  <2>5. in # out
    BY <2>1 DEF TwoFiles
  <2>6. in \in InUse /\ out \in InUse
    BY <2>3 DEF FilesInv, OpenFilesStay
  <2> QED BY <2>1, <2>3, <2>4, <2>5, <2>6
<1>2. /\ data \in Seq(Nat) /\ was \in Seq(Nat) /\ Len(data) \in Nat /\ Len(was) \in Nat
      /\ nodes[out] \in FileRecord /\ nodes \in [InUse -> FileRecord]
  BY SMTT(30), <1>1 DEF FilesInv, TreeTyped, FileRecord
<1>3. /\ c \in Nat /\ pars.len \in Nat /\ source \in Seq(Nat) /\ c + pars.len = Len(source)
      /\ statuses # <<>> /\ reply = "none"
      /\ pars.off_in \in {<<>>, <<c>>} /\ pars.off_out \in {<<>>, <<c>>}
      /\ Offset(files[1], pars.off_in) = c /\ Offset(files[2], pars.off_out) = c
      /\ pars = [len |-> pars.len, off_in |-> pars.off_in, off_out |-> pars.off_out, copied |-> c]
  BY Zenon DEF FilesInv, CopyAdvances
<1>4. CopiedSoFar(source, data, was, c)
  BY DEF FilesInv, CopyAdvances
<1>5. c + n <= Len(data) /\ c + n <= Len(source) /\ Len(source) \in Nat
  BY SMTT(30), <1>3
<1>6. /\ nodes' = [nodes EXCEPT ![out].data = new]
      /\ files' = <<IF pars.off_in = <<>> THEN [files[1] EXCEPT !.off = @ + n] ELSE files[1],
                    IF pars.off_out = <<>> THEN [files[2] EXCEPT !.off = @ + n] ELSE files[2]>>
  BY <1>1, <1>2, <1>3 DEF Copied
<1> HIDE DEF data, c
<1>7. part \in Seq(Nat) /\ Len(part) = n /\ \A k \in 1 .. n : part[k] = data[c + k]
  <2>1. \A k \in 1 .. n : c + k \in 1 .. Len(data)
    <3>1. c \in Nat /\ Len(data) \in Nat /\ c + n <= Len(data)
      BY <1>2, <1>3, <1>5
    <3> QED BY <3>1, WithinBounds
  <2>2. \A k \in 1 .. n : data[c + k] \in Nat
    BY <1>2, <2>1, ElementOfSeq
  <2>3. part \in [1 .. n -> Nat]
    BY <2>2
  <2> QED BY <2>3
<1> USE DEF data, c
<1> HIDE DEF part, new
<1>8. /\ new \in Seq(Nat) /\ Len(new) \in Nat
      /\ \A k \in 1 .. Len(new) :
           new[k] = IF k > c /\ k <= c + n THEN part[k - c] ELSE IF k <= Len(was) THEN was[k] ELSE 0
  <2> HIDE DEF was, c
  <2>1. /\ Overwritten(was, c, part) \in Seq(Nat)
        /\ \A k \in 1 .. Len(Overwritten(was, c, part)) :
             Overwritten(was, c, part)[k] =
               IF k > c /\ k <= c + Len(part) THEN part[k - c]
               ELSE IF k <= Len(was) THEN was[k] ELSE 0
    <3>1. was \in Seq(Nat) /\ c \in Nat /\ part \in Seq(Nat)
      BY <1>2, <1>3, <1>7
    <3> QED BY <3>1, OverwrittenData
  <2>2. new = Overwritten(was, c, part)
    BY DEF new
  <2>3. Len(new) \in Nat
    BY <2>1, <2>2, LenProperties
  <2> QED BY <1>7, <2>1, <2>2, <2>3
<1>9. /\ InUse' = InUse /\ nodes' \in [InUse -> FileRecord] /\ entries' = entries
      /\ nodes'[out].data = new /\ nodes'[in] = nodes[in]
  <2>1. [nodes[out] EXCEPT !.data = new] \in FileRecord /\ [nodes[out] EXCEPT !.data = new].data = new
    BY <1>2, <1>8 DEF FileRecord
  <2>2. nodes' = [nodes EXCEPT ![out] = [nodes[out] EXCEPT !.data = new]]
    BY <1>6
  <2> QED BY <1>1, <1>2, <2>1, <2>2 DEF InUse
<1>10. TreeTyped'
  BY <1>9 DEF FilesInv, TreeTyped
<1>11. /\ files'[1] \in [node : FileNode, off : Nat] /\ files'[2] \in [node : FileNode, off : Nat]
       /\ files'[1].node = in /\ files'[2].node = out /\ Len(files') = 2 /\ DOMAIN files' = {1, 2}
       /\ files' \in Seq([node : FileNode, off : Nat])
       /\ pars.off_in = <<>> => files'[1].off = files[1].off + n
       /\ pars.off_out = <<>> => files'[2].off = files[2].off + n
  BY SMTT(30), <1>1, <1>6
<1>12. OpenFilesStay' /\ TwoFiles'
  BY <1>1, <1>9, <1>11 DEF OpenFilesStay, TwoFiles
<1>13. CallTyped' /\ CallFits'
  BY <1>12 DEF FilesInv, CallTyped, CallFits, Idle
<1>14. FindingsAreTrue'
  BY DEF FindingsAreTrue, Notes
<1>15. pars' = [len |-> pars.len - n, off_in |-> MovedBy(n, pars.off_in),
                off_out |-> MovedBy(n, pars.off_out), copied |-> c + n]
  BY <1>3 DEF copy_file_range
<1>16. /\ pars'.len = pars.len - n /\ pars'.copied = c + n
       /\ pars'.off_in = MovedBy(n, pars.off_in) /\ pars'.off_out = MovedBy(n, pars.off_out)
  BY <1>15
<1>17. MovedBy(n, <<>>) = <<>> /\ MovedBy(n, <<c>>) = <<c + n>>
  <2>1. DOMAIN <<c>> = {1} /\ <<c>>[1] = c /\ DOMAIN <<c + n>> = {1} /\ <<c + n>>[1] = c + n
    BY SMTT(60)
  <2> QED BY <2>1 DEF MovedBy
<1>18. CopyAdvances'
  <2>1. /\ pars' = [len |-> pars'.len, off_in |-> pars'.off_in, off_out |-> pars'.off_out,
                    copied |-> pars'.copied]
    BY <1>15, <1>16
  <2>2. c + n \in Nat /\ pars.len - n \in Nat /\ (c + n) + (pars.len - n) = Len(source)
    BY SMTT(30), <1>3
  <2>3. /\ pars'.off_in \in {<<>>, <<c + n>>} /\ pars'.off_out \in {<<>>, <<c + n>>}
        /\ (pars'.off_in = <<>>) <=> (pars.off_in = <<>>)
        /\ (pars'.off_out = <<>>) <=> (pars.off_out = <<>>)
    <3>1. <<c>> # <<>> /\ <<c + n>> # <<>>
      OBVIOUS
    <3> HIDE DEF c
    <3> QED BY <1>3, <1>16, <1>17, <3>1
  <2>4. Offset(files'[1], pars'.off_in) = c + n /\ Offset(files'[2], pars'.off_out) = c + n
    BY SMTT(30), <1>3, <1>11, <2>3 DEF Offset
  <2>5. CopiedSoFar(source, data, new, c + n)
    <3> HIDE DEF c, data, source, was
    <3>1. /\ source \in Seq(Nat) /\ data \in Seq(Nat) /\ was \in Seq(Nat) /\ new \in Seq(Nat)
          /\ c \in Nat /\ n \in Nat /\ c + n <= Len(data) /\ c + n <= Len(source)
      BY <1>2, <1>3, <1>5, <1>8
    <3>2. \A k \in 1 .. n : part[k] = data[c + k]
      BY <1>7
    <3>3. \A k \in 1 .. Len(new) :
             new[k] = IF k > c /\ k <= c + n THEN part[k - c] ELSE IF k <= Len(was) THEN was[k] ELSE 0
      BY <1>8
    <3> QED BY <1>4, <3>1, <3>2, <3>3, CopyingCopies
  <2>8. calling'.op = "copy" /\ calling'.at = "copy" /\ statuses' = statuses /\ reply' = reply
    BY Zenon
  <2> HIDE DEF in, out, source, c, data, was
  <2>9. CopiedSoFar(statuses'[1].node.data, nodes'[files'[1].node].data,
                    nodes'[files'[2].node].data, pars'.copied)
    <3>1. CopiedSoFar(source, nodes'[in].data, nodes'[out].data, c + n)
      BY <1>9, <2>5 DEF data
    <3> QED BY <1>11, <1>16, <2>8, <3>1 DEF source
  <2>10. /\ pars'.copied \in Nat /\ pars'.len \in Nat
         /\ statuses'[1].node.data \in Seq(Nat)
         /\ pars'.copied + pars'.len = Len(statuses'[1].node.data)
         /\ statuses' # <<>> /\ reply' = "none"
    BY <1>3, <1>16, <2>2, <2>8 DEF source
  <2>11. /\ pars'.off_in \in {<<>>, <<pars'.copied>>} /\ pars'.off_out \in {<<>>, <<pars'.copied>>}
         /\ Offset(files'[1], pars'.off_in) = pars'.copied
         /\ Offset(files'[2], pars'.off_out) = pars'.copied
    BY <1>16, <2>3, <2>4
  <2> QED BY <2>1, <2>8, <2>9, <2>10, <2>11 DEF CopyAdvances, Offset
<1>19. AnswersWereTrue'
  BY DEF AnswersWereTrue
<1> QED BY <1>10, <1>12, <1>13, <1>14, <1>18, <1>19 DEF FilesInv

\* A copy goes on, or ends where one of the files ends.
LEMMA CopiesRangeKeeps ==
    ASSUME FilesInv, CopiesRange, UNCHANGED entries, Notes
    PROVE  FilesInv'
<1> DEFINE from == Offset(files[1], pars.off_in)
           l == Len(nodes[files[1].node].data)
           there == l - from
           most == IF there < pars.len THEN there ELSE pars.len
<1>1. calling.at = "copy" /\ calling.op = "copy" /\ TwoFiles
  BY SMTT(30) DEF FilesInv, CallFits, CopiesRange, Idle
<1>2. from = pars.copied /\ pars.copied \in Nat /\ pars.len \in Nat
  BY <1>1 DEF FilesInv, CopyAdvances
<1>3. l \in Nat /\ 1 \in DOMAIN files
  BY <1>1 DEF FilesInv, TreeTyped, OpenFilesStay, TwoFiles, FileRecord
<1>4. CASE most <= 0
  <2>1. Replies("copied") /\ nodes' = nodes
    BY <1>4 DEF CopiesRange
  <2>2. l \in Truths
    BY <1>1, <1>3 DEF Truths
  <2>3. l \in seen
    BY <2>2 DEF FilesInv, FindingsAreTrue
  <2>4. pars.len = 0 \/ l <= pars.copied
    BY <1>2, <1>3, <1>4
  <2>5. pars.len = 0 \/ \E k \in seen : k <= pars.copied
    BY <2>3, <2>4
  <2>6. calling'.op = "copy"
    BY <1>1, <2>1 DEF Replies, GoesOn, FilesInv, CallTyped
  <2>7. AnswersWereTrue'
    BY <2>6 DEF AnswersWereTrue
  <2> QED BY <1>1, <2>1, <2>5, <2>7, RepliesKeep
<1>5. CASE ~(most <= 0)
  <2>1. UNCHANGED <<calling, room, statuses, reply>>
    BY <1>5 DEF CopiesRange
  <2>2. PICK n \in 1 .. most : Copied(n) /\ copy_file_range(n)
    BY <1>5 DEF CopiesRange
  <2>3. n \in Nat \ {0} /\ n <= pars.len /\ from + n <= l
    <3>1. from \in Nat /\ l \in Nat /\ pars.len \in Nat
      BY <1>2, <1>3
    <3> HIDE DEF from, l
    <3> QED BY <1>5, <3>1
  <2>4. n \in Nat \ {0} /\ n <= pars.len /\ Offset(files[1], pars.off_in) + n <= Len(nodes[files[1].node].data)
    BY <2>3
  <2>5. Copied(n) /\ copy_file_range(n)
    BY <2>2
  <2> HIDE DEF from, l, most
  <2> QED BY <1>1, <2>1, <2>4, <2>5, CopyingKeeps
<1> QED BY <1>4, <1>5

\* What the thread does, step by step.
LEMMA CallerKeepsInv ==
    ASSUME FilesInv, CallerStep, Notes
    PROVE  FilesInv'
<1>1. ASSUME NEW p \in FilePath PROVE <<p>> \in Seq(FilePath) /\ Len(<<p>>) = 1
  OBVIOUS
<1>2. ASSUME NEW p \in FilePath, NEW q \in FilePath PROVE <<p, q>> \in Seq(FilePath) /\ Len(<<p, q>>) = 2
  OBVIOUS
<1>3. CASE \E p \in FilePath : Calls("read_symlink", "read_symlink", <<p>>)
  <2>1. PICK p \in FilePath : Calls("read_symlink", "read_symlink", <<p>>)
    BY <1>3
  <2> QED BY <1>1, <2>1, CallsKeep
<1>4. CASE \E p \in FilePath : Calls("which", "candidates", <<p>>)
  <2>1. PICK p \in FilePath : Calls("which", "candidates", <<p>>)
    BY <1>4
  <2> QED BY <1>1, <2>1, CallsKeep
<1>5. CASE \E p, q \in FilePath : Calls("compare", "open", <<p, q>>)
  <2>1. PICK p \in FilePath, q \in FilePath : Calls("compare", "open", <<p, q>>)
    BY <1>5
  <2> QED BY <1>2, <2>1, CallsKeep
<1>6. CASE \E p \in FilePath : \E q \in FilePath \ {p} : Calls("copy", "start copy", <<p, q>>)
  <2>1. PICK p \in FilePath, q \in FilePath : Calls("copy", "start copy", <<p, q>>)
    BY <1>6
  <2> QED BY <1>2, <2>1, CallsKeep
<1>7. CASE Calls("which", "candidates", SearchPath)
  <2>1. SearchPath \in Seq(FilePath)
    BY FilesAssumption
  <2> QED BY <1>7, <2>1, CallsKeep
<1>8. CASE Calls("get_working_dir", "get_working_dir", <<>>)
  <2>1. <<>> \in Seq(FilePath)
    BY EmptySeq
  <2> QED BY <1>8, <2>1, CallsKeep
<1>9. CASE /\ UNCHANGED <<fileSystem, interfered>>
           /\ \/ ReadsLink \/ GetsWorkingDir \/ OpensCandidate \/ ChecksCandidate
              \/ OpensFile \/ UpdatesFromFile \/ ComparesWithPath \/ StartsCopy
  <2>1. entries' = entries /\ nodes' = nodes
    BY <1>9 DEF fileSystem
  <2> QED BY <1>9, <2>1, ReadsLinkKeeps, GetsWorkingDirKeeps, OpensCandidateKeeps, ChecksCandidateKeeps,
             OpensFileKeeps, UpdatesFromFileKeeps, ComparesWithPathKeeps, StartsCopyKeeps
<1>10. CASE UNCHANGED <<entries, umask, cwd, interfered>> /\ CopiesRange
  BY <1>10, CopiesRangeKeeps
<1> QED BY <1>3, <1>4, <1>5, <1>6, <1>7, <1>8, <1>9, <1>10 DEF CallerStep

\* The tables of the first state are well-formed, and no call has started.
LEMMA FilesStart == InitFiles => FilesInv
<1> SUFFICES ASSUME InitFiles PROVE FilesInv
  OBVIOUS
<1>1. PICK types \in FirstFiles, paths \in [FilePath -> FileNode \union {NoNode}] :
        LET first == [n \in {paths[p] : p \in DOMAIN types} |-> CHOOSE p \in FilePath : paths[p] = n]
        IN /\ \A p \in FilePath : Exists(paths[p]) <=> p \in DOMAIN types
           /\ \E dir \in DOMAIN types :
                FilesAre(paths, [n \in DOMAIN first |-> NewNode(types[first[n]], FileModeBit,
                                    CHOOSE p \in FilePath : p # first[n], <<1, 2>>)], paths[dir])
  BY DEF InitFiles
<1> DEFINE named == {paths[p] : p \in DOMAIN types}
           first == [n \in named |-> CHOOSE p \in FilePath : paths[p] = n]
           inodes == [n \in DOMAIN first |-> NewNode(types[first[n]], FileModeBit,
                                                CHOOSE p \in FilePath : p # first[n], <<1, 2>>)]
<1>2. \A p \in FilePath : paths[p] # NoNode <=> p \in DOMAIN types
  BY <1>1 DEF Exists
<1>3. \E dir \in DOMAIN types : FilesAre(paths, inodes, paths[dir])
  BY <1>1
<1>4. DOMAIN types \subseteq FilePath /\ \A p \in DOMAIN types : types[p] \in FileT
  BY FilesAssumption
<1>5. ASSUME NEW n \in named
      PROVE  first[n] \in FilePath /\ types[first[n]] \in FileT /\ n \in FileNode
  <2>1. PICK p \in DOMAIN types : paths[p] = n
    OBVIOUS
  <2>2. first[n] \in FilePath /\ paths[first[n]] = n
    BY <1>4, <2>1
  <2>3. n # NoNode
    BY <1>2, <1>4, <2>1
  <2> QED BY <1>2, <1>4, <2>2, <2>3
<1>6. ASSUME NEW p \in FilePath PROVE (CHOOSE q \in FilePath : q # p) \in FilePath
  BY FilesAssumption
<1>7. <<1, 2>> \in Seq(Nat)
  OBVIOUS
<1>8. DOMAIN first = named
  OBVIOUS
<1> HIDE DEF first
<1>9. inodes \in [named -> FileRecord] /\ DOMAIN inodes = named
  <2>1. ASSUME NEW n \in named
        PROVE  NewNode(types[first[n]], FileModeBit, CHOOSE p \in FilePath : p # first[n], <<1, 2>>)
                 \in FileRecord
    BY <1>5, <1>6, <1>7 DEF NewNode, FileRecord, UserID
  <2> QED BY <1>8, <2>1
<1>10. paths \in [FilePath -> named \union {NoNode}] /\ named \subseteq FileNode
  BY <1>2, <1>5
<1> HIDE DEF inodes, named
<1>11. TreeTyped
  <2>1. entries = paths /\ nodes = inodes
    BY <1>3 DEF FilesAre
  <2> QED BY <1>9, <1>10, <2>1 DEF TreeTyped, InUse
<1>12. /\ calling = Idle /\ room = 0 /\ files = <<>> /\ statuses = <<>> /\ reply = "none" /\ seen = {}
       /\ pars = [len |-> 0, off_in |-> <<>>, off_out |-> <<>>, copied |-> 0]
  BY <1>3 DEF FilesAre
<1>13. OpenFilesStay
  BY <1>12, EmptySeq DEF OpenFilesStay
<1>14. CallTyped /\ CallFits
  BY <1>12, EmptySeq DEF CallTyped, CallFits, Idle
<1>15. FindingsAreTrue
  BY <1>12 DEF FindingsAreTrue, Truths, Idle
<1>16. CopyAdvances
  BY <1>12 DEF CopyAdvances, Idle
<1>17. AnswersWereTrue
  BY <1>12 DEF AnswersWereTrue, Idle
<1> QED BY <1>11, <1>13, <1>14, <1>15, <1>16, <1>17 DEF FilesInv

\* The inductive invariant: others keep the tables well-formed and only cut or
\* fill up files, and the calls note what they find.
THEOREM FilesInvariance == SpecFiles => []FilesInv
<1>1. FilesInv /\ [NextFiles]_filesVars => FilesInv'
  <2> SUFFICES ASSUME FilesInv, [NextFiles]_filesVars PROVE FilesInv'
    OBVIOUS
  <2>1. CASE NextFiles
    <3>1. Notes
      BY <2>1 DEF NextFiles, Notes
    <3> QED BY <2>1, <3>1, OthersKeepInv, CallerKeepsInv DEF NextFiles
  <2>2. CASE UNCHANGED filesVars
    <3>1. UNCHANGED <<entries, nodes, umask, cwd, calling, room, files, statuses, pars, reply, seen>>
      BY <2>2 DEF filesVars, fileSystem
    <3>2. TreeTyped' /\ OpenFilesStay' /\ CallTyped' /\ CallFits'
      BY <3>1 DEF FilesInv, TreeTyped, InUse, OpenFilesStay, CallTyped, CallFits, OneFile, TwoFiles
    <3>3. Truths' = Truths
      BY <3>1 DEF Truths, leads, isLink, usable, mayRead, InUse, PathOf, Exists
    <3>4. FindingsAreTrue'
      BY <3>1, <3>3 DEF FilesInv, FindingsAreTrue, PassedOver
    <3>5. CopyAdvances'
      BY <3>1 DEF FilesInv, CopyAdvances, Offset
    <3>6. AnswersWereTrue'
      BY <3>1 DEF FilesInv, AnswersWereTrue, PassedOver
    <3> QED BY <3>2, <3>4, <3>5, <3>6 DEF FilesInv
  <2> QED BY <2>1, <2>2
<1> QED BY <1>1, FilesStart, PTL DEF SpecFiles

\* What a call on files returns was so while the call ran, whatever others
\* changed between its system calls (read_symlink(), get_working_dir(),
\* which(), FileStatus::isSameFile()).
THEOREM CallsTellTheTruth == SpecFiles => []AnswersWereTrue
BY FilesInvariance, PTL DEF FilesInv

\* Repeated calls of copy_file_range() with the same parameters copy every byte
\* to its place, and stop early only at an end of the file.
THEOREM CopiesArriveWhole == SpecFiles => []CopiesAreExact
<1>1. FilesInv => CopiesAreExact
  BY Zenon DEF FilesInv, CopyAdvances, CopiedSoFar, CopiesAreExact
<1> QED BY <1>1, FilesInvariance, PTL

-----------------------------------------------------------------------------
(* StreamIO: bytes of a vector *)

\* The bytes up to an entry are those up to the one before, and its own.
LEMMA SumsProperties ==
    ASSUME NEW v \in Seq(Region)
    PROVE  /\ Len(v) \in Nat /\ \A i \in 1 .. Len(v) : v[i] \in Region
           /\ Sums(v) \in [0 .. Len(v) -> Nat] /\ Sums(v)[0] = 0
           /\ \A i \in 1 .. Len(v) : Sums(v)[i] = Sums(v)[i - 1] + v[i].len
<1> DEFINE N == Len(v)
           next == [p \in (1 .. N) \X Nat |-> p[2] + v[p[1]].len]
           F(c) == [k \in 0 .. N |-> IF k = 0 THEN 0 ELSE c[k - 1] + v[k].len]
           d == CHOOSE c : c = F(c)
<1>1. N \in Nat /\ \A i \in 1 .. N : v[i] \in Region /\ v[i].len \in Nat
  <2>1. N \in Nat /\ \A i \in 1 .. N : v[i] \in Region
    BY LenProperties, ElementOfSeq
  <2> HIDE DEF N
  <2> QED BY <2>1 DEF Region
<1>2. next \in [(1 .. N) \X Nat -> Nat]
  <2>1. ASSUME NEW p \in (1 .. N) \X Nat PROVE p[2] + v[p[1]].len \in Nat
    BY <1>1
  <2> QED BY <2>1
<1> HIDE DEF N
<1>3. \E c : c = F(c)
  <2>1. PICK f \in [0 .. N -> Nat] : Steps(f, N, 0, next)
    <3> DEFINE V == Nat
               first == 0
    <3>1. N \in Nat /\ first \in V /\ next \in [(1 .. N) \X V -> V]
      BY <1>1, <1>2
    <3> HIDE DEF next, V, first
    <3>2. \E f \in [0 .. N -> V] : Steps(f, N, first, next)
      BY <3>1, ChainExists
    <3> QED BY <3>2 DEF V, first
  <2>2. ASSUME NEW k \in 0 .. N PROVE f[k] = F(f)[k]
    <3>1. CASE k = 0
      BY <2>1, <3>1 DEF Steps
    <3>2. CASE k # 0
      <4>1. k \in 1 .. N /\ k - 1 \in 0 .. N
        BY <1>1, <3>2
      <4>2. f[k] = next[<<k, f[k - 1]>>]
        <5> HIDE DEF next
        <5> QED BY <2>1, <4>1 DEF Steps
      <4>3. <<k, f[k - 1]>> \in (1 .. N) \X Nat
        BY <2>1, <4>1
      <4>4. next[<<k, f[k - 1]>>] = f[k - 1] + v[k].len
        BY <4>3
      <4> QED BY <3>2, <4>2, <4>4
    <3> QED BY <3>1, <3>2
  <2>3. f = F(f)
    <3>1. F(f) = [k \in 0 .. N |-> F(f)[k]] /\ f = [k \in 0 .. N |-> f[k]]
      BY <2>1
    <3> HIDE DEF F
    <3> QED BY <2>2, <3>1
  <2> QED BY <2>3
<1>4. d = F(d)
  <2> HIDE DEF F
  <2> QED BY <1>3
<1>5. Sums(v) = d
  BY DEF Sums, N
<1> HIDE DEF d
<1>6. d[0] = 0 /\ \A k \in 1 .. N : d[k] = d[k - 1] + v[k].len
  <2>1. 0 \in 0 .. N /\ \A k \in 1 .. N : k \in 0 .. N /\ k # 0
    BY <1>1
  <2> QED BY <1>4, <2>1
<1>7. \A k \in 0 .. N : d[k] \in Nat
  <2> DEFINE T == {k \in 0 .. N : d[k] \in Nat}
  <2>1. 0 \in T
    BY <1>1, <1>6
  <2>2. ASSUME NEW k \in 1 .. N, k - 1 \in T PROVE k \in T
    BY SMTT(30), <1>1, <1>6, <2>2
  <2> HIDE DEF T
  <2>3. 0 .. N \subseteq T
    BY <1>1, <2>1, <2>2, StepByStep
  <2> QED BY <2>3 DEF T
<1>8. d \in [0 .. N -> Nat]
  <2>1. d = [k \in 0 .. N |-> d[k]]
    BY <1>4
  <2> QED BY <1>7, <2>1
<1> QED BY <1>1, <1>5, <1>6, <1>8 DEF N

\* Later entries end later.
LEMMA SumsGrow ==
    ASSUME NEW v \in Seq(Region), NEW i \in 0 .. Len(v), NEW j \in i .. Len(v)
    PROVE  Sums(v)[i] <= Sums(v)[j]
<1> DEFINE N == Len(v)
           S == Sums(v)
           T == {k \in 0 .. N : i <= k => S[i] <= S[k]}
<1>1. N \in Nat /\ S \in [0 .. N -> Nat] /\ \A k \in 1 .. N : v[k].len \in Nat /\ S[k] = S[k - 1] + v[k].len
  BY SumsProperties DEF Region
<1> HIDE DEF S, N
<1>2. 0 \in T
  BY <1>1 DEF N
<1>3. ASSUME NEW k \in 1 .. N, k - 1 \in T PROVE k \in T
  <2>1. k \in 0 .. N /\ k - 1 \in 0 .. N /\ i \in 0 .. N
    BY <1>1 DEF N
  <2>2. S[k - 1] \in Nat /\ S[i] \in Nat /\ S[k] = S[k - 1] + v[k].len /\ v[k].len \in Nat
    BY <1>1, <2>1
  <2>3. CASE i = k
    BY <2>1, <2>2, <2>3
  <2>4. CASE i # k
    <3>1. i <= k => i <= k - 1
      BY <1>1, <2>1, <2>4 DEF N
    <3>2. i <= k => S[i] <= S[k - 1]
      BY <1>3, <3>1
    <3> QED BY <2>1, <2>2, <3>2
  <2> QED BY <2>3, <2>4
<1> HIDE DEF T
<1>4. 0 .. N \subseteq T
  BY <1>1, <1>2, <1>3, StepByStep
<1>5. j \in 0 .. N /\ i <= j
  BY <1>1 DEF N
<1> QED BY <1>4, <1>5 DEF T, S

\* Every byte is in an entry.
LEMMA EntryExists ==
    ASSUME NEW v \in Seq(Region), NEW k \in 1 .. leftBytes(v)
    PROVE  \E i \in 1 .. Len(v) : Sums(v)[i - 1] < k /\ k <= Sums(v)[i]
<1> DEFINE N == Len(v)
           S == Sums(v)
           T == {i \in 0 .. N : k <= S[i]}
<1>1. N \in Nat /\ S \in [0 .. N -> Nat] /\ S[0] = 0
  BY SumsProperties
<1>2. S[N] = leftBytes(v)
  BY DEF leftBytes
<1> HIDE DEF S, N
<1>3. S[N] \in Nat /\ N \in 0 .. N
  BY <1>1
<1>4. T # {} /\ T \subseteq Nat
  BY SMTT(30), <1>1, <1>2, <1>3
<1>5. PICK m \in T : \A i \in T : m <= i
  BY <1>4, LeastNatural
<1>6. m # 0 /\ m \in 0 .. N /\ k \in Nat \ {0}
  BY <1>1, <1>2, <1>3, <1>5
<1>7. m \in 1 .. N /\ m - 1 \in 0 .. N /\ ~(m <= m - 1)
  BY <1>1, <1>6
<1>8. m - 1 \notin T
  BY <1>5, <1>7
<1>9. S[m - 1] \in Nat /\ ~(k <= S[m - 1]) /\ k <= S[m]
  BY <1>1, <1>5, <1>7, <1>8
<1> QED BY <1>6, <1>7, <1>9 DEF S, N

\* The addresses of a vector are those of the bytes of its entries.
LEMMA AddressesProperties ==
    ASSUME NEW v \in Seq(Region)
    PROVE  /\ leftBytes(v) \in Nat /\ Addresses(v) \in Seq(Nat) /\ Len(Addresses(v)) = leftBytes(v)
           /\ \A k \in 1 .. leftBytes(v) : \A i \in 1 .. Len(v) :
                 Sums(v)[i - 1] < k /\ k <= Sums(v)[i] =>
                    Addresses(v)[k] = v[i].base + k - 1 - Sums(v)[i - 1]
<1> DEFINE N == Len(v)
           S == Sums(v)
           B == leftBytes(v)
           In(k, i) == S[i - 1] < k /\ k <= S[i]
           Entry(k) == CHOOSE i \in DOMAIN v : In(k, i)
<1>1. N \in Nat /\ DOMAIN v = 1 .. N /\ S \in [0 .. N -> Nat] /\ \A i \in 1 .. N : v[i] \in Region /\ v[i].base \in Nat
  BY SumsProperties, LenProperties DEF Region
<1>2. B = S[N] /\ B \in Nat
  <2>1. B = S[N]
    BY DEF leftBytes
  <2> HIDE DEF B, S, N
  <2> QED BY <1>1, <2>1
<1>3. Addresses(v) = [k \in 1 .. B |-> v[Entry(k)].base + k - 1 - S[Entry(k) - 1]]
  BY DEF Addresses
<1>4. \A k \in 1 .. B : \E i \in 1 .. N : In(k, i)
  BY EntryExists
<1>5. ASSUME NEW k \in 1 .. B, NEW i \in 1 .. N, NEW j \in 1 .. N, In(k, i), In(k, j) PROVE ~(i < j)
  <2> SUFFICES ASSUME i < j PROVE FALSE
    OBVIOUS
  <2>1. i \in 0 .. N /\ j - 1 \in i .. N
    BY <1>1
  <2>2. S[i] <= S[j - 1]
    BY <2>1, SumsGrow
  <2> HIDE DEF S, N, B
  <2>3. S[i] \in Nat /\ S[j - 1] \in Nat /\ k \in Nat
    BY <1>1, <1>2, <2>1
  <2> QED BY <1>5, <2>2, <2>3
<1> HIDE DEF S, N, B
<1>6. ASSUME NEW k \in 1 .. B, NEW i \in 1 .. N, In(k, i) PROVE Entry(k) = i
  <2>1. \A j \in 1 .. N : In(k, j) => i = j
    BY <1>1, <1>5, <1>6
  <2> HIDE DEF In
  <2>2. Entry(k) \in 1 .. N /\ In(k, Entry(k))
    BY <1>1, <1>6
  <2> QED BY <2>1, <2>2
<1>7. ASSUME NEW k \in 1 .. B
      PROVE  v[Entry(k)].base + k - 1 - S[Entry(k) - 1] \in Nat
  <2>1. PICK i \in 1 .. N : In(k, i)
    BY <1>4
  <2>2. Entry(k) = i
    BY <1>6, <2>1
  <2>3. i - 1 \in 0 .. N /\ S[i - 1] \in Nat /\ v[i].base \in Nat /\ k \in Nat
    BY <1>1, <1>2
  <2> HIDE DEF Entry
  <2> QED BY SMTT(30), <2>1, <2>2, <2>3
<1> HIDE DEF In, Entry
<1>8. Addresses(v) \in [1 .. B -> Nat]
  BY <1>3, <1>7
<1>9. Addresses(v) \in Seq(Nat) /\ Len(Addresses(v)) = B
  BY <1>2, <1>8
<1>10. ASSUME NEW k \in 1 .. B, NEW i \in 1 .. N, In(k, i)
       PROVE  Addresses(v)[k] = v[i].base + k - 1 - S[i - 1]
  BY <1>3, <1>6, <1>10
<1> QED BY <1>2, <1>9, <1>10 DEF B, S, N, In

\* What the loop of update() has left after each entry.
LEMMA UnaccountedProperties ==
    ASSUME NEW v \in Seq(Region), NEW n \in Nat
    PROVE  \A i \in 0 .. Len(v) :
              Unaccounted(v, n)[i] = IF n <= Sums(v)[i] THEN 0 ELSE n - Sums(v)[i]
<1> DEFINE N == Len(v)
           S == Sums(v)
           g == [i \in 0 .. N |-> IF n <= S[i] THEN 0 ELSE n - S[i]]
           F(c) == [k \in 0 .. N |-> IF k = 0 THEN n ELSE c[k - 1] - Smaller(c[k - 1], v[k].len)]
           d == CHOOSE c : c = F(c)
<1>1. N \in Nat /\ S \in [0 .. N -> Nat] /\ S[0] = 0
      /\ \A i \in 1 .. N : v[i].len \in Nat /\ S[i] = S[i - 1] + v[i].len
  BY SumsProperties DEF Region
<1> HIDE DEF S, N
<1>2. g \in [0 .. N -> Nat] /\ g[0] = n
  <2>1. ASSUME NEW i \in 0 .. N PROVE (IF n <= S[i] THEN 0 ELSE n - S[i]) \in Nat
    <3>1. S[i] \in Nat
      BY <1>1
    <3> QED BY <3>1
  <2>2. 0 \in 0 .. N
    BY <1>1
  <2> QED BY <1>1, <2>1, <2>2
<1>3. ASSUME NEW k \in 1 .. N PROVE g[k] = g[k - 1] - Smaller(g[k - 1], v[k].len)
  <2>1. k \in 0 .. N /\ k - 1 \in 0 .. N /\ S[k] \in Nat /\ S[k - 1] \in Nat
        /\ v[k].len \in Nat /\ S[k] = S[k - 1] + v[k].len
    <3>1. k \in 0 .. N /\ k - 1 \in 0 .. N
      BY <1>1
    <3>2. v[k].len \in Nat /\ S[k] = S[k - 1] + v[k].len
      BY <1>1
    <3> QED BY <1>1, <3>1, <3>2
  <2>2. g[k] = (IF n <= S[k] THEN 0 ELSE n - S[k]) /\ g[k - 1] = (IF n <= S[k - 1] THEN 0 ELSE n - S[k - 1])
    BY <2>1
  <2> HIDE DEF g
  <2> DEFINE a == S[k - 1]
             b == v[k].len
  <2>3. a \in Nat /\ b \in Nat /\ S[k] = a + b /\ g[k - 1] = (IF n <= a THEN 0 ELSE n - a)
    BY <2>1, <2>2
  <2> HIDE DEF a
  <2>4. Smaller(g[k - 1], b) = IF g[k - 1] < b THEN g[k - 1] ELSE b
    BY DEF Smaller
  <2> HIDE DEF b
  <2> SUFFICES g[k] = g[k - 1] - Smaller(g[k - 1], b)
    BY DEF b
  <2> QED BY <2>2, <2>3, <2>4
<1>4. \E c : c = F(c)
  <2>1. ASSUME NEW k \in 0 .. N PROVE g[k] = F(g)[k]
    <3>1. CASE k = 0
      BY <1>2, <3>1
    <3>2. CASE k # 0
      <4>1. k \in 1 .. N
        BY <1>1, <3>2
      <4>2. g[k] = g[k - 1] - Smaller(g[k - 1], v[k].len)
        BY <1>3, <4>1
      <4> HIDE DEF g
      <4> QED BY <3>2, <4>2
    <3> QED BY <3>1, <3>2
  <2>2. F(g) = [k \in 0 .. N |-> F(g)[k]] /\ g = [k \in 0 .. N |-> g[k]]
    BY <1>2
  <2> HIDE DEF F, g
  <2> QED BY <2>1, <2>2
<1>5. d = F(d)
  <2> HIDE DEF F
  <2> QED BY <1>4
<1>6. Unaccounted(v, n) = d
  BY DEF Unaccounted, N
<1> HIDE DEF d
<1>7. \A k \in 0 .. N : d[k] = g[k]
  <2> DEFINE T == {k \in 0 .. N : d[k] = g[k]}
  <2>1. 0 \in T
    BY <1>1, <1>2, <1>5
  <2>2. ASSUME NEW k \in 1 .. N, k - 1 \in T PROVE k \in T
    <3>1. k \in 0 .. N /\ k # 0
      BY <1>1
    <3>2. d[k] = d[k - 1] - Smaller(d[k - 1], v[k].len)
      BY <1>5, <3>1
    <3>3. d[k - 1] = g[k - 1]
      BY <2>2
    <3> HIDE DEF g
    <3> QED BY <1>3, <3>1, <3>2, <3>3
  <2> HIDE DEF T
  <2>3. 0 .. N \subseteq T
    BY <1>1, <2>1, <2>2, StepByStep
  <2> QED BY <2>3 DEF T
<1> QED BY <1>6, <1>7 DEF N, S

\* What update() leaves of each entry, and that nothing is left to account for:
\* its exception for an inconsistency is never thrown.
LEMMA UpdateProperties ==
    ASSUME NEW v \in Seq(Region), NEW n \in 0 .. leftBytes(v)
    PROVE  /\ update(v, n) \in Seq(Region) /\ Len(update(v, n)) = Len(v)
           /\ Unaccounted(v, n)[Len(v)] = 0
           /\ \A i \in 0 .. Len(v) :
                 Sums(update(v, n))[i] = IF Sums(v)[i] <= n THEN 0 ELSE Sums(v)[i] - n
           /\ \A i \in 1 .. Len(v) : n < Sums(v)[i] =>
                 update(v, n)[i].base =
                    v[i].base + (IF n <= Sums(v)[i - 1] THEN 0 ELSE n - Sums(v)[i - 1])
<1> DEFINE N == Len(v)
           S == Sums(v)
           L == Unaccounted(v, n)
           u == update(v, n)
           R == Sums(u)
<1>1. N \in Nat /\ DOMAIN v = 1 .. N /\ S \in [0 .. N -> Nat] /\ S[0] = 0
      /\ \A i \in 1 .. N : v[i].len \in Nat /\ v[i].base \in Nat /\ S[i] = S[i - 1] + v[i].len
  BY SumsProperties, LenProperties DEF Region
<1>2. leftBytes(v) = S[N]
  BY DEF leftBytes
<1>3. n \in Nat /\ n <= S[N]
  <2>1. leftBytes(v) \in Nat
    BY AddressesProperties
  <2> HIDE DEF S, N
  <2> QED BY <1>2, <2>1
<1>4. \A i \in 0 .. N : L[i] = IF n <= S[i] THEN 0 ELSE n - S[i]
  BY <1>3, UnaccountedProperties
<1>5. u = [i \in 1 .. N |-> advance(v[i], L[i - 1])]
  BY <1>1 DEF update
<1> HIDE DEF S, N, L, u
<1>6. ASSUME NEW i \in 1 .. N
      PROVE  /\ u[i] \in Region /\ S[i - 1] \in Nat /\ S[i] \in Nat /\ i \in 0 .. N /\ i - 1 \in 0 .. N
             /\ u[i].len = IF n <= S[i - 1] THEN v[i].len ELSE IF n < S[i] THEN S[i] - n ELSE 0
             /\ n < S[i] => u[i].base = v[i].base + (IF n <= S[i - 1] THEN 0 ELSE n - S[i - 1])
  <2>1. i \in 0 .. N /\ i - 1 \in 0 .. N /\ S[i - 1] \in Nat /\ S[i] \in Nat
    BY <1>1
  <2> DEFINE l == L[i - 1]
             a == S[i - 1]
             b == v[i].len
             t == Smaller(l, b)
  <2>2. u[i] = [base |-> v[i].base + t, len |-> b - t]
    BY <1>5 DEF advance
  <2>3. t = IF l < b THEN l ELSE b
    BY DEF Smaller
  <2>4. l = IF n <= a THEN 0 ELSE n - a
    BY <1>4, <2>1
  <2>5. a \in Nat /\ b \in Nat /\ S[i] = a + b /\ v[i].base \in Nat
    BY <1>1, <2>1
  <2> HIDE DEF a, b, l, t
  <2>6. t \in Nat /\ b - t \in Nat
    BY <1>3, <2>3, <2>4, <2>5
  <2>7. u[i] \in Region /\ u[i].len = b - t /\ u[i].base = v[i].base + t
    <3> DEFINE c == v[i].base + t
               r == b - t
    <3>1. c \in Nat /\ r \in Nat /\ u[i] = [base |-> c, len |-> r]
      BY SMTT(30), <2>2, <2>5, <2>6
    <3> HIDE DEF c, r
    <3>2. u[i] \in Region /\ u[i].len = r /\ u[i].base = c
      BY <3>1 DEF Region
    <3> QED BY <3>2 DEF c, r
  <2>8. b - t = IF n <= a THEN b ELSE IF n < S[i] THEN S[i] - n ELSE 0
    BY <1>3, <2>3, <2>4, <2>5
  <2>9. n < S[i] => t = IF n <= a THEN 0 ELSE n - a
    BY <1>3, <2>3, <2>4, <2>5
  <2> QED BY <2>1, <2>7, <2>8, <2>9 DEF a, b
<1>7. u \in Seq(Region) /\ Len(u) = N
  <2>1. u \in [1 .. N -> Region]
    <3>1. u = [i \in 1 .. N |-> u[i]]
      BY <1>5
    <3> QED BY <1>6, <3>1
  <2>2. ASSUME NEW E, u \in [1 .. N -> E] PROVE u \in Seq(E) /\ Len(u) = N
    BY <1>1, <2>2
  <2> QED BY <2>1, <2>2
<1>8. R \in [0 .. N -> Nat] /\ R[0] = 0 /\ \A i \in 1 .. N : R[i] = R[i - 1] + u[i].len
  BY <1>7, SumsProperties
<1> HIDE DEF R
<1> DEFINE Left(i) == IF S[i] <= n THEN 0 ELSE S[i] - n
<1>9. \A i \in 0 .. N : R[i] = Left(i)
  <2> DEFINE T == {i \in 0 .. N : R[i] = Left(i)}
  <2>1. 0 \in T
    BY <1>1, <1>3, <1>8
  <2>2. ASSUME NEW i \in 1 .. N, i - 1 \in T PROVE i \in T
    <3>1. R[i - 1] = Left(i - 1) /\ R[i] = R[i - 1] + u[i].len
      BY <1>8, <2>2
    <3>2. S[i] = S[i - 1] + v[i].len /\ v[i].len \in Nat
      BY <1>1
    <3> DEFINE a == S[i - 1]
               b == v[i].len
    <3>3. a \in Nat /\ b \in Nat /\ S[i] = a + b /\ R[i - 1] = (IF a <= n THEN 0 ELSE a - n)
          /\ u[i].len = IF n <= a THEN b ELSE IF n < S[i] THEN S[i] - n ELSE 0
      BY <1>6, <3>1, <3>2
    <3> HIDE DEF a, b
    <3>4. R[i] = IF S[i] <= n THEN 0 ELSE S[i] - n
      BY <1>3, <3>1, <3>3
    <3> QED BY <1>6, <3>4
  <2> HIDE DEF T
  <2>3. 0 .. N \subseteq T
    BY <1>1, <2>1, <2>2, StepByStep
  <2> QED BY <2>3 DEF T
<1>10. L[N] = 0
  <2>1. N \in 0 .. N
    BY <1>1
  <2> QED BY <1>3, <1>4, <2>1
<1> QED BY <1>6, <1>7, <1>9, <1>10 DEF S, N, L, u, R

\* update() leaves the bytes that come after those that were processed.
LEMMA UpdateResumes ==
    ASSUME NEW v \in Seq(Region), NEW n \in 0 .. leftBytes(v)
    PROVE  /\ update(v, n) \in Seq(Region)
           /\ leftBytes(update(v, n)) = leftBytes(v) - n
           /\ \A k \in 1 .. leftBytes(v) - n : Addresses(update(v, n))[k] = Addresses(v)[n + k]
<1> DEFINE N == Len(v)
           S == Sums(v)
           u == update(v, n)
           R == Sums(u)
           B == leftBytes(v)
<1>1. N \in Nat /\ S \in [0 .. N -> Nat] /\ S[0] = 0 /\ B \in Nat /\ \A i \in 1 .. N : v[i].base \in Nat
  BY Zenon, SumsProperties, AddressesProperties DEF Region
<1>2. B = S[N]
  BY DEF leftBytes
<1>3. /\ u \in Seq(Region) /\ Len(u) = N
      /\ \A i \in 0 .. N : R[i] = IF S[i] <= n THEN 0 ELSE S[i] - n
      /\ \A i \in 1 .. N : n < S[i] => u[i].base = v[i].base + (IF n <= S[i - 1] THEN 0 ELSE n - S[i - 1])
  BY UpdateProperties
<1> HIDE DEF u, N
<1>4. leftBytes(u) = R[N]
  BY <1>3 DEF leftBytes
<1>5. /\ \A k \in 1 .. B : \A i \in 1 .. N :
            S[i - 1] < k /\ k <= S[i] => Addresses(v)[k] = v[i].base + k - 1 - S[i - 1]
      /\ \A k \in 1 .. leftBytes(u) : \A i \in 1 .. N :
            R[i - 1] < k /\ k <= R[i] => Addresses(u)[k] = u[i].base + k - 1 - R[i - 1]
  BY <1>3, AddressesProperties DEF N
<1>6. \A k \in 1 .. leftBytes(u) : \E i \in 1 .. N : R[i - 1] < k /\ k <= R[i]
  BY <1>3, EntryExists
<1> HIDE DEF S, R, B
<1>7. n \in Nat /\ n <= B /\ N \in 0 .. N
  BY <1>1 DEF B
<1>8. leftBytes(u) = B - n
  BY <1>1, <1>2, <1>3, <1>4, <1>7
<1>9. ASSUME NEW k \in 1 .. B - n PROVE Addresses(u)[k] = Addresses(v)[n + k]
  <2>1. k \in 1 .. leftBytes(u) /\ n + k \in 1 .. B /\ k \in Nat /\ k >= 1
    BY <1>1, <1>7, <1>8
  <2>2. PICK i \in 1 .. N : R[i - 1] < k /\ k <= R[i]
    BY <1>6, <2>1
  <2>3. i \in 0 .. N /\ i - 1 \in 0 .. N /\ S[i] \in Nat /\ S[i - 1] \in Nat /\ v[i].base \in Nat
    BY <1>1
  <2>4. R[i] = (IF S[i] <= n THEN 0 ELSE S[i] - n) /\ R[i - 1] = (IF S[i - 1] <= n THEN 0 ELSE S[i - 1] - n)
    BY <1>3, <2>3
  <2> DEFINE a == S[i - 1]
             b == S[i]
             c == v[i].base
  <2>5. a \in Nat /\ b \in Nat /\ c \in Nat
        /\ R[i] = (IF b <= n THEN 0 ELSE b - n) /\ R[i - 1] = (IF a <= n THEN 0 ELSE a - n)
    BY <2>3, <2>4
  <2>6. n < b => u[i].base = c + (IF n <= a THEN 0 ELSE n - a)
    BY <1>3
  <2> HIDE DEF a, b, c
  <2>7. n < b /\ a < n + k /\ n + k <= b
    BY <1>7, <2>1, <2>2, <2>5
  <2>8. Addresses(u)[k] = u[i].base + k - 1 - R[i - 1]
    BY <1>5, <2>1, <2>2
  <2>9. Addresses(v)[n + k] = c + (n + k) - 1 - a
    BY <1>5, <2>1, <2>7 DEF a, b, c
  <2> DEFINE r == R[i - 1]
             e == u[i].base
  <2>10. e + k - 1 - r = c + (n + k) - 1 - a
    <3>1. r = (IF a <= n THEN 0 ELSE a - n) /\ e = c + (IF n <= a THEN 0 ELSE n - a)
      BY <2>5, <2>6, <2>7
    <3> HIDE DEF r, e
    <3>2. CASE n <= a
      <4>1. r = a - n /\ e = c
        BY <1>7, <2>5, <3>1, <3>2
      <4> QED BY <1>7, <2>1, <2>5, <4>1
    <3>3. CASE a < n
      <4>1. r = 0 /\ e = c + (n - a)
        BY <1>7, <2>5, <3>1, <3>3
      <4> QED BY <1>7, <2>1, <2>5, <4>1
    <3> QED BY <1>7, <2>5, <3>2, <3>3
  <2> QED BY <2>8, <2>9, <2>10
<1> QED BY <1>3, <1>8, <1>9 DEF u, B

\* A vector that is finished has no bytes.
LEMMA FinishedIsEmpty ==
    ASSUME NEW v \in Seq(Region), vec_finished(v)
    PROVE  leftBytes(v) = 0
<1> DEFINE N == Len(v)
           S == Sums(v)
           T == {i \in 0 .. N : S[i] = 0}
<1>1. N \in Nat /\ S[0] = 0 /\ \A i \in 1 .. N : v[i].len = 0 /\ S[i] = S[i - 1] + v[i].len
  BY SumsProperties, LenProperties DEF vec_finished, finished
<1> HIDE DEF N, S
<1>2. 0 \in T
  BY <1>1
<1>3. ASSUME NEW i \in 1 .. N, i - 1 \in T PROVE i \in T
  BY <1>1, <1>3
<1> HIDE DEF T
<1>4. 0 .. N \subseteq T /\ N \in 0 .. N
  <2>1. N \in Nat /\ N \in 0 .. N
    BY <1>1
  <2> QED BY <1>2, <1>3, <2>1, StepByStep
<1>5. S[N] = 0
  BY <1>4 DEF T
<1> QED BY <1>5 DEF leftBytes, S, N

-----------------------------------------------------------------------------
(* StreamIO: the bytes in the pipe and in the memory of the reader *)

\* Where the bytes come from and where they go, byte by byte.
From == Addresses(wanted["writer"])
Into == Addresses(wanted["reader"])

\* The number of bytes that a side has transferred.
Done(s) == leftBytes(wanted[s]) - leftBytes(vec[s])

\* What is left of a vector is its end, and all of it is done on return.
VectorsFit ==
    /\ wanted \in [Side -> Seq(Region)] /\ wanted["reader"] \in ReadVectors
    /\ \A s \in Side :
          /\ leftBytes(vec[s]) <= leftBytes(wanted[s])
          /\ \A k \in 1 .. leftBytes(vec[s]) : Addresses(vec[s])[k] = Addresses(wanted[s])[Done(s) + k]
          /\ progress[s] = "returned" => leftBytes(vec[s]) = 0

\* The bytes that were written and not yet read are in the pipe, and those
\* that were read are where they belong.
BytesFit ==
    /\ Done("reader") + Len(pipe) = Done("writer")
    /\ \A k \in 1 .. Len(pipe) : pipe[k] = From[Done("reader") + k]
    /\ \A k \in 1 .. Done("reader") : mem[Into[k]] = From[k]
    /\ \A a \in ReaderMemory : mem[a] # 0 => \E k \in 1 .. Done("reader") : a = Into[k]

StreamInv == StreamTypeOK /\ VectorsFit /\ BytesFit

\* The numbers that the invariant speaks of.
LEMMA StreamNumbers ==
    ASSUME StreamTypeOK, VectorsFit
    PROVE  /\ \A s \in Side :
                 /\ vec[s] \in Seq(Region) /\ wanted[s] \in Seq(Region)
                 /\ leftBytes(vec[s]) \in Nat /\ leftBytes(wanted[s]) \in Nat /\ Done(s) \in Nat
                 /\ Addresses(wanted[s]) \in Seq(Nat) /\ Len(Addresses(wanted[s])) = leftBytes(wanted[s])
                 /\ Addresses(vec[s]) \in Seq(Nat) /\ Len(Addresses(vec[s])) = leftBytes(vec[s])
           /\ Len(pipe) \in Nat
           /\ \A k \in 1 .. leftBytes(wanted["reader"]) : Into[k] \in ReaderMemory
<1>1. ASSUME NEW s \in Side
      PROVE  /\ vec[s] \in Seq(Region) /\ wanted[s] \in Seq(Region)
             /\ leftBytes(vec[s]) \in Nat /\ leftBytes(wanted[s]) \in Nat /\ Done(s) \in Nat
             /\ Addresses(wanted[s]) \in Seq(Nat) /\ Len(Addresses(wanted[s])) = leftBytes(wanted[s])
             /\ Addresses(vec[s]) \in Seq(Nat) /\ Len(Addresses(vec[s])) = leftBytes(vec[s])
  <2>1. vec[s] \in Seq(Region) /\ wanted[s] \in Seq(Region) /\ leftBytes(vec[s]) <= leftBytes(wanted[s])
    BY DEF StreamTypeOK, VectorsFit
  <2>2. leftBytes(vec[s]) \in Nat /\ leftBytes(wanted[s]) \in Nat
    BY <2>1, AddressesProperties
  <2>3. Done(s) \in Nat
    BY <2>1, <2>2 DEF Done
  <2> QED BY <2>1, <2>2, <2>3, AddressesProperties
<1>2. ASSUME NEW k \in 1 .. leftBytes(wanted["reader"]) PROVE Into[k] \in ReaderMemory
  <2>1. "reader" \in Side
    BY DEF Side
  <2>2. Into \in Seq(Nat) /\ Len(Into) = leftBytes(wanted["reader"])
    BY <1>1, <2>1 DEF Into
  <2>3. DOMAIN Into = 1 .. leftBytes(wanted["reader"])
    BY <2>2, LenProperties
  <2>4. Into[k] \in Range(Into)
    BY <2>3 DEF Range
  <2>5. wanted["reader"] \in ReadVectors
    BY DEF VectorsFit
  <2> QED BY <2>4, <2>5 DEF ReaderMemory, Into
<1>3. Len(pipe) \in Nat
  BY LenProperties DEF StreamTypeOK
<1> QED BY <1>1, <1>2, <1>3

\* Nothing is transferred at first.
LEMMA InitStreamInv == InitStream => StreamInv
<1> SUFFICES ASSUME InitStream PROVE StreamInv
  OBVIOUS
<1>1. wanted \in [Side -> Seq(Region)] /\ wanted["reader"] \in ReadVectors /\ vec = wanted
  <2>1. WriteVectors \union ReadVectors \subseteq Seq(Region)
    BY StreamIOAssumption
  <2> QED BY <2>1 DEF InitStream
<1>2. \A s \in Side : wanted[s] \in Seq(Region) /\ leftBytes(vec[s]) \in Nat /\ vec[s] = wanted[s]
  <2> SUFFICES ASSUME NEW s \in Side
               PROVE  wanted[s] \in Seq(Region) /\ leftBytes(vec[s]) \in Nat /\ vec[s] = wanted[s]
    OBVIOUS
  <2>1. wanted[s] \in Seq(Region) /\ vec[s] = wanted[s]
    BY <1>1
  <2> QED BY <2>1, AddressesProperties
<1>3. \A s \in Side : Done(s) = 0
  BY <1>2 DEF Done
<1>4. "reader" \in Side /\ "writer" \in Side
  BY DEF Side
<1>5. StreamTypeOK
  <2>1. mem = [a \in ReaderMemory |-> 0] /\ pipe = <<>> /\ open = Side
        /\ setting \in Settings /\ kind \in [Side -> Kind]
        /\ progress \in [Side -> {"returned", "looping"}]
    BY DEF InitStream
  <2>2. pipe \in Seq(Nat) /\ Len(pipe) <= Capacity
    BY <2>1, StreamIOAssumption
  <2> QED BY <1>1, <2>1, <2>2 DEF StreamTypeOK
<1>6. VectorsFit
  <2>1. ASSUME NEW s \in Side
        PROVE  /\ leftBytes(vec[s]) <= leftBytes(wanted[s])
               /\ \A k \in 1 .. leftBytes(vec[s]) : Addresses(vec[s])[k] = Addresses(wanted[s])[Done(s) + k]
               /\ progress[s] = "returned" => leftBytes(vec[s]) = 0
    <3>1. vec[s] = wanted[s] /\ leftBytes(vec[s]) \in Nat /\ Done(s) = 0 /\ vec[s] \in Seq(Region)
      BY <1>2, <1>3
    <3>2. \A k \in 1 .. leftBytes(vec[s]) : Done(s) + k = k
      BY <3>1
    <3>3. progress[s] = "returned" => vec_finished(wanted[s])
      BY DEF InitStream
    <3>4. progress[s] = "returned" => leftBytes(vec[s]) = 0
      BY <3>1, <3>3, FinishedIsEmpty
    <3>5. leftBytes(vec[s]) <= leftBytes(wanted[s])
      BY <3>1
    <3> QED BY <3>1, <3>2, <3>4, <3>5
  <2> QED BY <1>1, <2>1 DEF VectorsFit
<1>7. BytesFit
  <2>1. pipe = <<>> /\ Len(pipe) = 0 /\ Done("reader") = 0 /\ Done("writer") = 0
    BY <1>3, <1>4 DEF InitStream
  <2>2. \A a \in ReaderMemory : mem[a] = 0
    BY DEF InitStream
  <2> QED BY <2>1, <2>2 DEF BytesFit
<1> QED BY <1>5, <1>6, <1>7 DEF StreamInv

\* Nothing but the progress and the open ends changes.
LEMMA SameBytes ==
    ASSUME StreamInv, UNCHANGED <<setting, kind, wanted, vec, mem, pipe>>, open' \subseteq Side,
           progress' \in [Side -> {"looping", "thrown", "returned", "failed"}],
           \A s \in Side : progress'[s] = "returned" => progress[s] = "returned"
    PROVE  StreamInv'
<1>1. StreamTypeOK'
  BY DEF StreamInv, StreamTypeOK, ReaderMemory
<1>2. \A s : Done(s)' = Done(s)
  BY DEF Done
<1>3. VectorsFit'
  BY <1>2 DEF StreamInv, VectorsFit
<1>4. BytesFit'
  BY <1>2 DEF StreamInv, BytesFit, From, Into, ReaderMemory
<1> QED BY <1>1, <1>3, <1>4 DEF StreamInv

\* A side accounts for n bytes: the other one stays as it is.
LEMMA AccountKeeps ==
    ASSUME StreamInv, NEW s \in Side, NEW n \in 0 .. leftBytes(vec[s]), Account(s, n), wanted' = wanted
    PROVE  /\ vec' \in [Side -> Seq(Region)] /\ VectorsFit'
           /\ progress' \in [Side -> {"looping", "thrown", "returned", "failed"}]
           /\ Done(s)' = Done(s) + n
           /\ \A t \in Side \ {s} : Done(t)' = Done(t)
<1> DEFINE v == update(vec[s], n)
<1>1. /\ vec[s] \in Seq(Region) /\ leftBytes(vec[s]) \in Nat /\ leftBytes(wanted[s]) \in Nat
      /\ leftBytes(vec[s]) <= leftBytes(wanted[s])
      /\ \A k \in 1 .. leftBytes(vec[s]) : Addresses(vec[s])[k] = Addresses(wanted[s])[Done(s) + k]
      /\ vec \in [Side -> Seq(Region)] /\ progress \in [Side -> {"looping", "thrown", "returned", "failed"}]
      /\ Done(s) \in Nat
  BY StreamNumbers DEF StreamInv, StreamTypeOK, VectorsFit
<1>2. /\ v \in Seq(Region) /\ leftBytes(v) = leftBytes(vec[s]) - n
      /\ \A k \in 1 .. leftBytes(vec[s]) - n : Addresses(v)[k] = Addresses(vec[s])[n + k]
  BY <1>1, UpdateResumes
<1>3. vec' = [vec EXCEPT ![s] = v]
      /\ progress' = [progress EXCEPT ![s] = IF vec_finished(v) THEN "returned" ELSE "looping"]
  BY DEF Account
<1> HIDE DEF v
<1>4. vec' \in [Side -> Seq(Region)] /\ vec'[s] = v /\ \A t \in Side \ {s} : vec'[t] = vec[t]
  BY <1>1, <1>2, <1>3
<1>5. /\ progress' \in [Side -> {"looping", "thrown", "returned", "failed"}]
      /\ progress'[s] = "returned" => vec_finished(v)
      /\ \A t \in Side \ {s} : progress'[t] = progress[t]
  BY <1>1, <1>3
<1>6. \A t \in Side \ {s} : Done(t)' = Done(t)
  BY <1>4 DEF Done
<1>7. Done(s)' = leftBytes(wanted[s]) - leftBytes(v)
  BY <1>4 DEF Done
<1>8. Done(s)' = Done(s) + n
  <2>1. Done(s) = leftBytes(wanted[s]) - leftBytes(vec[s])
    BY DEF Done
  <2> QED BY <1>1, <1>2, <1>7, <2>1
<1>9. ASSUME NEW k \in 1 .. leftBytes(v) PROVE Addresses(v)[k] = Addresses(wanted[s])[Done(s)' + k]
  <2>1. k \in 1 .. leftBytes(vec[s]) - n /\ n + k \in 1 .. leftBytes(vec[s]) /\ Done(s) + (n + k) = Done(s)' + k
    BY <1>1, <1>2, <1>8
  <2>2. Addresses(v)[k] = Addresses(vec[s])[n + k]
    BY <1>2, <2>1
  <2>3. Addresses(vec[s])[n + k] = Addresses(wanted[s])[Done(s) + (n + k)]
    BY <1>1, <2>1
  <2> QED BY <2>1, <2>2, <2>3
<1>10. vec_finished(v) => leftBytes(v) = 0
  BY <1>2, FinishedIsEmpty
<1>11. leftBytes(v) <= leftBytes(wanted[s])
  BY <1>1, <1>2
<1>12. ASSUME NEW t \in Side
       PROVE  /\ leftBytes(vec'[t]) <= leftBytes(wanted[t])
              /\ \A k \in 1 .. leftBytes(vec'[t]) : Addresses(vec'[t])[k] = Addresses(wanted[t])[Done(t)' + k]
              /\ progress'[t] = "returned" => leftBytes(vec'[t]) = 0
  <2>1. CASE t = s
    BY <1>4, <1>5, <1>9, <1>10, <1>11, <2>1
  <2>2. CASE t # s
    <3>1. vec'[t] = vec[t] /\ progress'[t] = progress[t] /\ Done(t)' = Done(t)
      BY <1>4, <1>5, <1>6, <2>2
    <3>2. /\ leftBytes(vec[t]) <= leftBytes(wanted[t])
          /\ \A k \in 1 .. leftBytes(vec[t]) : Addresses(vec[t])[k] = Addresses(wanted[t])[Done(t) + k]
          /\ progress[t] = "returned" => leftBytes(vec[t]) = 0
      BY DEF StreamInv, VectorsFit
    <3> QED BY <3>1, <3>2
  <2> QED BY <2>1, <2>2
<1>13. VectorsFit'
  BY <1>12 DEF StreamInv, VectorsFit
<1> QED BY <1>4, <1>5, <1>6, <1>8, <1>13

\* The bytes that are written next go to the end of the pipe.
LEMMA WriteKeeps ==
    ASSUME StreamInv, NEW n \in 0 .. Capacity, write(n)
    PROVE  StreamInv'
<1> DEFINE A == Addresses(vec["writer"])
           part == SubSeq(A, 1, n)
           d == Done("reader")
           w == Done("writer")
           l == leftBytes(vec["writer"])
           m == Len(pipe)
<1>1. "writer" \in Side /\ "reader" \in Side \ {"writer"}
  BY DEF Side
<1>2. /\ n \in Nat /\ n <= l /\ pipe' = pipe \o part /\ m + n <= Capacity
      /\ Account("writer", n) /\ UNCHANGED <<setting, kind, wanted, mem, open>>
  BY StreamIOAssumption DEF write
<1>3. /\ A \in Seq(Nat) /\ Len(A) = l /\ l \in Nat /\ d \in Nat /\ w \in Nat /\ m \in Nat
  BY <1>1, StreamNumbers DEF StreamInv
<1>4. \A k \in 1 .. l : A[k] = From[w + k]
  BY <1>1 DEF StreamInv, VectorsFit, From
<1>5. d + m = w /\ \A k \in 1 .. m : pipe[k] = From[d + k]
  BY DEF StreamInv, BytesFit
<1>6. pipe \in Seq(Nat)
  BY DEF StreamInv, StreamTypeOK
<1> HIDE DEF A, d, w, l, m
<1>7. part \in Seq(Nat) /\ Len(part) = n /\ \A k \in 1 .. n : part[k] = A[k]
  <2>1. \A k \in 1 .. n : A[k] \in Nat
    BY <1>2, <1>3, ElementOfSeq
  <2>2. part \in Seq(Nat) /\ Len(part) = (IF 1 <= n THEN n - 1 + 1 ELSE 0)
        /\ \A k \in 1 .. n - 1 + 1 : part[k] = A[1 + k - 1]
    BY <1>2, <2>1, SubSeqProperties
  <2> HIDE DEF part
  <2>3. \A k \in 1 .. n : k \in 1 .. n - 1 + 1 /\ 1 + k - 1 = k
    BY <1>2
  <2> QED BY <1>2, <2>2, <2>3
<1> HIDE DEF part
<1>8. /\ pipe' \in Seq(Nat) /\ Len(pipe') = m + n
      /\ \A k \in 1 .. m + n : pipe'[k] = IF k <= m THEN pipe[k] ELSE part[k - m]
  BY ZenonT(30), <1>2, <1>6, <1>7, ConcatProperties DEF m
<1>9. /\ vec' \in [Side -> Seq(Region)] /\ VectorsFit'
      /\ progress' \in [Side -> {"looping", "thrown", "returned", "failed"}]
      /\ Done("writer")' = w + n /\ Done("reader")' = d
  BY <1>1, <1>2, AccountKeeps DEF w, l, d
<1>10. StreamTypeOK'
  <2>1. Len(pipe') <= Capacity
    BY <1>2, <1>8
  <2> QED BY <1>2, <1>8, <1>9, <2>1 DEF StreamInv, StreamTypeOK, ReaderMemory
<1>11. ASSUME NEW k \in 1 .. Len(pipe') PROVE pipe'[k] = From[d + k]
  <2>1. k \in 1 .. m + n
    BY <1>8
  <2>2. CASE k <= m
    <3>1. k \in 1 .. m /\ pipe'[k] = pipe[k]
      BY <1>3, <1>8, <2>1, <2>2
    <3> QED BY <1>5, <3>1
  <2>3. CASE ~(k <= m)
    <3>1. k - m \in 1 .. n /\ k - m \in 1 .. l /\ w + (k - m) = d + k
      BY <1>2, <1>3, <1>5, <2>1, <2>3
    <3>2. pipe'[k] = part[k - m] /\ part[k - m] = A[k - m] /\ A[k - m] = From[w + (k - m)]
      BY <1>4, <1>7, <1>8, <2>1, <2>3, <3>1
    <3> QED BY <3>1, <3>2
  <2> QED BY <2>2, <2>3
<1>12. d + Len(pipe') = w + n
  BY <1>2, <1>3, <1>5, <1>8
<1>13. From' = From /\ Into' = Into /\ mem' = mem
  BY <1>2 DEF From, Into
<1>14. BytesFit'
  BY <1>9, <1>11, <1>12, <1>13 DEF StreamInv, BytesFit, ReaderMemory, d
<1> QED BY <1>9, <1>10, <1>14 DEF StreamInv

\* The first bytes of the pipe go to where the vector of the reader goes on.
LEMMA ReadKeeps ==
    ASSUME StreamInv, RegionsApart, NEW n \in 0 .. Capacity, read(n)
    PROVE  StreamInv'
<1> DEFINE A == Addresses(vec["reader"])
           d == Done("reader")
           l == leftBytes(vec["reader"])
           m == Len(pipe)
           N == leftBytes(wanted["reader"])
           Put(a, k) == k \in 1 .. n /\ A[k] = a /\ \A j \in (k + 1) .. n : A[j] # a
<1>1. "reader" \in Side /\ "writer" \in Side \ {"reader"}
  BY DEF Side
<1>2. /\ n \in Nat /\ n <= Len(A) /\ n <= m
      /\ pipe' = SubSeq(pipe, n + 1, m)
      /\ Account("reader", n) /\ UNCHANGED <<setting, kind, wanted, open>>
  BY StreamIOAssumption DEF read
<1>3. mem' = [a \in DOMAIN mem |->
                 IF \E k \in 1 .. n : A[k] = a
                 THEN pipe[CHOOSE k \in 1 .. n : A[k] = a /\ \A j \in (k + 1) .. n : A[j] # a]
                 ELSE mem[a]]
  BY DEF read
<1>4. /\ Len(A) = l /\ l \in Nat /\ d \in Nat /\ m \in Nat /\ N \in Nat /\ d = N - l
      /\ \A k \in 1 .. N : Into[k] \in ReaderMemory
      /\ Into \in Seq(Nat) /\ Len(Into) = N
  BY <1>1, StreamNumbers DEF StreamInv, Into, Done
<1>5. \A k \in 1 .. l : A[k] = Into[d + k]
  BY <1>1 DEF StreamInv, VectorsFit, Into
<1>6. /\ d + m = Done("writer") /\ \A k \in 1 .. m : pipe[k] = From[d + k]
      /\ \A k \in 1 .. d : mem[Into[k]] = From[k]
      /\ \A a \in ReaderMemory : mem[a] # 0 => \E k \in 1 .. d : a = Into[k]
  BY DEF StreamInv, BytesFit
<1>7. pipe \in Seq(Nat) /\ mem \in [ReaderMemory -> Nat] /\ m <= Capacity
  BY DEF StreamInv, StreamTypeOK
<1>8. \A i, j \in 1 .. N : Into[i] = Into[j] => i = j
  <2>1. IsInjective(Into)
    BY DEF StreamInv, VectorsFit, RegionsApart, Into
  <2>2. DOMAIN Into = 1 .. N
    BY <1>4, LenProperties
  <2> QED BY <2>1, <2>2 DEF IsInjective
<1>9. /\ vec' \in [Side -> Seq(Region)] /\ VectorsFit'
      /\ progress' \in [Side -> {"looping", "thrown", "returned", "failed"}]
      /\ Done("reader")' = d + n /\ Done("writer")' = Done("writer")
  BY <1>1, <1>2, <1>4, AccountKeeps DEF d, l
<1> HIDE DEF A, d, l, m, N
<1>10. /\ pipe' \in Seq(Nat) /\ Len(pipe') = m - n
       /\ \A k \in 1 .. m - n : pipe'[k] = pipe[n + k]
  <2>1. \A k \in n + 1 .. m : pipe[k] \in Nat
    BY SMTT(30), <1>2, <1>4, <1>7, ElementOfSeq DEF m
  <2>2. /\ SubSeq(pipe, n + 1, m) \in Seq(Nat)
        /\ Len(SubSeq(pipe, n + 1, m)) = (IF n + 1 <= m THEN m - (n + 1) + 1 ELSE 0)
        /\ \A k \in 1 .. m - (n + 1) + 1 : SubSeq(pipe, n + 1, m)[k] = pipe[(n + 1) + k - 1]
    BY <1>2, <1>4, <2>1, SubSeqProperties
  <2>3. \A k \in 1 .. m - n : k \in 1 .. m - (n + 1) + 1 /\ (n + 1) + k - 1 = n + k
    BY <1>2, <1>4
  <2>4. (IF n + 1 <= m THEN m - (n + 1) + 1 ELSE 0) = m - n
    BY <1>2, <1>4
  <2> QED BY <1>2, <2>2, <2>3, <2>4
<1>11. ASSUME NEW k \in 1 .. n
       PROVE  /\ k \in 1 .. l /\ k \in 1 .. m /\ d + k \in 1 .. N /\ A[k] = Into[d + k]
              /\ Into[d + k] \in ReaderMemory /\ mem'[Into[d + k]] = pipe[k]
  <2>1. k \in 1 .. l /\ k \in 1 .. m /\ d + k \in 1 .. N
    BY <1>2, <1>4
  <2>2. A[k] = Into[d + k] /\ Into[d + k] \in ReaderMemory
    BY <1>4, <1>5, <2>1
  <2> DEFINE a == Into[d + k]
             c == CHOOSE i \in 1 .. n : A[i] = a /\ \A j \in (i + 1) .. n : A[j] # a
  <2>3. ASSUME NEW i \in 1 .. n, A[i] = a PROVE i = k
    <3>1. i \in 1 .. l /\ d + i \in 1 .. N /\ i \in Nat /\ k \in Nat
      BY <1>2, <1>4
    <3>2. Into[d + i] = Into[d + k]
      BY <1>5, <2>3, <3>1
    <3>3. d + i = d + k
      BY <1>8, <2>1, <3>1, <3>2
    <3> QED BY <1>4, <3>1, <3>3
  <2>4. \A j \in (k + 1) .. n : A[j] # a
    <3> SUFFICES ASSUME NEW j \in (k + 1) .. n, A[j] = a PROVE FALSE
      OBVIOUS
    <3>1. j \in 1 .. n /\ j # k
      BY <1>2
    <3> QED BY <2>3, <3>1
  <2> HIDE DEF a
  <2>5. A[k] = a
    BY <2>2 DEF a
  <2>6. c \in 1 .. n /\ A[c] = a
    BY <2>4, <2>5
  <2> HIDE DEF c
  <2>7. c = k
    BY <2>3, <2>6
  <2>8. a \in DOMAIN mem
    BY <1>7, <2>2 DEF a
  <2>9. mem'[a] = pipe[c]
    BY <1>3, <2>5, <2>8 DEF c
  <2> QED BY <2>1, <2>2, <2>7, <2>9 DEF a
<1>12. ASSUME NEW a \in ReaderMemory, \A k \in 1 .. n : A[k] # a PROVE mem'[a] = mem[a]
  BY <1>3, <1>7, <1>12
<1>13. mem' \in [ReaderMemory -> Nat]
  <2>1. DOMAIN mem' = ReaderMemory /\ mem' = [a \in ReaderMemory |-> mem'[a]]
    BY <1>3, <1>7
  <2>2. ASSUME NEW a \in ReaderMemory PROVE mem'[a] \in Nat
    <3>1. CASE \E k \in 1 .. n : A[k] = a
      <4>1. PICK k \in 1 .. n : A[k] = a
        BY <3>1
      <4>2. mem'[a] = pipe[k] /\ k \in 1 .. m
        BY <1>11, <4>1
      <4> QED BY <1>7, <4>2, ElementOfSeq DEF m
    <3>2. CASE \A k \in 1 .. n : A[k] # a
      BY <1>7, <1>12, <3>2
    <3> QED BY <3>1, <3>2
  <2> QED BY <2>1, <2>2
<1>14. StreamTypeOK'
  <2>1. Len(pipe') <= Capacity
    BY <1>2, <1>4, <1>7, <1>10, StreamIOAssumption
  <2>2. ReaderMemory' = ReaderMemory
    BY DEF ReaderMemory
  <2>3. /\ setting' \in Settings /\ kind' \in [Side -> Kind] /\ open' \subseteq Side
    BY <1>2 DEF StreamInv, StreamTypeOK
  <2> QED BY <1>9, <1>10, <1>13, <2>1, <2>2, <2>3 DEF StreamTypeOK
<1>15. ASSUME NEW k \in 1 .. d + n PROVE mem'[Into[k]] = From[k]
  <2>1. CASE k <= d
    <3>1. k \in 1 .. d /\ k \in 1 .. N
      BY <1>2, <1>4, <2>1
    <3>2. ASSUME NEW i \in 1 .. n, A[i] = Into[k] PROVE FALSE
      <4>1. d + i \in 1 .. N /\ Into[d + i] = Into[k]
        BY <1>11, <3>2
      <4>2. d + i = k
        BY <1>8, <3>1, <4>1
      <4> QED BY <1>4, <2>1, <4>2
    <3>3. mem'[Into[k]] = mem[Into[k]]
      BY Zenon, <1>4, <1>12, <3>1, <3>2
    <3> QED BY <1>6, <3>1, <3>3
  <2>2. CASE ~(k <= d)
    <3>1. k - d \in 1 .. n /\ d + (k - d) = k
      BY <1>2, <1>4, <2>2
    <3>2. mem'[Into[d + (k - d)]] = pipe[k - d] /\ k - d \in 1 .. m
      BY <1>11, <3>1
    <3>3. pipe[k - d] = From[d + (k - d)]
      BY <1>6, <3>2
    <3> QED BY <3>1, <3>2, <3>3
  <2> QED BY <2>1, <2>2
<1>16. ASSUME NEW k \in 1 .. Len(pipe') PROVE pipe'[k] = From[(d + n) + k]
  <2>1. k \in 1 .. m - n /\ n + k \in 1 .. m /\ d + (n + k) = (d + n) + k
    BY <1>2, <1>4, <1>10
  <2>2. pipe'[k] = pipe[n + k] /\ pipe[n + k] = From[d + (n + k)]
    BY <1>6, <1>10, <2>1
  <2> QED BY <2>1, <2>2
<1>17. ASSUME NEW a \in ReaderMemory, mem'[a] # 0 PROVE \E k \in 1 .. d + n : a = Into[k]
  <2>1. CASE \E i \in 1 .. n : A[i] = a
    <3>1. PICK i \in 1 .. n : A[i] = a
      BY <2>1
    <3>2. a = Into[d + i] /\ d + i \in 1 .. d + n
      BY <1>2, <1>4, <1>11, <3>1
    <3> QED BY <3>2
  <2>2. CASE \A i \in 1 .. n : A[i] # a
    <3>1. mem[a] # 0
      BY <1>12, <1>17, <2>2
    <3>2. PICK k \in 1 .. d : a = Into[k]
      BY <1>6, <3>1
    <3>3. k \in 1 .. d + n
      BY <1>2, <1>4
    <3> QED BY <3>2, <3>3
  <2> QED BY <2>1, <2>2
<1>18. (d + n) + Len(pipe') = Done("writer")
  BY <1>2, <1>4, <1>6, <1>10
<1>19. From' = From /\ Into' = Into /\ ReaderMemory' = ReaderMemory
  BY <1>2 DEF From, Into, ReaderMemory
<1>20. BytesFit'
  BY <1>9, <1>15, <1>16, <1>17, <1>18, <1>19 DEF BytesFit
<1> QED BY <1>9, <1>14, <1>20 DEF StreamInv

\* The end of the file: the loop of a vector goes on as it was.
LEMMA EndOfFileKeeps ==
    ASSUME StreamInv, ReadEndOfFile
    PROVE  StreamInv'
<1>1. "reader" \in Side /\ "writer" \in Side \ {"reader"}
  BY DEF Side
<1>2. /\ UNCHANGED <<setting, kind, wanted, mem, pipe, open>>
      /\ \/ progress' = [progress EXCEPT !["reader"] = "failed"] /\ UNCHANGED vec
         \/ Account("reader", 0)
  BY DEF ReadEndOfFile
<1>3. progress \in [Side -> {"looping", "thrown", "returned", "failed"}] /\ open \subseteq Side
  BY DEF StreamInv, StreamTypeOK
<1>4. CASE progress' = [progress EXCEPT !["reader"] = "failed"] /\ UNCHANGED vec
  BY <1>2, <1>3, <1>4, SameBytes
<1>5. CASE Account("reader", 0)
  <2>1. leftBytes(vec["reader"]) \in Nat /\ Done("reader") \in Nat
    BY <1>1, StreamNumbers DEF StreamInv
  <2>2. 0 \in 0 .. leftBytes(vec["reader"])
    BY <2>1
  <2>3. /\ vec' \in [Side -> Seq(Region)] /\ VectorsFit'
        /\ progress' \in [Side -> {"looping", "thrown", "returned", "failed"}]
        /\ Done("reader")' = Done("reader") + 0 /\ Done("writer")' = Done("writer")
    BY <1>1, <1>2, <1>5, <2>2, AccountKeeps
  <2>4. Done("reader")' = Done("reader")
    BY <2>1, <2>3
  <2>5. StreamTypeOK'
    BY <1>2, <2>3 DEF StreamInv, StreamTypeOK, ReaderMemory
  <2>6. BytesFit'
    BY <1>2, <2>3, <2>4 DEF StreamInv, BytesFit, From, Into, ReaderMemory
  <2> QED BY <2>3, <2>5, <2>6 DEF StreamInv
<1> QED BY <1>2, <1>4, <1>5

\* Every step keeps the invariant.
LEMMA NextStreamInv == StreamInv /\ RegionsApart /\ [NextStream]_streamVars => StreamInv'
<1> SUFFICES ASSUME StreamInv, RegionsApart, [NextStream]_streamVars PROVE StreamInv'
  OBVIOUS
<1>1. progress \in [Side -> {"looping", "thrown", "returned", "failed"}] /\ open \subseteq Side
  BY DEF StreamInv, StreamTypeOK
<1>2. ASSUME NEW n \in 0 .. Capacity, write(n) PROVE StreamInv'
  BY <1>2, WriteKeeps
<1>3. ASSUME WriteBrokenPipe PROVE StreamInv'
  BY <1>1, <1>3, SameBytes DEF WriteBrokenPipe
<1>4. ASSUME NEW n \in 0 .. Capacity, read(n) PROVE StreamInv'
  BY <1>4, ReadKeeps
<1>5. ASSUME ReadEndOfFile PROVE StreamInv'
  BY <1>5, EndOfFileKeeps
<1>6. ASSUME NEW s \in Side, WouldBlock(s) \/ Interrupted(s) PROVE StreamInv'
  BY <1>1, <1>6, SameBytes DEF WouldBlock, Interrupted
<1>7. ASSUME NEW s \in Side, ClientStep(s) \/ Crash(s) PROVE StreamInv'
  BY <1>1, <1>7, SameBytes DEF ClientStep, Resume, GiveUp, Close, Crash
<1>8. ASSUME UNCHANGED streamVars PROVE StreamInv'
  BY <1>1, <1>8, SameBytes DEF streamVars
<1> QED BY <1>2, <1>3, <1>4, <1>5, <1>6, <1>7, <1>8 DEF NextStream, WriterStep, ReaderStep

\* What the invariant says of single bytes, the property says of sequences.
LEMMA StreamInvExact == StreamInv => TransfersAreExact
<1> SUFFICES ASSUME StreamInv PROVE TransfersAreExact
  OBVIOUS
<1> DEFINE d == Done("reader")
           w == Done("writer")
           All(s) == Addresses(wanted[s])
           m == Len(pipe)
<1>1. "reader" \in Side /\ "writer" \in Side
  BY DEF Side
<1>2. ASSUME NEW s \in Side
      PROVE  /\ All(s) \in Seq(Nat) /\ Len(All(s)) = leftBytes(wanted[s])
             /\ leftBytes(vec[s]) \in Nat /\ leftBytes(wanted[s]) \in Nat
             /\ leftBytes(vec[s]) <= leftBytes(wanted[s])
             /\ Done(s) \in Nat /\ Len(All(s)) - leftBytes(vec[s]) = Done(s)
             /\ Addresses(vec[s]) \in Seq(Nat) /\ Len(Addresses(vec[s])) = leftBytes(vec[s])
             /\ \A k \in 1 .. leftBytes(vec[s]) : Addresses(vec[s])[k] = All(s)[Done(s) + k]
             /\ progress[s] = "returned" => leftBytes(vec[s]) = 0
  <2>1. All(s) \in Seq(Nat) /\ Len(All(s)) = leftBytes(wanted[s]) /\ leftBytes(vec[s]) \in Nat /\ leftBytes(wanted[s]) \in Nat
        /\ Done(s) \in Nat /\ Addresses(vec[s]) \in Seq(Nat) /\ Len(Addresses(vec[s])) = leftBytes(vec[s])
    BY StreamNumbers DEF StreamInv
  <2>2. /\ leftBytes(vec[s]) <= leftBytes(wanted[s])
        /\ \A k \in 1 .. leftBytes(vec[s]) : Addresses(vec[s])[k] = All(s)[Done(s) + k]
        /\ progress[s] = "returned" => leftBytes(vec[s]) = 0
    BY DEF StreamInv, VectorsFit
  <2>3. Len(All(s)) - leftBytes(vec[s]) = Done(s)
    BY <2>1 DEF Done
  <2> QED BY <2>1, <2>2, <2>3
<1> HIDE DEF All
<1>3. ASSUME NEW s \in Side
      PROVE  /\ Transferred(s) \in Seq(Nat) /\ Len(Transferred(s)) = Done(s)
             /\ \A k \in 1 .. Done(s) : Transferred(s)[k] = All(s)[k]
             /\ DOMAIN Transferred(s) = 1 .. Done(s)
  <2>1. Transferred(s) = SubSeq(All(s), 1, Done(s))
    BY <1>2 DEF Transferred, All
  <2> DEFINE D == Done(s)
             L == Len(All(s))
  <2>2. D \in Nat /\ L \in Nat /\ D <= L
    BY <1>2
  <2> HIDE DEF D
  <2>3. \A k \in 1 .. D : All(s)[k] \in Nat
    BY SMTT(30), <1>2, <2>2, ElementOfSeq
  <2>4. /\ SubSeq(All(s), 1, D) \in Seq(Nat)
        /\ Len(SubSeq(All(s), 1, D)) = (IF 1 <= D THEN D - 1 + 1 ELSE 0)
        /\ \A k \in 1 .. D - 1 + 1 : SubSeq(All(s), 1, D)[k] = All(s)[1 + k - 1]
    BY <2>2, <2>3, SubSeqProperties
  <2>5. (IF 1 <= D THEN D - 1 + 1 ELSE 0) = D /\ \A k \in 1 .. D : k \in 1 .. D - 1 + 1 /\ 1 + k - 1 = k
    BY <2>2
  <2>6. Transferred(s) \in Seq(Nat) /\ Len(Transferred(s)) = D /\ \A k \in 1 .. D : Transferred(s)[k] = All(s)[k]
    BY <2>1, <2>4, <2>5 DEF D
  <2> QED BY <2>6, LenProperties DEF D
<1>4. StreamTypeOK
  BY DEF StreamInv
<1>5. BytesInOrder
  <2>1. d \in Nat /\ w \in Nat /\ m \in Nat /\ d + m = w /\ pipe \in Seq(Nat)
    BY <1>1, <1>2, LenProperties DEF StreamInv, BytesFit, StreamTypeOK
  <2>2. /\ \A k \in 1 .. m : pipe[k] = All("writer")[d + k]
        /\ \A k \in 1 .. d : mem[All("reader")[k]] = All("writer")[k]
    BY DEF StreamInv, BytesFit, From, Into, All
  <2> DEFINE got == [k \in 1 .. d |-> mem[Transferred("reader")[k]]]
  <2>3. Received = got
    BY <1>1, <1>3 DEF Received
  <2>4. \A k \in 1 .. d : got[k] = All("writer")[k]
    BY <1>1, <1>3, <2>2
  <2>5. \A k \in 1 .. w : All("writer")[k] \in Nat /\ Transferred("writer")[k] = All("writer")[k]
    <3>1. w <= Len(All("writer")) /\ Len(All("writer")) \in Nat /\ All("writer") \in Seq(Nat)
      BY SMTT(30), <1>1, <1>2
    <3>2. \A k \in 1 .. w : k \in 1 .. Len(All("writer"))
      BY <2>1, <3>1
    <3> QED BY <1>1, <1>3, <3>1, <3>2, ElementOfSeq
  <2>6. got \in [1 .. d -> Nat]
    <3>1. \A k \in 1 .. d : k \in 1 .. w
      BY <2>1
    <3>2. \A k \in 1 .. d : got[k] \in Nat
      BY <2>4, <2>5, <3>1
    <3> QED BY <3>2
  <2> HIDE DEF got, d, w, m
  <2>7. got \in Seq(Nat) /\ Len(got) = d
    BY <2>1, <2>6
  <2>8. /\ got \o pipe \in Seq(Nat) /\ Len(got \o pipe) = d + m
        /\ \A k \in 1 .. d + m : (got \o pipe)[k] = IF k <= d THEN got[k] ELSE pipe[k - d]
    BY ZenonT(30), <2>1, <2>7, ConcatProperties DEF m
  <2>9. ASSUME NEW k \in 1 .. w PROVE (got \o pipe)[k] = Transferred("writer")[k]
    <3>1. k \in 1 .. d + m
      BY <2>1
    <3>2. CASE k <= d
      <4>1. k \in 1 .. d
        BY <2>1, <3>2
      <4> QED BY <2>4, <2>5, <2>8, <3>1, <3>2, <4>1
    <3>3. CASE ~(k <= d)
      <4>1. k - d \in 1 .. m /\ d + (k - d) = k
        BY <2>1, <3>1, <3>3
      <4>2. (got \o pipe)[k] = pipe[k - d]
        BY <2>8, <3>1, <3>3
      <4>3. pipe[k - d] = All("writer")[d + (k - d)]
        BY <2>2, <4>1
      <4> QED BY <2>5, <4>1, <4>2, <4>3
    <3> QED BY <3>2, <3>3
  <2>10. Transferred("writer") \in Seq(Nat) /\ Len(Transferred("writer")) = w
    BY <1>1, <1>3 DEF w
  <2>11. got \o pipe = Transferred("writer")
    <3>1. Len(got \o pipe) = w
      BY <2>1, <2>8
    <3> QED BY <2>8, <2>9, <2>10, <3>1, SeqEqual
  <2> QED BY <2>3, <2>11 DEF BytesInOrder
<1>6. VectorsResume
  <2> SUFFICES ASSUME NEW s \in Side
               PROVE  Addresses(vec[s]) = SubSeq(All(s), Len(Transferred(s)) + 1, Len(All(s)))
    BY DEF VectorsResume, All
  <2> DEFINE D == Done(s)
             L == Len(All(s))
             A == Addresses(vec[s])
             l == leftBytes(vec[s])
             rest == SubSeq(All(s), D + 1, L)
  <2>1. /\ D \in Nat /\ L \in Nat /\ l \in Nat /\ L - l = D /\ A \in Seq(Nat) /\ Len(A) = l
        /\ \A k \in 1 .. l : A[k] = All(s)[D + k]
        /\ All(s) \in Seq(Nat)
    BY <1>2
  <2>2. SubSeq(All(s), Len(Transferred(s)) + 1, Len(All(s))) = rest
    BY <1>3
  <2> HIDE DEF D, A, l
  <2>3. \A k \in D + 1 .. L : All(s)[k] \in Nat
    BY SMTT(30), <2>1, ElementOfSeq
  <2> HIDE DEF L
  <2>4. /\ rest \in Seq(Nat)
        /\ Len(rest) = (IF D + 1 <= L THEN L - (D + 1) + 1 ELSE 0)
        /\ \A k \in 1 .. L - (D + 1) + 1 : rest[k] = All(s)[(D + 1) + k - 1]
    BY SMTT(60), <2>1, <2>3, SubSeqProperties
  <2>5. (IF D + 1 <= L THEN L - (D + 1) + 1 ELSE 0) = l
        /\ \A k \in 1 .. l : k \in 1 .. L - (D + 1) + 1 /\ (D + 1) + k - 1 = D + k
    BY <2>1
  <2> HIDE DEF rest
  <2>6. \A k \in 1 .. Len(A) : A[k] = rest[k]
    BY ZenonT(60), <2>1, <2>4, <2>5
  <2>7. A = rest
    BY ZenonT(30), <2>1, <2>4, <2>5, <2>6, SeqEqual
  <2> QED BY <2>2, <2>7 DEF A
<1>7. NothingElseWritten
  <2> SUFFICES ASSUME NEW a \in DOMAIN mem, mem[a] # 0 PROVE a \in Range(Transferred("reader"))
    BY DEF NothingElseWritten
  <2>1. a \in ReaderMemory
    BY <1>4 DEF StreamTypeOK
  <2>2. PICK k \in 1 .. Done("reader") : a = All("reader")[k]
    BY <2>1 DEF StreamInv, BytesFit, Into, All
  <2>3. k \in DOMAIN Transferred("reader") /\ a = Transferred("reader")[k]
    BY <1>1, <1>3, <2>2
  <2> QED BY <2>3 DEF Range
<1>8. ReturnedIsComplete
  <2> SUFFICES ASSUME NEW s \in Side, progress[s] = "returned" PROVE Transferred(s) = All(s)
    BY DEF ReturnedIsComplete, All
  <2>1. Len(All(s)) - leftBytes(vec[s]) = Len(All(s)) /\ All(s) \in Seq(Nat)
    <3>1. leftBytes(vec[s]) = 0 /\ All(s) \in Seq(Nat)
      BY <1>2
    <3>2. Len(All(s)) \in Nat
      BY <3>1, LenProperties
    <3> QED BY <3>1, <3>2
  <2>2. Transferred(s) = SubSeq(All(s), 1, Len(All(s)))
    BY <2>1 DEF Transferred, All
  <2> QED BY <2>1, <2>2, SubSeqFull
<1> QED BY <1>4, <1>5, <1>6, <1>7, <1>8 DEF TransfersAreExact

\* At any time every byte is where it was, in the pipe, or where it belongs,
\* and calls that return are complete: for vectors with any entries, also of no
\* length, that do not overlap where they are read into, a pipe of any size,
\* and any partial transfers, interruptions, exceptions and crashes.
THEOREM TransfersKeepBytes == RegionsApart => (SpecStream => []TransfersAreExact)
<1> SUFFICES ASSUME RegionsApart PROVE SpecStream => []TransfersAreExact
  OBVIOUS
<1>1. InitStream => StreamInv
  BY InitStreamInv
<1>2. StreamInv /\ [NextStream]_streamVars => StreamInv'
  BY NextStreamInv
<1>3. StreamInv => TransfersAreExact
  BY StreamInvExact
<1> QED BY <1>1, <1>2, <1>3, PTL DEF SpecStream

=============================================================================
