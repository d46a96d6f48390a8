------------------------- MODULE TreeEventsProofs -------------------------
(***************************************************************************)
(* Proofs about Tree and Events, the components that work through files    *)
(* one system call at a time while others change them.                     *)
(*                                                                         *)
(* Tree: for any tree and whatever other processes do, the entries stay a  *)
(* tree, remove_tree() and make_all_dirs() remove nothing else, and do     *)
(* exactly their work when nobody interferes.                              *)
(*                                                                         *)
(* Events: the INotify loses, repeats and reorders no event, and no source *)
(* with something to read is forgotten, for any size of its buffer and of  *)
(* the kernel's queue, all modes, and any number of changes and errors.    *)
(***************************************************************************)
EXTENDS Tree, Events, FiniteSetTheorems, SequenceTheorems, WellFoundedInduction, TLAPS

-----------------------------------------------------------------------------
(* Tree: numbers and steps *)

\* A set of numbers that is not empty has a least one: what the proofs by
\* induction about steps that the kernel repeats rest on.
LEMMA LeastNatural ==
    ASSUME NEW T, T \subseteq Nat, T # {}
    PROVE  \E m \in T : \A k \in T : m <= k
<1> DEFINE R == OpToRel(<, Nat)
<1>1. IsWellFoundedOn(R, Nat)
  BY NatLessThanWellFounded
<1>2. \A x, y \in Nat : <<x, y>> \in R <=> x < y
  BY DEF OpToRel
<1> HIDE DEF R
<1>3. PICK m \in T : \A k \in T : ~(<<k, m>> \in R)
  BY <1>1, WFMin
<1>4. ASSUME NEW k \in T PROVE m <= k
  <2>1. m \in Nat /\ k \in Nat
    OBVIOUS
  <2>2. ~(k < m)
    BY <1>2, <1>3, <2>1
  <2> QED BY <2>1, <2>2
<1> QED BY <1>3, <1>4

\* A set of numbers that contains 0 and with a number below N the next one
\* contains all numbers up to N.
LEMMA StepByStep ==
    ASSUME NEW N \in Nat, NEW S, 0 \in S, \A k \in 1 .. N : k - 1 \in S => k \in S
    PROVE  0 .. N \subseteq S
<1> SUFFICES ASSUME NEW j \in 0 .. N, j \notin S PROVE FALSE
  OBVIOUS
<1> DEFINE T == {k \in 0 .. N : k \notin S}
<1>1. T \subseteq Nat /\ T # {}
  OBVIOUS
<1>2. PICK m \in T : \A k \in T : m <= k
  BY <1>1, LeastNatural
<1>3. m \in 1 .. N /\ m - 1 \in 0 .. N
  BY <1>2
<1>4. m - 1 \in S
  BY <1>2, <1>3
<1> QED BY <1>2, <1>3, <1>4

\* N steps from a first value, each of them computed by a function.
Steps(f, N, first, next) == f[0] = first /\ \A k \in 1 .. N : f[k] = next[<<k, f[k - 1]>>]

\* What following symbolic links computes exists: a function on the number of
\* links, from a first value and a function that takes one step.
LEMMA ChainExists ==
    ASSUME NEW N \in Nat, NEW V, NEW first \in V, NEW next \in [(1 .. N) \X V -> V]
    PROVE  \E f \in [0 .. N -> V] : Steps(f, N, first, next)
<1> DEFINE Good(n, f) == f \in [0 .. n -> V] /\ f[0] = first /\ \A k \in 1 .. n : f[k] = next[<<k, f[k - 1]>>]
           S == {n \in 0 .. N : \E f : Good(n, f)}
<1>1. 0 \in S
  <2>1. Good(0, [k \in 0 .. 0 |-> first])
    OBVIOUS
  <2> HIDE DEF Good
  <2> QED BY <2>1
<1>2. ASSUME NEW n \in 1 .. N, n - 1 \in S PROVE n \in S
  <2>1. PICK f : Good(n - 1, f)
    BY <1>2
  <2> DEFINE g == [k \in 0 .. n |-> IF k = n THEN next[<<n, f[n - 1]>>] ELSE f[k]]
  <2>2. n - 1 \in 0 .. (n - 1) /\ \A k \in 0 .. n : k # n => k \in 0 .. (n - 1)
    OBVIOUS
  <2>3. g \in [0 .. n -> V] /\ g[0] = first
    BY <2>1, <2>2
  <2>4. ASSUME NEW k \in 1 .. n PROVE g[k] = next[<<k, g[k - 1]>>]
    <3>1. CASE k = n
      <4>1. k - 1 \in 0 .. n /\ k - 1 # n
        BY <3>1
      <4> QED BY <3>1, <4>1
    <3>2. CASE k # n
      <4>1. k \in 1 .. (n - 1) /\ k - 1 \in 0 .. n /\ k - 1 # n /\ k \in 0 .. n
        BY <3>2
      <4>2. g[k] = f[k] /\ g[k - 1] = f[k - 1]
        BY <3>2, <4>1
      <4> QED BY <2>1, <4>1, <4>2
    <3> QED BY <3>1, <3>2
  <2>5. Good(n, g)
    BY <2>3, <2>4
  <2> HIDE DEF g, Good
  <2> QED BY <2>5
<1> HIDE DEF S
<1>3. N \in S
  BY <1>1, <1>2, StepByStep
<1> QED BY <1>3 DEF S, Steps

-----------------------------------------------------------------------------

\* The entries of directories are a tree, and whatever is not in it is empty.
IsTree(e) ==
    /\ e \in [Dir -> [Name -> Directory \union File \union {None}]]
    /\ \A i \in Directory : \A c, d \in Dir : \A m, n \in Name :
          e[c][m] = i /\ e[d][n] = i => c = d /\ m = n
    /\ \A i \in Dir : e[i] # NoEntries => i \in reached(e, {Root})

AtEntry == {"status", "enter", "unlink"}

InStream == {"next", "removeAt", "remove"} \union AtEntry

\* Where the call is, and what it works with.
CallFits ==
    /\ at \in {"idle", "open", "mkdir"} \union InStream
    /\ at = "idle" => op = "none" /\ arg = <<>> /\ before = None /\ members = {}
                      /\ pos = 0 /\ made = FALSE
    /\ at # "idle" => arg \in Path /\ scope \subseteq members
    /\ at = "mkdir" <=> op = "make_all_dirs"
    /\ at = "mkdir" => pos \in 1 .. Len(arg) + 1
    /\ at \in InStream \union {"open"} => removing /\ pos = 0
    /\ op = "close" => tmp_path = arg
    /\ at \in InStream <=> streams # <<>>
    /\ at \in AtEntry => current \in Name
    /\ at = "removeAt" => Len(streams) > 1
    /\ at = "remove" => Len(streams) = 1

Typed ==
    /\ op \in {"none", "remove_tree", "close", "make_all_dirs"}
    /\ arg \in Path \union {<<>>} /\ tmp_path \in Path \union {None}
    /\ tmp_path # None => Len(tmp_path) = 1
    /\ streams \in Seq(StreamType)
    /\ \A k \in DOMAIN streams : streams[k].name = None <=> k = 1
    /\ current \in Name \union {None} /\ pos \in Nat /\ made \in BOOLEAN
    /\ result \in {"none", "ok", "error", "NO_ERROR", "EXISTS"}
    /\ members \subseteq Inode
    /\ others \in 0 .. MaxOthers

\* make_all_dirs() undisturbed: what is there remains, the prefixes that were
\* made or found exist, and the way leads through no symbolic link.
MakesWhatIsMissing ==
    LET w == walk(entry, arg) IN
    /\ \A i \in Dir : \A n \in Name : before[i][n] \in {None, entry[i][n]}
    /\ ~made => entry = before /\ ~linked(arg)
    /\ \A k \in 1 .. pos - 1 : w[k] # None /\ (k < Len(arg) => w[k] \notin Link)
    /\ made => pos > 1 /\ empty(w[pos - 1])

removedRoot == walk(before, arg)[Len(arg)]

removedDirs == reached(before, {removedRoot}) \intersect Dir

\* remove_tree() undisturbed: entries are only removed, and only below.
RemovesBelow ==
    /\ isDir(removedRoot) /\ streams[1].dir = removedRoot
    /\ \A i \in Dir \ removedDirs : entry[i] = before[i]
    /\ \A i \in Dir : \A n \in Name : entry[i][n] \in {None, before[i][n]}

\* The streams are a path down into the tree, and what a stream has still to
\* deliver is what is there.
StreamsDescend ==
    /\ \A k \in DOMAIN streams : streams[k].dir \in removedDirs
    /\ \A j, k \in DOMAIN streams : streams[j].dir = streams[k].dir => j = k
    /\ \A k \in 2 .. Len(streams) :
         /\ entry[streams[k - 1].dir][streams[k].name] = streams[k].dir
         /\ streams[k].name \notin streams[k - 1].todo
    /\ \A k \in DOMAIN streams : \A n \in Name :
         /\ n \in streams[k].todo => entry[streams[k].dir][n] # None
         /\ k < Len(streams) /\ entry[streams[k].dir][n] # None =>
              n \in streams[k].todo \/ n = streams[k + 1].name

\* The innermost stream.
TopIsKnown ==
    /\ at = "next" => \A n \in Name : entry[top.dir][n] # None => n \in top.todo
    /\ at \in AtEntry =>
         /\ \A n \in Name : entry[top.dir][n] # None => n \in top.todo \/ n = current
         /\ current \notin top.todo
         /\ entry[top.dir][current] # None
    /\ at = "enter" => isDir(entry[top.dir][current])
    /\ at = "unlink" => ~isDir(entry[top.dir][current])
    /\ at \in {"removeAt", "remove"} => entry[top.dir] = NoEntries

Undisturbed ==
    before # None =>
        /\ IsTree(before)
        /\ at = "open" => entry = before /\ ~linked(arg)
        /\ at = "mkdir" => MakesWhatIsMissing
        /\ at \in InStream => RemovesBelow /\ StreamsDescend /\ TopIsKnown

TreeInv == IsTree(entry) /\ Typed /\ CallFits /\ Undisturbed

-----------------------------------------------------------------------------
(* Paths and what can be reached *)

\* Any entries of directories.
Entries == [Dir -> [Name -> Inode \union {None}]]

\* What a path is followed to, step by step (path resolution of the kernel).
LEMMA WalkSteps ==
    ASSUME NEW e \in Entries, NEW path \in Path
    PROVE  /\ Len(path) \in Nat \ {0} /\ Len(path) <= MaxDepth
           /\ walk(e, path) \in [0 .. Len(path) -> Inode \union {None}]
           /\ walk(e, path)[0] = Root
           /\ \A k \in 1 .. Len(path) : path[k] \in Name /\ walk(e, path)[k] =
                IF isDir(walk(e, path)[k - 1]) THEN e[walk(e, path)[k - 1]][path[k]] ELSE None
<1> DEFINE N == Len(path)
           V == Inode \union {None}
           next == [x \in (1 .. N) \X V |-> IF isDir(x[2]) THEN e[x[2]][path[x[1]]] ELSE None]
           Follows(f) == f = [k \in 0 .. N |-> IF k = 0 THEN Root
                                 ELSE IF isDir(f[k - 1]) THEN e[f[k - 1]][path[k]] ELSE None]
           w == CHOOSE f : Follows(f)
<1>1. N \in Nat \ {0} /\ N <= MaxDepth /\ path \in [1 .. N -> Name]
  <2>1. PICK n \in 1 .. MaxDepth : path \in [1 .. n -> Name]
    BY DEF Path
  <2>2. n \in Nat /\ n <= MaxDepth /\ n # 0
    BY <2>1, TreeAssumption
  <2>3. path \in Seq(Name) /\ Len(path) = n
    BY <2>1, <2>2
  <2> QED BY <2>1, <2>2, <2>3
<1>2. next \in [(1 .. N) \X V -> V] /\ Root \in V
  BY <1>1 DEF Entries, isDir, Inode
<1>3. \E f : Follows(f)
  <2>1. PICK f \in [0 .. N -> V] : Steps(f, N, Root, next)
    BY <1>1, <1>2, ChainExists
  <2>2. ASSUME NEW k \in 1 .. N PROVE k - 1 \in 0 .. N /\ f[k - 1] \in V /\ <<k, f[k - 1]>> \in (1 .. N) \X V
    BY SMTT(30), <1>1, <2>1, <2>2
  <2>3. \A k \in 1 .. N : f[k] = IF isDir(f[k - 1]) THEN e[f[k - 1]][path[k]] ELSE None
    BY <2>1, <2>2 DEF Steps
  <2>4. \A k \in 0 .. N : k # 0 => k \in 1 .. N
    BY <1>1
  <2> HIDE DEF N, V, next
  <2>5. Follows(f)
    BY <2>1, <2>3, <2>4 DEF Steps
  <2> HIDE DEF Follows
  <2> QED BY <2>5
<1>4. Follows(w)
  <2> HIDE DEF Follows
  <2> QED BY <1>3
<1>5. walk(e, path) = w
  BY DEF walk
<1> HIDE DEF w
<1>6. \A k \in 1 .. N : k \in 0 .. N /\ k # 0 /\ k - 1 \in 0 .. N
  BY <1>1
<1>7. w[0] = Root /\ \A k \in 1 .. N : w[k] = IF isDir(w[k - 1]) THEN e[w[k - 1]][path[k]] ELSE None
  <2>1. 0 \in 0 .. N
    BY <1>1
  <2> HIDE DEF N, V, next
  <2> QED BY <1>4, <1>6, <2>1, Zenon
<1>8. 0 .. N \subseteq {k \in 0 .. N : w[k] \in V}
  <2> DEFINE S == {k \in 0 .. N : w[k] \in V}
  <2>1. 0 \in S
    BY <1>1, <1>2, <1>7
  <2>2. ASSUME NEW k \in 1 .. N, k - 1 \in S PROVE k \in S
    <3>1. path[k] \in Name
      BY <1>1
    <3> QED BY <1>6, <1>7, <2>2, <3>1 DEF Entries, isDir
  <2> HIDE DEF S
  <2>3. 0 .. N \subseteq S
    BY <1>1, <2>1, <2>2, StepByStep
  <2> QED BY <2>3 DEF S
<1>9. w \in [0 .. N -> V]
  <2> HIDE DEF N, V
  <2> QED BY <1>4, <1>8, Zenon
<1> QED BY <1>1, <1>5, <1>7, <1>9

\* The entries of every directory in T are in T.
Closed(e, T) == \A i \in T \intersect Dir : \A n \in Name : e[i][n] \in T \union {None}

\* There are finitely many directories.
LEMMA DirIsFinite == IsFiniteSet(Dir) /\ Cardinality(Dir) \in Nat
<1>1. IsFiniteSet(Directory)
  BY TreeAssumption
<1>2. IsFiniteSet(Directory \union {Root})
  BY <1>1, FS_AddElement
<1>3. Dir = Directory \union {Root}
  BY DEF Dir
<1> QED BY <1>2, <1>3, FS_CardinalityType

\* The entries of the directories in T.
Children(e, T) == {e[i][n] : i \in T \intersect Dir, n \in Name} \ {None}

\* What is a child.
LEMMA ChildIsEntry ==
    ASSUME NEW e, NEW T, NEW y
    PROVE  y \in Children(e, T) <=> y # None /\ \E i \in T \intersect Dir : \E n \in Name : y = e[i][n]
  BY DEF Children

\* Children are inodes, and a set is closed if it contains its children.
LEMMA ChildrenAre ==
    ASSUME NEW e \in Entries, NEW T \in SUBSET Inode
    PROVE  /\ Children(e, T) \subseteq Inode
           /\ Closed(e, T) <=> Children(e, T) \subseteq T
<1>1. ASSUME NEW i \in Dir, NEW n \in Name PROVE e[i][n] \in Inode \union {None}
  BY DEF Entries
<1>2. Children(e, T) \subseteq Inode
  BY <1>1, ChildIsEntry
<1>3. ASSUME Closed(e, T) PROVE Children(e, T) \subseteq T
  BY <1>3, ChildIsEntry DEF Closed
<1>4. ASSUME Children(e, T) \subseteq T PROVE Closed(e, T)
  <2> SUFFICES ASSUME NEW i \in T \intersect Dir, NEW n \in Name, e[i][n] # None
               PROVE  e[i][n] \in T
    BY DEF Closed
  <2>1. e[i][n] \in Children(e, T)
    BY ChildIsEntry
  <2> QED BY <1>4, <2>1
<1> QED BY <1>2, <1>3, <1>4

\* What can be reached is computed level by level, from S down.
LEMMA ReachedSteps ==
    ASSUME NEW e \in Entries, NEW S \in SUBSET (Inode \union {None})
    PROVE  \E b \in [0 .. Cardinality(Dir) -> SUBSET Inode] :
              /\ b[0] = S \ {None}
              /\ \A k \in 1 .. Cardinality(Dir) : b[k] = b[k - 1] \union Children(e, b[k - 1])
              /\ reached(e, S) = b[Cardinality(Dir)]
<1> DEFINE N == Cardinality(Dir)
           V == SUBSET Inode
           next == [x \in (1 .. N) \X V |-> x[2] \union Children(e, x[2])]
           Follows(f) == f = [k \in 0 .. N |-> IF k = 0 THEN S \ {None}
                                            ELSE f[k - 1] \union Children(e, f[k - 1])]
           b == CHOOSE f : Follows(f)
<1>1. N \in Nat
  BY DirIsFinite
<1>2. next \in [(1 .. N) \X V -> V] /\ S \ {None} \in V
  BY ChildrenAre
<1>3. \E f : Follows(f)
  <2>1. PICK f \in [0 .. N -> V] : Steps(f, N, S \ {None}, next)
    <3> HIDE DEF next, N, V
    <3> QED BY <1>1, <1>2, ChainExists
  <2>2. ASSUME NEW k \in 1 .. N PROVE k - 1 \in 0 .. N /\ f[k - 1] \in V /\ <<k, f[k - 1]>> \in (1 .. N) \X V
    <3> HIDE DEF N, V, next
    <3>1. k - 1 \in 0 .. N
      BY <1>1
    <3>2. f[k - 1] \in V
      BY <2>1, <3>1
    <3> QED BY <3>1, <3>2
  <2>3. \A k \in 1 .. N : f[k] = f[k - 1] \union Children(e, f[k - 1])
    BY <2>1, <2>2 DEF Steps
  <2>4. \A k \in 0 .. N : k # 0 => k \in 1 .. N
    BY <1>1
  <2> HIDE DEF N, V, next
  <2>5. Follows(f)
    BY <2>1, <2>3, <2>4 DEF Steps
  <2> HIDE DEF Follows
  <2> QED BY <2>5
<1>4. Follows(b)
  <2> HIDE DEF Follows
  <2> QED BY <1>3
<1>5. reached(e, S) = b[N]
  BY DEF reached, Children
<1> HIDE DEF b
<1>6. \A k \in 1 .. N : k \in 0 .. N /\ k # 0 /\ k - 1 \in 0 .. N
  BY <1>1
<1>7. b[0] = S \ {None} /\ \A k \in 1 .. N : b[k] = b[k - 1] \union Children(e, b[k - 1])
  <2> HIDE DEF N
  <2>1. b[0] = S \ {None}
    BY <1>1, <1>4
  <2>2. ASSUME NEW k \in 1 .. N PROVE b[k] = b[k - 1] \union Children(e, b[k - 1])
    BY <1>4, <1>6, <2>2
  <2> QED BY <2>1, <2>2
<1>8. 0 .. N \subseteq {k \in 0 .. N : b[k] \in V}
  <2> DEFINE A == {k \in 0 .. N : b[k] \in V}
  <2>1. 0 \in A
    BY <1>1, <1>2, <1>7
  <2>2. ASSUME NEW k \in 1 .. N, k - 1 \in A PROVE k \in A
    BY <1>6, <1>7, <2>2, ChildrenAre
  <2> HIDE DEF A
  <2>3. 0 .. N \subseteq A
    BY <1>1, <2>1, <2>2, StepByStep
  <2> QED BY <2>3 DEF A
<1>9. b \in [0 .. N -> V]
  BY <1>4, <1>8
<1> QED BY <1>5, <1>7, <1>9

\* What can be reached is the least set that contains S and, with a directory,
\* its entries: as many levels as there are directories are enough.
LEMMA Reached ==
    ASSUME NEW e \in Entries, NEW S \in SUBSET (Inode \union {None})
    PROVE  /\ S \ {None} \subseteq reached(e, S) /\ reached(e, S) \subseteq Inode
           /\ Closed(e, reached(e, S))
           /\ \A T \in SUBSET Inode : S \ {None} \subseteq T /\ Closed(e, T) => reached(e, S) \subseteq T
<1> DEFINE N == Cardinality(Dir)
<1>1. N \in Nat
  BY DirIsFinite
<1>2. PICK b \in [0 .. N -> SUBSET Inode] :
          /\ b[0] = S \ {None}
          /\ \A k \in 1 .. N : b[k] = b[k - 1] \union Children(e, b[k - 1])
          /\ reached(e, S) = b[N]
  BY Zenon, ReachedSteps
<1> HIDE DEF N
<1>3. \A k \in 1 .. N : k \in 0 .. N /\ k # 0 /\ k - 1 \in 0 .. N
  BY <1>1
<1>4. N \in 0 .. N /\ 0 \in 0 .. N
  BY <1>1
<1>5. \A k \in 0 .. N : b[k] \in SUBSET Inode
  BY <1>2
<1>6. S \ {None} \subseteq b[N]
  <2> DEFINE A == {k \in 0 .. N : S \ {None} \subseteq b[k]}
  <2>1. 0 \in A
    BY <1>2, <1>4
  <2>2. ASSUME NEW k \in 1 .. N, k - 1 \in A PROVE k \in A
    BY <1>2, <1>3, <2>2
  <2> HIDE DEF A
  <2>3. 0 .. N \subseteq A
    BY <1>1, <2>1, <2>2, StepByStep
  <2> QED BY <1>4, <2>3 DEF A
<1>7. ASSUME NEW T \in SUBSET Inode, S \ {None} \subseteq T, Closed(e, T) PROVE b[N] \subseteq T
  <2> DEFINE A == {k \in 0 .. N : b[k] \subseteq T}
  <2>1. 0 \in A
    BY <1>2, <1>4, <1>7
  <2>2. ASSUME NEW k \in 1 .. N, k - 1 \in A PROVE k \in A
    <3>1. b[k - 1] \subseteq T /\ b[k] = b[k - 1] \union Children(e, b[k - 1])
      BY <1>2, <1>3, <2>2
    <3>2. Children(e, b[k - 1]) \subseteq T
      BY <1>7, <3>1, ChildIsEntry DEF Closed
    <3> QED BY <1>3, <3>1, <3>2
  <2> HIDE DEF A
  <2>3. 0 .. N \subseteq A
    BY <1>1, <2>1, <2>2, StepByStep
  <2> QED BY <1>4, <2>3 DEF A
<1>8. Closed(e, b[N])
  <2> DEFINE D(k) == b[k] \intersect Dir
             A == {k \in 0 .. N : Closed(e, b[k]) \/ Cardinality(D(k)) >= k + 1}
  <2>1. ASSUME NEW k \in 0 .. N
        PROVE  /\ IsFiniteSet(D(k)) /\ Cardinality(D(k)) \in Nat
               /\ Cardinality(D(k)) <= N /\ D(k) \subseteq Dir
    BY DirIsFinite, FS_Subset, FS_CardinalityType DEF N
  <2>2. 0 \in A
    <3>1. CASE D(0) = {}
      BY <1>4, <3>1 DEF Closed
    <3>2. CASE D(0) # {}
      <4>1. Cardinality(D(0)) # 0
        BY <1>4, <2>1, <3>2, FS_EmptySet
      <4>2. Cardinality(D(0)) >= 0 + 1
        <5> HIDE DEF D
        <5> QED BY <1>4, <2>1, <4>1
      <4> QED BY <1>4, <4>2
    <3> QED BY <3>1, <3>2
  <2>3. ASSUME NEW k \in 1 .. N, k - 1 \in A PROVE k \in A
    <3>1. b[k] = b[k - 1] \union Children(e, b[k - 1]) /\ k \in 0 .. N /\ k - 1 \in 0 .. N
      BY <1>2, <1>3
    <3>2. D(k - 1) \subseteq D(k)
      BY <3>1
    <3>3. CASE D(k) = D(k - 1)
      <4>1. Children(e, b[k]) = Children(e, b[k - 1])
        BY <3>3 DEF Children
      <4>2. Children(e, b[k]) \subseteq b[k]
        BY <3>1, <4>1
      <4>3. Closed(e, b[k])
        BY <1>5, <3>1, <4>2, ChildrenAre
      <4> QED BY <3>1, <4>3
    <3>4. CASE D(k) # D(k - 1)
      <4>1. ~Closed(e, b[k - 1])
        <5> SUFFICES ASSUME Closed(e, b[k - 1]) PROVE FALSE
          OBVIOUS
        <5>1. Children(e, b[k - 1]) \subseteq b[k - 1]
          BY <1>5, <3>1, ChildrenAre
        <5> QED BY <3>1, <3>4, <5>1
      <4>2. Cardinality(D(k - 1)) >= (k - 1) + 1
        BY <2>3, <4>1
      <4>3. Cardinality(D(k - 1)) < Cardinality(D(k))
        <5> HIDE DEF D
        <5>1. IsFiniteSet(D(k)) /\ Cardinality(D(k)) \in Nat /\ Cardinality(D(k - 1)) \in Nat
          BY <2>1, <3>1
        <5>2. Cardinality(D(k - 1)) <= Cardinality(D(k)) /\ Cardinality(D(k - 1)) # Cardinality(D(k))
          BY <3>2, <3>4, <5>1, FS_Subset
        <5> QED BY <5>1, <5>2
      <4>4. Cardinality(D(k)) >= k + 1
        <5> HIDE DEF D
        <5> QED BY <2>1, <3>1, <4>2, <4>3
      <4> QED BY <3>1, <4>4
    <3> QED BY <3>3, <3>4
  <2>4. 0 .. N \subseteq A
    <3> HIDE DEF A
    <3> QED BY <1>1, <2>2, <2>3, StepByStep
  <2>5. ~(Cardinality(D(N)) >= N + 1)
    <3> HIDE DEF D
    <3> QED BY <1>1, <1>4, <2>1
  <2> QED BY <1>4, <2>4, <2>5
<1> QED BY <1>2, <1>4, <1>5, <1>6, <1>7, <1>8

\* With fewer entries, not more can be reached.
LEMMA FewerReached ==
    ASSUME NEW e \in Entries, NEW f \in Entries, NEW S \in SUBSET (Inode \union {None}),
           \A i \in Dir : \A n \in Name : f[i][n] \in {None, e[i][n]}
    PROVE  reached(f, S) \subseteq reached(e, S)
<1>1. Closed(f, reached(e, S))
  BY Reached DEF Closed
<1> QED BY <1>1, Reached

\* What is in the tree.
InTree(e) == reached(e, {Root})

\* Inodes are told apart by their type, and from no inode.
LEMMA TreeTypes ==
    /\ None \notin Inode /\ Root \in Dir /\ Dir \subseteq Inode /\ File \subseteq Inode
    /\ Directory \subseteq Dir /\ Root \notin Directory \union File
    /\ Dir \intersect File = {} /\ Inode = Dir \union File
  BY TreeAssumption DEF Inode, Dir

\* What is in the tree: the root, with a directory its entries, and no more.
LEMMA TreeFacts ==
    ASSUME NEW e, IsTree(e)
    PROVE  /\ e \in Entries
           /\ Root \in InTree(e) /\ InTree(e) \subseteq Inode /\ Closed(e, InTree(e))
           /\ \A T \in SUBSET Inode : Root \in T /\ Closed(e, T) => InTree(e) \subseteq T
<1>1. e \in Entries
  BY TreeTypes DEF IsTree, Entries
<1>2. {Root} \in SUBSET (Inode \union {None}) /\ {Root} \ {None} = {Root}
  BY TreeTypes
<1> QED BY <1>1, <1>2, Reached DEF InTree

\* An empty directory has no entries.
LEMMA NothingIn ==
    ASSUME NEW e, NEW i, e[i] = NoEntries, NEW n \in Name
    PROVE  e[i][n] = None
  BY DEF NoEntries

\* A new name for a file, or for a new directory (make_dir(), mkdir(), open(),
\* link()).
LEMMA AddedIsTree ==
    ASSUME NEW e, IsTree(e), NEW d \in Dir, NEW n \in Name, d \in InTree(e), e[d][n] = None,
           NEW i \in Directory \union File, i \in Directory => i \notin InTree(e),
           NEW f, f = [e EXCEPT ![d][n] = i]
    PROVE  IsTree(f) /\ InTree(f) = InTree(e) \union {i}
<1>1. f \in [Dir -> [Name -> Directory \union File \union {None}]]
  BY DEF IsTree
<1>2. /\ f[d][n] = i
      /\ \A c \in Dir : \A m \in Name : c # d \/ m # n => f[c][m] = e[c][m]
      /\ \A c \in Dir : c # d => f[c] = e[c]
  BY DEF IsTree
<1>3. f \in Entries /\ e \in Entries /\ i \in Inode /\ i # None
  BY <1>1, TreeTypes, TreeFacts DEF Entries
<1>4. {Root} \in SUBSET (Inode \union {None}) /\ {Root} \ {None} = {Root}
  BY TreeTypes
<1>5. ASSUME i \in Directory PROVE \A c \in Dir : \A m \in Name : e[c][m] # i
  <2> SUFFICES ASSUME NEW c \in Dir, NEW m \in Name, e[c][m] = i PROVE FALSE
    OBVIOUS
  <2>1. c \notin InTree(e)
    BY <1>3, <1>5, TreeFacts DEF Closed
  <2>2. e[c] = NoEntries
    BY <2>1 DEF IsTree, InTree
  <2> QED BY <1>3, <2>2, NothingIn
<1>6. i \in Directory => e[i] = NoEntries
  BY TreeTypes DEF IsTree, InTree
<1>7. InTree(f) \subseteq InTree(e) \union {i}
  <2>1. ASSUME NEW c \in (InTree(e) \union {i}) \intersect Dir, NEW m \in Name
        PROVE  f[c][m] \in InTree(e) \union {i} \union {None}
    <3>1. CASE c \in InTree(e)
      BY <1>2, <3>1, TreeFacts DEF Closed
    <3>2. CASE c \notin InTree(e)
      <4>1. c = i /\ i \in Directory /\ c # d
        BY <2>1, <3>2, TreeTypes
      <4>2. f[c] = e[c] /\ e[c][m] = None
        BY <1>2, <1>6, <4>1, NothingIn
      <4> QED BY <4>2
    <3> QED BY <3>1, <3>2
  <2>2. Closed(f, InTree(e) \union {i})
    BY <2>1 DEF Closed
  <2>3. InTree(e) \union {i} \in SUBSET Inode /\ Root \in InTree(e)
    BY <1>3, TreeFacts
  <2> QED BY <1>3, <1>4, <2>2, <2>3, Reached DEF InTree
<1>8. InTree(e) \subseteq InTree(f)
  <2>1. \A c \in Dir : \A m \in Name : e[c][m] \in {None, f[c][m]}
    BY <1>2
  <2> QED BY <1>3, <1>4, <2>1, FewerReached DEF InTree
<1>9. i \in InTree(f)
  <2>1. Closed(f, InTree(f))
    BY <1>3, <1>4, Reached DEF InTree
  <2> QED BY ZenonT(30), <1>2, <1>3, <1>8, <2>1 DEF Closed
<1>10. \A j \in Directory : \A a, c \in Dir : \A l, m \in Name :
          f[a][l] = j /\ f[c][m] = j => a = c /\ l = m
  <2> SUFFICES ASSUME NEW j \in Directory, NEW a \in Dir, NEW c \in Dir, NEW l \in Name, NEW m \in Name,
                      f[a][l] = j, f[c][m] = j
               PROVE  a = c /\ l = m
    OBVIOUS
  <2>1. CASE j = i
    BY <1>2, <1>5, <2>1
  <2>2. CASE j # i
    <3>1. e[a][l] = j /\ e[c][m] = j
      BY <1>2, <2>2
    <3> QED BY <3>1 DEF IsTree
  <2> QED BY <2>1, <2>2
<1>11. ASSUME NEW c \in Dir, f[c] # NoEntries PROVE c \in reached(f, {Root})
  BY ZenonT(30), <1>2, <1>8, <1>11 DEF IsTree, InTree
<1>12. IsTree(f)
  BY <1>1, <1>10, <1>11 DEF IsTree
<1> QED BY <1>7, <1>8, <1>9, <1>12

\* A name of a file or of an empty directory is removed (unlink_file(),
\* remove_dir()).
LEMMA RemovedIsTree ==
    ASSUME NEW e, IsTree(e), NEW d \in Dir, NEW n \in Name, NEW i, i = e[d][n],
           i \in Directory => e[i] = NoEntries,
           NEW f \in [Dir -> [Name -> Directory \union File \union {None}]], f[d][n] = None,
           \A c \in Dir : \A m \in Name : c # d \/ m # n => f[c][m] = e[c][m]
    PROVE  IsTree(f) /\ InTree(f) \subseteq InTree(e) /\ InTree(e) \subseteq InTree(f) \union {i}
<1>3. f \in Entries /\ e \in Entries /\ i \in Inode \union {None} /\ (i \in Dir => i \in Directory)
  BY TreeTypes, TreeFacts DEF Entries, IsTree, Dir
<1>4. {Root} \in SUBSET (Inode \union {None}) /\ {Root} \ {None} = {Root}
  BY TreeTypes
<1>5. InTree(f) \subseteq InTree(e)
  <2>1. \A c \in Dir : \A m \in Name : f[c][m] \in {None, e[c][m]}
    OBVIOUS
  <2> QED BY <1>3, <1>4, <2>1, FewerReached DEF InTree
<1>6. Root \in InTree(f) /\ InTree(f) \subseteq Inode /\ Closed(f, InTree(f))
  BY <1>3, <1>4, Reached DEF InTree
<1>7. InTree(e) \subseteq InTree(f) \union {i}
  <2> DEFINE T == (InTree(f) \union {i}) \ {None}
  <2>1. ASSUME NEW c \in T \intersect Dir, NEW m \in Name PROVE e[c][m] \in T \union {None}
    <3>1. CASE c \in InTree(f)
      <4>1. f[c][m] \in InTree(f) \union {None}
        BY <1>6, <3>1 DEF Closed
      <4> QED BY <4>1
    <3>2. CASE c \notin InTree(f)
      <4>1. c = i /\ i \in Directory
        BY <1>3, <3>2
      <4>2. e[c][m] = None
        BY <4>1, NothingIn
      <4> QED BY <4>2
    <3> QED BY <3>1, <3>2
  <2>2. Closed(e, T) /\ T \in SUBSET Inode /\ Root \in T
    BY <1>3, <1>6, <2>1, TreeTypes DEF Closed
  <2> HIDE DEF T
  <2>3. InTree(e) \subseteq T
    BY <2>2, TreeFacts
  <2> QED BY <2>3 DEF T
<1>8. \A j \in Directory : \A a, c \in Dir : \A l, m \in Name :
          f[a][l] = j /\ f[c][m] = j => a = c /\ l = m
  <2> SUFFICES ASSUME NEW j \in Directory, NEW a \in Dir, NEW c \in Dir, NEW l \in Name, NEW m \in Name,
                      f[a][l] = j, f[c][m] = j
               PROVE  a = c /\ l = m
    OBVIOUS
  <2>1. e[a][l] = j /\ e[c][m] = j
    BY TreeTypes
  <2> QED BY <2>1 DEF IsTree
<1>9. ASSUME NEW c \in Dir, f[c] # NoEntries PROVE c \in reached(f, {Root})
  <2>1. e[c] # NoEntries
    <3> SUFFICES ASSUME e[c] = NoEntries PROVE f[c] = NoEntries
      BY <1>9
    <3>1. \A m \in Name : f[c][m] = None
      BY NothingIn
    <3>2. f[c] \in [Name -> Directory \union File \union {None}]
      OBVIOUS
    <3> QED BY <3>1, <3>2 DEF NoEntries
  <2>2. c \in InTree(e)
    BY <2>1 DEF IsTree, InTree
  <2>3. c # i
    BY <1>3, <2>1
  <2> QED BY <1>7, <2>2, <2>3 DEF InTree
<1> QED BY <1>5, <1>7, <1>8, <1>9 DEF IsTree

\* A directory is moved out of one directory into another, which is not below
\* it (rename()).
LEMMA MovedIsTree ==
    ASSUME NEW e, IsTree(e), NEW i \in Directory, NEW c \in Dir, NEW m \in Name, e[c][m] = i,
           NEW d \in Dir, NEW n \in Name, e[d][n] = None, d \in InTree(e), d \notin reached(e, {i}),
           c # d \/ m # n,
           NEW f \in [Dir -> [Name -> Directory \union File \union {None}]],
           f[d][n] = i, f[c][m] = None,
           \A a \in Dir : \A l \in Name : (a # d \/ l # n) /\ (a # c \/ l # m) => f[a][l] = e[a][l]
    PROVE  IsTree(f)
<1> DEFINE g == [e EXCEPT ![c][m] = None]
<1>1. /\ g \in [Dir -> [Name -> Directory \union File \union {None}]] /\ g[c][m] = None
      /\ \A a \in Dir : \A l \in Name : a # c \/ l # m => g[a][l] = e[a][l]
  BY DEF IsTree
<1> HIDE DEF g
<1>2. /\ g[d][n] = None /\ i # None
      /\ \A a \in Dir : \A l \in Name : a # d \/ l # n => f[a][l] = g[a][l]
  BY SMTT(60), <1>1, TreeTypes
<1>3. f \in Entries /\ e \in Entries /\ g \in Entries /\ i \in Inode
  BY <1>1, TreeTypes, TreeFacts DEF Entries
<1>4. /\ {Root} \in SUBSET (Inode \union {None}) /\ {Root} \ {None} = {Root}
      /\ {i} \in SUBSET (Inode \union {None}) /\ {i} \ {None} = {i}
  BY <1>2, <1>3, TreeTypes
<1>5. d \in InTree(g)
  <2> DEFINE T == InTree(g) \union reached(e, {i})
  <2>1. /\ Root \in InTree(g) /\ InTree(g) \subseteq Inode /\ Closed(g, InTree(g))
        /\ i \in reached(e, {i}) /\ reached(e, {i}) \subseteq Inode /\ Closed(e, reached(e, {i}))
    BY ZenonT(30), <1>3, <1>4, Reached DEF InTree
  <2>2. ASSUME NEW a \in T \intersect Dir, NEW l \in Name PROVE e[a][l] \in T \union {None}
    <3>1. CASE a = c /\ l = m
      BY <2>1, <3>1
    <3>2. CASE a \in InTree(g) /\ (a # c \/ l # m)
      BY <1>1, <2>1, <3>2 DEF Closed
    <3>3. CASE a \in reached(e, {i})
      BY <2>1, <3>3 DEF Closed
    <3> QED BY <3>1, <3>2, <3>3
  <2>3. Closed(e, T) /\ T \in SUBSET Inode /\ Root \in T
    BY <2>1, <2>2 DEF Closed
  <2> HIDE DEF T
  <2>4. InTree(e) \subseteq T
    BY <2>3, TreeFacts
  <2> QED BY <2>4 DEF T
<1>6. InTree(g) \subseteq InTree(f)
  <2>1. \A a \in Dir : \A l \in Name : g[a][l] \in {None, f[a][l]}
    BY <1>2
  <2> QED BY <1>3, <1>4, <2>1, FewerReached DEF InTree
<1>7. Root \in InTree(f) /\ InTree(f) \subseteq Inode /\ Closed(f, InTree(f))
  BY <1>3, <1>4, Reached DEF InTree
<1>8. i \in InTree(f)
  BY <1>2, <1>5, <1>6, <1>7 DEF Closed
<1>9. InTree(e) \subseteq InTree(f)
  <2>1. ASSUME NEW a \in InTree(f) \intersect Dir, NEW l \in Name PROVE e[a][l] \in InTree(f) \union {None}
    <3>1. CASE a = c /\ l = m
      BY <1>8, <3>1
    <3>2. CASE a = d /\ l = n
      BY <3>2
    <3>3. CASE (a # c \/ l # m) /\ (a # d \/ l # n)
      BY <1>2, <1>7, <3>3 DEF Closed
    <3> QED BY <3>1, <3>2, <3>3
  <2>2. Closed(e, InTree(f))
    BY <2>1 DEF Closed
  <2> QED BY <1>7, <2>2, TreeFacts
<1>10. \A j \in Directory : \A a, b \in Dir : \A k, l \in Name :
          f[a][k] = j /\ f[b][l] = j => a = b /\ k = l
  <2> SUFFICES ASSUME NEW j \in Directory, NEW a \in Dir, NEW b \in Dir, NEW k \in Name, NEW l \in Name,
                      f[a][k] = j, f[b][l] = j
               PROVE  a = b /\ k = l
    OBVIOUS
  <2>1. j # None
    BY TreeTypes
  <2>2. CASE j = i
    <3>1. ASSUME NEW x \in Dir, NEW y \in Name, f[x][y] = i PROVE x = d /\ y = n
      <4> SUFFICES ASSUME x # d \/ y # n PROVE FALSE
        OBVIOUS
      <4>1. x # c \/ y # m
        BY <1>2, <3>1
      <4>2. e[x][y] = i
        BY <1>2, <3>1, <4>1
      <4> QED BY <4>1, <4>2 DEF IsTree
    <3> QED BY <2>2, <3>1
  <2>3. CASE j # i
    <3>1. e[a][k] = j /\ e[b][l] = j
      BY <1>2, <2>1, <2>3
    <3> QED BY <3>1 DEF IsTree
  <2> QED BY <2>2, <2>3
<1>11. ASSUME NEW a \in Dir, f[a] # NoEntries PROVE a \in reached(f, {Root})
  <2>1. CASE a = d
    BY <1>5, <1>6, <2>1 DEF InTree
  <2>2. CASE a # d
    <3>1. e[a] # NoEntries
      <4> SUFFICES ASSUME e[a] = NoEntries PROVE f[a] = NoEntries
        BY <1>11
      <4>1. \A l \in Name : f[a][l] = None
        BY <1>2, <2>2, NothingIn
      <4>2. f[a] \in [Name -> Directory \union File \union {None}]
        OBVIOUS
      <4> QED BY <4>1, <4>2 DEF NoEntries
    <3> QED BY <1>9, <3>1 DEF IsTree, InTree
  <2> QED BY <2>1, <2>2
<1> QED BY <1>10, <1>11 DEF IsTree

\* A path leads to something in the tree, and its last step is an entry.
LEMMA WalkStays ==
    ASSUME NEW e, IsTree(e), NEW path \in Path
    PROVE  /\ \A k \in 0 .. Len(path) : walk(e, path)[k] \in InTree(e) \union {None}
           /\ \A k \in 1 .. Len(path) : walk(e, path)[k] \in Directory \union File \union {None}
<1>1. /\ Len(path) \in Nat \ {0} /\ Len(path) <= MaxDepth
      /\ walk(e, path) \in [0 .. Len(path) -> Inode \union {None}]
      /\ walk(e, path)[0] = Root
      /\ \A k \in 1 .. Len(path) : path[k] \in Name /\ walk(e, path)[k] =
                IF isDir(walk(e, path)[k - 1]) THEN e[walk(e, path)[k - 1]][path[k]] ELSE None
  BY TreeFacts, WalkSteps
<1> DEFINE w == walk(e, path)
           N == Len(path)
           A == {k \in 0 .. N : w[k] \in InTree(e) \union {None}}
<1> HIDE DEF w, N
<1>2. 0 \in A
  BY <1>1, TreeFacts DEF w, N
<1>3. ASSUME NEW k \in 1 .. N, k - 1 \in A PROVE k \in A
  <2>1. k \in 0 .. N
    BY <1>1 DEF N
  <2>2. CASE isDir(w[k - 1])
    <3>1. w[k - 1] \in InTree(e) \intersect Dir
      BY <1>3, <2>2, TreeTypes DEF isDir
    <3>2. w[k] = e[w[k - 1]][path[k]] /\ path[k] \in Name
      BY <1>1, <2>2 DEF w, N
    <3> QED BY <2>1, <3>1, <3>2, TreeFacts DEF Closed
  <2>3. CASE ~isDir(w[k - 1])
    BY <1>1, <2>1, <2>3 DEF w, N
  <2> QED BY <2>2, <2>3
<1> HIDE DEF A
<1>4. 0 .. N \subseteq A
  BY <1>1, <1>2, <1>3, StepByStep DEF N
<1>5. ASSUME NEW k \in 1 .. Len(path) PROVE walk(e, path)[k] \in Directory \union File \union {None}
  BY <1>1 DEF IsTree, isDir
<1> QED BY <1>4, <1>5 DEF A, w, N

\* lookup() and parent() of a path that exists.
LEMMA Lookup ==
    ASSUME IsTree(entry), NEW path \in Path
    PROVE  /\ lookup(path) \in (InTree(entry) \intersect (Directory \union File)) \union {None}
           /\ parent(path) \in (InTree(entry) \intersect Dir) \union {None}
           /\ last(path) \in Name
           /\ parent(path) # None => entry[parent(path)][last(path)] = lookup(path)
           /\ parent(path) = None => lookup(path) = None
<1>1. /\ Len(path) \in Nat \ {0} /\ Len(path) <= MaxDepth
      /\ \A k \in 1 .. Len(path) : path[k] \in Name /\ walk(entry, path)[k] =
                IF isDir(walk(entry, path)[k - 1]) THEN entry[walk(entry, path)[k - 1]][path[k]] ELSE None
  BY TreeFacts, WalkSteps
<1>2. /\ \A k \in 0 .. Len(path) : walk(entry, path)[k] \in InTree(entry) \union {None}
      /\ \A k \in 1 .. Len(path) : walk(entry, path)[k] \in Directory \union File \union {None}
  BY WalkStays
<1>3. Len(path) \in 1 .. Len(path) /\ Len(path) \in 0 .. Len(path) /\ Len(path) - 1 \in 0 .. Len(path)
  BY <1>1
<1> QED BY <1>1, <1>2, <1>3, TreeTypes DEF lookup, parent, last, isDir

\* The directories in which a system call may look for the end of a path: all
\* are directories of the file system, and there is only one unless the path
\* leads through a symbolic link.
LEMMA PlacesAre ==
    ASSUME IsTree(entry), Open \subseteq Dir, NEW path \in Path
    PROVE  /\ linked(path) => lookup(path) = None /\ parent(path) = None
           /\ ~linked(path) => places(path) = {parent(path)} /\ child(parent(path), last(path)) = lookup(path)
           /\ \A d \in places(path) : d # None =>
                 /\ d \in Dir /\ child(d, last(path)) = entry[d][last(path)]
                 /\ Open = {} => d \in InTree(entry)
<1> DEFINE w == walk(entry, path)
           N == Len(path)
<1>1. /\ N \in Nat \ {0} /\ parent(path) = IF isDir(w[N - 1]) THEN w[N - 1] ELSE None
      /\ \A k \in 1 .. N : w[k] = IF isDir(w[k - 1]) THEN entry[w[k - 1]][path[k]] ELSE None
  BY TreeFacts, WalkSteps DEF parent
<1>2. linked(path) <=> \E k \in 1 .. N - 1 : w[k] \in Link
  BY DEF linked
<1> HIDE DEF w, N
<1>3. ASSUME linked(path) PROVE parent(path) = None
  <2>1. PICK k \in 1 .. N - 1 : w[k] \in Link
    BY <1>2, <1>3
  <2> DEFINE M == N - 1 - k
             A == {j \in 0 .. M : ~isDir(w[k + j])}
  <2>2. M \in Nat /\ k + 0 = k /\ k + M = N - 1
    BY <1>1
  <2>3. 0 \in A
    <3>1. w[k] \in File
      BY <2>1, TreeAssumption
    <3>2. ~isDir(w[k])
      BY <3>1, TreeTypes DEF isDir
    <3>3. 0 \in 0 .. M
      BY <2>2
    <3> QED BY <2>2, <3>2, <3>3
  <2>4. ASSUME NEW j \in 1 .. M, j - 1 \in A PROVE j \in A
    <3>1. j \in 0 .. M /\ k + j \in 1 .. N /\ k + j - 1 = k + (j - 1)
      BY <1>1, <2>2
    <3>2. w[k + j] = None
      BY <1>1, <2>4, <3>1
    <3> QED BY <3>1, <3>2, TreeTypes DEF isDir
  <2>5. M \in 0 .. M
    BY <2>2
  <2> HIDE DEF A
  <2>6. 0 .. M \subseteq A
    BY <2>2, <2>3, <2>4, StepByStep
  <2>7. ~isDir(w[N - 1])
    BY <2>2, <2>5, <2>6 DEF A
  <2> QED BY <1>1, <2>7
<1>4. /\ parent(path) \in Dir \union {None} /\ parent(path) \in InTree(entry) \union {None}
      /\ parent(path) # None => entry[parent(path)][last(path)] = lookup(path)
      /\ parent(path) = None => lookup(path) = None
  BY Lookup
<1>5. ~linked(path) => places(path) = {parent(path)} /\ child(parent(path), last(path)) = lookup(path)
  BY <1>4 DEF places, child
<1>6. ASSUME NEW d \in places(path), d # None
      PROVE  d \in Dir /\ child(d, last(path)) = entry[d][last(path)] /\ (Open = {} => d \in InTree(entry))
  <2>1. CASE linked(path)
    <3>1. d \in below({Root} \union Open) \intersect Dir
      BY <1>6, <2>1 DEF places, linkTargets
    <3>2. Open = {} => below({Root} \union Open) = InTree(entry)
      BY DEF below, InTree
    <3> QED BY <1>6, <3>1, <3>2 DEF child
  <2>2. CASE ~linked(path)
    BY <1>4, <1>6, <2>2 DEF places, child
  <2> QED BY <2>1, <2>2
<1> QED BY <1>3, <1>4, <1>5, <1>6

-----------------------------------------------------------------------------
(* What one step does to the tree *)

\* The inode of a new file or directory is not in the tree, whether or not it
\* is open.
LEMMA UnusedIsNew ==
    ASSUME IsTree(entry), Open \subseteq Dir, NEW S \in SUBSET (Directory \union File), NEW i \in unused(S)
    PROVE  i \in S /\ i \notin InTree(entry) /\ i \notin below({Root} \union Open)
<1>1. i \in S /\ i \notin below({Root} \union Open)
  BY DEF unused
<1>2. /\ {Root} \in SUBSET (Inode \union {None}) /\ {Root} \ {None} = {Root}
      /\ {Root} \union Open \in SUBSET (Inode \union {None}) /\ Root \in ({Root} \union Open) \ {None}
      /\ entry \in Entries
  BY TreeTypes, TreeFacts
<1>3. InTree(entry) \subseteq below({Root} \union Open)
  BY <1>2, Reached DEF InTree, below
<1> QED BY <1>1, <1>3

\* make_dir(), mkdir() and open() make a new entry.
LEMMA MakingKeeps ==
    ASSUME IsTree(entry), Open \subseteq Dir, NEW S \in SUBSET (Directory \union File), NEW i \in unused(S),
           NEW path \in Path, parent(path) # None, lookup(path) = None,
           entry' = with(parent(path), last(path), i)
    PROVE  IsTree(entry')
<1>1. i \in S /\ i \notin InTree(entry) /\ i \in Directory \union File
  BY UnusedIsNew
<1>2. /\ parent(path) \in InTree(entry) /\ parent(path) \in Dir /\ last(path) \in Name
      /\ entry[parent(path)][last(path)] = None
  BY Lookup
<1>3. entry' = [entry EXCEPT ![parent(path)][last(path)] = i]
  BY DEF with
<1> QED BY <1>1, <1>2, <1>3, AddedIsTree

\* unlink_file() and remove_dir() remove an entry.
LEMMA RemovingKeeps ==
    ASSUME IsTree(entry), NEW path \in Path, lookup(path) # None,
           isDir(lookup(path)) => empty(lookup(path)),
           entry' = with(parent(path), last(path), None)
    PROVE  IsTree(entry')
<1>1. /\ parent(path) \in Dir /\ last(path) \in Name
      /\ entry[parent(path)][last(path)] = lookup(path)
  BY Lookup
<1>2. lookup(path) \in Directory => entry[lookup(path)] = NoEntries
  BY <1>1, TreeTypes DEF isDir, empty
<1> DEFINE d == parent(path)
           n == last(path)
<1>3. entry' = [entry EXCEPT ![d][n] = None]
  BY DEF with
<1> HIDE DEF d, n
<1>4. /\ entry' \in [Dir -> [Name -> Directory \union File \union {None}]] /\ entry'[d][n] = None
      /\ \A c \in Dir : \A m \in Name : c # d \/ m # n => entry'[c][m] = entry[c][m]
  BY <1>1, <1>3 DEF IsTree, d, n
<1> QED BY SMTT(30), <1>1, <1>2, <1>4, RemovedIsTree DEF d, n

\* rename() replaces a file or an empty directory and moves what is there.
LEMMA RenamingKeeps ==
    ASSUME IsTree(entry), NEW old \in Path, NEW new \in Path, OtherRenames(old, new)
    PROVE  IsTree(entry')
<1> DEFINE i == lookup(old)
           j == lookup(new)
           c == parent(old)
           m == last(old)
           d == parent(new)
           n == last(new)
           e == [entry EXCEPT ![d][n] = None]
<1>1. /\ i # None /\ d # None /\ j # i
      /\ isDir(i) => d \notin below({i})
      /\ j # None => (isDir(i) <=> isDir(j)) /\ (isDir(j) => empty(j))
      /\ entry' = [with(c, m, None) EXCEPT ![d][n] = i]
  BY DEF OtherRenames, Changed
<1>2. /\ i \in Directory \union File /\ i \in InTree(entry) /\ j \in Directory \union File \union {None}
      /\ c \in Dir /\ m \in Name /\ entry[c][m] = i
      /\ d \in Dir /\ d \in InTree(entry) /\ n \in Name /\ entry[d][n] = j
  BY <1>1, Lookup
<1>3. entry' = [[entry EXCEPT ![c][m] = None] EXCEPT ![d][n] = i]
  BY <1>1 DEF with
<1> HIDE DEF i, j, c, m, d, n
<1>4. c # d \/ m # n
  BY <1>1, <1>2
<1>5. j \in Directory => entry[j] = NoEntries
  BY <1>1, TreeTypes DEF isDir, empty
<1>6. IsTree(e) /\ InTree(e) \subseteq InTree(entry) /\ InTree(entry) \subseteq InTree(e) \union {j}
  <2>1. e = [entry EXCEPT ![d][n] = None]
    OBVIOUS
  <2> HIDE DEF e
  <2>2. /\ e \in [Dir -> [Name -> Directory \union File \union {None}]] /\ e[d][n] = None
        /\ \A a \in Dir : \A l \in Name : a # d \/ l # n => e[a][l] = entry[a][l]
    BY <1>2, <2>1 DEF IsTree
  <2> QED BY SMTT(30), <1>2, <1>5, <2>2, RemovedIsTree
<1>7. /\ e[c][m] = i /\ e[d][n] = None
      /\ \A a \in Dir : \A l \in Name : a # d \/ l # n => e[a][l] = entry[a][l]
      /\ \A a \in Dir : a # d => e[a] = entry[a]
  BY <1>2, <1>4 DEF IsTree
<1>8. d \in InTree(e)
  <2>1. d # j
    <3> SUFFICES ASSUME d = j PROVE FALSE
      OBVIOUS
    <3>1. j # None
      BY <1>2, TreeTypes
    <3>2. entry[d] = NoEntries
      BY <1>1, <1>2, <3>1 DEF empty, isDir
    <3> QED BY <1>2, <3>1, <3>2, NothingIn
  <2> QED BY <1>2, <1>6, <2>1
<1>9. CASE i \in Directory
  <2>1. d \notin reached(entry, {i})
    BY <1>1, <1>9, TreeTypes DEF isDir, below
  <2>2. e \in Entries /\ entry \in Entries /\ {i} \in SUBSET (Inode \union {None})
    BY <1>2, <1>6, TreeFacts, TreeTypes
  <2>3. \A a \in Dir : \A l \in Name : e[a][l] \in {None, entry[a][l]}
    BY <1>7
  <2> HIDE DEF e
  <2>4. d \notin reached(e, {i})
    BY Zenon, <2>1, <2>2, <2>3, FewerReached
  <2> DEFINE f == entry'
  <2>5. /\ f \in [Dir -> [Name -> Directory \union File \union {None}]]
        /\ f[d][n] = i /\ f[c][m] = None
        /\ \A a \in Dir : \A l \in Name : (a # d \/ l # n) /\ (a # c \/ l # m) => f[a][l] = entry[a][l]
    BY ZenonT(60), <1>2, <1>3, <1>4 DEF IsTree
  <2>6. \A a \in Dir : \A l \in Name : (a # d \/ l # n) /\ (a # c \/ l # m) => f[a][l] = e[a][l]
    BY <1>7, <2>5
  <2> HIDE DEF f
  <2>7. IsTree(f)
    BY <1>2, <1>4, <1>6, <1>7, <1>8, <1>9, <2>4, <2>5, <2>6, MovedIsTree
  <2> QED BY <2>7 DEF f
<1>10. CASE i \notin Directory
  <2> DEFINE g == [e EXCEPT ![d][n] = i]
             f == [g EXCEPT ![c][m] = None]
  <2>1. g = [e EXCEPT ![d][n] = i] /\ f = [g EXCEPT ![c][m] = None]
    OBVIOUS
  <2> HIDE DEF e, f, g
  <2>2. IsTree(g)
    BY <1>2, <1>6, <1>7, <1>8, <1>10, <2>1, AddedIsTree
  <2>3. /\ g[c][m] = i /\ g[d][n] = i
        /\ \A a \in Dir : \A l \in Name : a # d \/ l # n => g[a][l] = e[a][l]
    BY <1>2, <1>4, <1>6, <1>7, <2>1 DEF IsTree
  <2>4. f \in [Dir -> [Name -> Directory \union File \union {None}]]
    BY <2>1, <2>2 DEF IsTree
  <2>5. f[c][m] = None /\ \A a \in Dir : \A l \in Name : a # c \/ l # m => f[a][l] = g[a][l]
    <3>1. g \in [Dir -> [Name -> Directory \union File \union {None}]]
      BY <2>2 DEF IsTree
    <3>2. c \in Dir /\ m \in Name
      BY <1>2
    <3>3. \A a \in Dir : f[a] = IF a = c THEN [g[c] EXCEPT ![m] = None] ELSE g[a]
      BY <2>1, <3>1
    <3>4. \A l \in Name : [g[c] EXCEPT ![m] = None][l] = IF l = m THEN None ELSE g[c][l]
      BY <3>1, <3>2
    <3> QED BY <3>2, <3>3, <3>4
  <2>6. /\ entry' \in [Dir -> [Name -> Directory \union File \union {None}]]
        /\ entry'[d][n] = i /\ entry'[c][m] = None
        /\ \A a \in Dir : \A l \in Name :
              (a # d \/ l # n) /\ (a # c \/ l # m) => entry'[a][l] = entry[a][l]
    BY ZenonT(60), <1>2, <1>3, <1>4 DEF IsTree
  <2>7. ASSUME NEW a \in Dir, NEW l \in Name PROVE entry'[a][l] = f[a][l]
    BY <1>4, <1>7, <2>3, <2>5, <2>6
  <2>8. IsTree(f)
    <3>1. c \in Dir /\ m \in Name /\ i = g[c][m] /\ (i \in Directory => g[i] = NoEntries)
      BY <1>2, <1>10, <2>3
    <3> QED BY SMTT(30), <2>2, <2>4, <2>5, <3>1, RemovedIsTree
  <2>9. entry' = f
    BY <2>4, <2>6, <2>7
  <2> QED BY <2>8, <2>9
<1> QED BY <1>9, <1>10

\* A prefix of a path is a path, and leads to the same.
LEMMA PrefixIsPath ==
    ASSUME NEW path \in Path, NEW n \in 1 .. Len(path)
    PROVE  /\ SubSeq(path, 1, n) \in Path /\ Len(SubSeq(path, 1, n)) = n
           /\ \A k \in 1 .. n : SubSeq(path, 1, n)[k] = path[k]
<1>1. PICK m \in 1 .. MaxDepth : path \in [1 .. m -> Name]
  BY DEF Path
<1>2. m \in Nat /\ path \in Seq(Name) /\ Len(path) = m
  BY <1>1, TreeAssumption
<1>3. /\ SubSeq(path, 1, n) \in [1 .. n -> Name] /\ Len(SubSeq(path, 1, n)) = n
      /\ \A k \in 1 .. n : SubSeq(path, 1, n)[k] = path[k]
  <2>1. n \in Nat /\ 1 <= n /\ n <= m /\ 1 .. n \subseteq 1 .. m
    BY <1>2
  <2>2. /\ SubSeq(path, 1, n) \in Seq(Name) /\ Len(SubSeq(path, 1, n)) = n
        /\ \A k \in 1 .. n : SubSeq(path, 1, n)[k] = path[k]
    BY <1>2, <2>1, SubSeqProperties
  <2>3. SubSeq(path, 1, n) \in [1 .. Len(SubSeq(path, 1, n)) -> Name]
    BY <2>2, LenProperties
  <2> QED BY <2>2, <2>3
<1>4. n \in 1 .. MaxDepth
  BY <1>1, <1>2, TreeAssumption
<1> QED BY <1>3, <1>4 DEF Path

\* Whatever others do, the entries stay a tree.
LEMMA OthersKeep ==
    ASSUME IsTree(entry), Open \subseteq Dir, OtherStep
    PROVE  IsTree(entry')
<1>1. ASSUME NEW path \in Path, NEW what \in {Directory, File \ Link, Link}, OtherMakes(path, what)
      PROVE  IsTree(entry')
  <2>1. what \in SUBSET (Directory \union File)
    BY TreeAssumption
  <2> QED BY <1>1, <2>1, MakingKeeps DEF OtherMakes, Changed
<1>2. ASSUME NEW path \in Path, OtherUnlinks(path) PROVE IsTree(entry')
  BY <1>2, RemovingKeeps DEF OtherUnlinks, Changed
<1>3. ASSUME NEW path \in Path, OtherRemovesDir(path) PROVE IsTree(entry')
  <2>1. lookup(path) # None
    BY <1>3, TreeTypes DEF OtherRemovesDir, empty, isDir
  <2> QED BY <1>3, <2>1, RemovingKeeps DEF OtherRemovesDir, Changed
<1>4. ASSUME NEW old \in Path, NEW new \in Path, OtherLinks(old, new) PROVE IsTree(entry')
  <2> DEFINE i == lookup(old)
             d == parent(new)
             n == last(new)
  <2>1. /\ i # None /\ ~isDir(i) /\ d # None /\ entry[d][n] = None
        /\ entry' = [entry EXCEPT ![d][n] = i]
    BY <1>4 DEF OtherLinks, Changed, with
  <2>2. i \in File /\ i \in Directory \union File /\ i \notin Directory
        /\ d \in InTree(entry) /\ d \in Dir /\ n \in Name
    BY <2>1, Lookup, TreeTypes DEF isDir
  <2> HIDE DEF i, d, n
  <2> QED BY <2>1, <2>2, AddedIsTree
<1> QED BY <1>1, <1>2, <1>3, <1>4, RenamingKeeps DEF OtherStep

\* The streams are of directories.
LEMMA StreamsAreTyped ==
    ASSUME streams \in Seq(StreamType)
    PROVE  /\ Open \subseteq Dir /\ Len(streams) \in Nat /\ DOMAIN streams = 1 .. Len(streams)
           /\ \A k \in 1 .. Len(streams) : streams[k] \in StreamType
           /\ streams # <<>> => Len(streams) \in 1 .. Len(streams) /\ top \in StreamType
<1>1. Len(streams) \in Nat /\ DOMAIN streams = 1 .. Len(streams)
  BY LenProperties
<1>2. \A k \in 1 .. Len(streams) : streams[k] \in StreamType
  BY <1>1, ElementOfSeq
<1>3. Open \subseteq Dir
  BY <1>2 DEF Open, StreamType
<1>4. streams # <<>> => Len(streams) \in 1 .. Len(streams)
  BY <1>1, EmptySeq
<1> QED BY <1>1, <1>2, <1>3, <1>4 DEF top

\* Whatever step is taken, the entries stay a tree.
LEMMA TreeStays ==
    ASSUME IsTree(entry), Typed, CallFits, NextTree
    PROVE  IsTree(entry')
<1>1. /\ Open \subseteq Dir /\ Len(streams) \in Nat /\ DOMAIN streams = 1 .. Len(streams)
      /\ \A k \in 1 .. Len(streams) : streams[k] \in StreamType
      /\ streams # <<>> => Len(streams) \in 1 .. Len(streams) /\ top \in StreamType
  BY StreamsAreTyped DEF Typed
<1>2. CASE Calls
  <2>1. ASSUME NEW path \in Path, RemoveTree(path) \/ MakeAllDirs(path) PROVE IsTree(entry')
    BY <2>1 DEF RemoveTree, MakeAllDirs, Begins
  <2>2. ASSUME CloseTempDir PROVE IsTree(entry')
    BY <2>2 DEF CloseTempDir, Begins
  <2>3. ASSUME NEW n \in Name, CreateTempDir(n) PROVE IsTree(entry')
    <3>1. PICK i \in unused(Directory) : entry' = [entry EXCEPT ![Root][n] = i]
      BY <2>3 DEF CreateTempDir, with
    <3>2. entry[Root][n] = None
      BY <2>3 DEF CreateTempDir
    <3>3. i \in Directory \union File /\ i \notin InTree(entry)
      BY <1>1, UnusedIsNew
    <3>4. Root \in Dir /\ Root \in InTree(entry)
      BY TreeTypes, TreeFacts
    <3> QED BY <3>1, <3>2, <3>3, <3>4, AddedIsTree
  <2>4. ASSUME NEW path, AssignTempDir(path) PROVE IsTree(entry')
    BY <2>4 DEF AssignTempDir
  <2> QED BY <1>2, <2>1, <2>2, <2>3, <2>4 DEF Calls
<1>3. CASE CallStep
  <2>1. CASE OpenRoot \/ Status \/ Enter \/ EndOfStream \/ MakeAllDirsReturns \/ \E n \in Name : NextEntry(n)
    BY Zenon, <2>1 DEF OpenRoot, Status, Enter, EndOfStream, MakeAllDirsReturns, NextEntry, Delivered, Throws
  <2>2. CASE Unlink
    <3>1. CASE entry' = entry
      BY <3>1
    <3>2. CASE entry' # entry
      <4> DEFINE d == top.dir
                 i == entry[d][current]
      <4>1. ~isDir(i) /\ entry' = [entry EXCEPT ![d][current] = None]
        BY <2>2, <3>2 DEF Unlink, Throws, Removed, with
      <4>2. at \in AtEntry /\ at \in InStream
        BY <2>2 DEF Unlink, AtEntry, InStream
      <4>3. current \in Name /\ d \in Dir
        BY <1>1, <4>2 DEF CallFits, StreamType
      <4> HIDE DEF d
      <4>4. /\ entry' \in [Dir -> [Name -> Directory \union File \union {None}]] /\ entry'[d][current] = None
            /\ \A c \in Dir : \A m \in Name : c # d \/ m # current => entry'[c][m] = entry[c][m]
        BY <4>1, <4>3 DEF IsTree
      <4>5. i \in Directory => entry[i] = NoEntries
        BY <4>1, TreeTypes DEF isDir
      <4> HIDE DEF i
      <4>6. i = entry[d][current]
        BY DEF i
      <4> QED BY <4>3, <4>4, <4>5, <4>6, RemovedIsTree
    <3> QED BY <3>1, <3>2
  <2>3. CASE RemoveDirAt
    <3>1. CASE entry' = entry
      BY <3>1
    <3>2. CASE entry' # entry
      <4> DEFINE outer == SubSeq(streams, 1, Len(streams) - 1)
                 d == outer[Len(outer)].dir
                 n == top.name
                 i == entry[d][n]
      <4>1. empty(i) /\ entry' = [entry EXCEPT ![d][n] = None]
        BY Zenon, <2>3, <3>2 DEF RemoveDirAt, Throws, Removed, with
      <4>2. at = "removeAt" /\ at \in InStream
        BY <2>3 DEF RemoveDirAt, InStream
      <4>3. Len(streams) > 1 /\ streams # <<>>
        BY <4>2 DEF CallFits
      <4>4. Len(streams) - 1 \in 1 .. Len(streams) /\ Len(outer) = Len(streams) - 1
            /\ outer[Len(outer)] = streams[Len(streams) - 1]
        BY <1>1, <4>3 DEF Typed
      <4>5. n \in Name /\ d \in Dir
        <5>1. d \in Dir /\ n \in Name \union {None}
          BY <1>1, <4>3, <4>4 DEF StreamType
        <5>2. n # None
          BY <1>1, <4>3 DEF Typed, top
        <5> QED BY <5>1, <5>2
      <4> HIDE DEF d, n
      <4>6. /\ entry' \in [Dir -> [Name -> Directory \union File \union {None}]] /\ entry'[d][n] = None
            /\ \A c \in Dir : \A m \in Name : c # d \/ m # n => entry'[c][m] = entry[c][m]
        BY <4>1, <4>5 DEF IsTree
      <4>7. i \in Directory => entry[i] = NoEntries
        BY <4>1 DEF empty
      <4> HIDE DEF i
      <4>8. i = entry[d][n]
        BY DEF i
      <4> QED BY SMTT(30), <4>5, <4>6, <4>7, <4>8, RemovedIsTree
    <3> QED BY <3>1, <3>2
  <2>4. CASE RemoveDir
    <3>1. CASE entry' = entry
      BY <3>1
    <3>2. CASE entry' # entry
      <4>1. arg \in Path
        BY <2>4 DEF RemoveDir, CallFits
      <4>2. PICK d \in places(arg) : empty(child(d, last(arg))) /\ entry' = with(d, last(arg), None)
        BY <2>4, <3>2 DEF RemoveDir, Throws
      <4> DEFINE n == last(arg)
                 i == entry[d][n]
      <4>3. d # None
        BY <4>2, TreeTypes DEF child, empty, isDir
      <4>4. d \in Dir /\ n \in Name /\ empty(i) /\ entry' = [entry EXCEPT ![d][n] = None]
        BY <1>1, <4>1, <4>2, <4>3, PlacesAre, Lookup DEF with
      <4> HIDE DEF n
      <4>5. /\ entry' \in [Dir -> [Name -> Directory \union File \union {None}]] /\ entry'[d][n] = None
            /\ \A c \in Dir : \A m \in Name : c # d \/ m # n => entry'[c][m] = entry[c][m]
        BY <4>4 DEF IsTree
      <4>6. i \in Directory => entry[i] = NoEntries
        BY <4>4 DEF empty
      <4> HIDE DEF i
      <4>7. i = entry[d][n]
        BY DEF i
      <4>8. d \in Dir /\ n \in Name
        BY <4>4
      <4> QED BY SMTT(30), <4>5, <4>6, <4>7, <4>8, RemovedIsTree
    <3> QED BY <3>1, <3>2
  <2>5. CASE MakeDir
    <3>1. CASE entry' = entry
      BY <3>1
    <3>2. CASE entry' # entry
      <4> DEFINE prefix == SubSeq(arg, 1, pos)
                 n == last(prefix)
      <4>1. /\ at = "mkdir" /\ pos <= Len(arg)
            /\ \E d \in places(prefix) : \E i \in unused(Directory) :
                  d # None /\ child(d, n) = None /\ entry' = with(d, n, i)
        BY <2>5, <3>2 DEF MakeDir, Throws
      <4>2. arg \in Path /\ pos \in 1 .. Len(arg) + 1 /\ Open = {}
        BY <1>1, <4>1 DEF CallFits, InStream, AtEntry, Open
      <4>3. prefix \in Path
        BY <4>1, <4>2, PrefixIsPath
      <4> HIDE DEF prefix
      <4>4. PICK d \in places(prefix), i \in unused(Directory) :
                d # None /\ child(d, n) = None /\ entry' = with(d, n, i)
        BY <4>1
      <4>5. d \in Dir /\ d \in InTree(entry) /\ entry[d][n] = None /\ n \in Name
        BY <1>1, <4>2, <4>3, <4>4, PlacesAre, Lookup
      <4>6. i \in Directory \union File /\ i \notin InTree(entry)
        BY <1>1, UnusedIsNew
      <4>7. entry' = [entry EXCEPT ![d][n] = i]
        BY <4>4 DEF with
      <4> HIDE DEF n
      <4> QED BY <4>5, <4>6, <4>7, AddedIsTree
    <3> QED BY <3>1, <3>2
  <2> QED BY Zenon, <1>3, <2>1, <2>2, <2>3, <2>4, <2>5 DEF CallStep
<1> QED BY <1>1, <1>2, <1>3, OthersKeep DEF NextTree

-----------------------------------------------------------------------------
(* Where a call is *)

\* What a call works on consists of inodes.
LEMMA ScopeIsTyped ==
    IsTree(entry) /\ arg \in Path /\ streams \in Seq(StreamType) => scope \subseteq Inode
<1> SUFFICES ASSUME IsTree(entry), arg \in Path, streams \in Seq(StreamType) PROVE scope \subseteq Inode
  OBVIOUS
<1>1. lookup(arg) \in Inode \union {None} /\ Open \subseteq Dir
  BY Lookup, StreamsAreTyped, TreeTypes
<1>2. {lookup(arg)} \union Open \in SUBSET (Inode \union {None}) /\ entry \in Entries
  BY <1>1, TreeTypes, TreeFacts
<1> QED BY <1>2, Reached DEF scope, below

\* The same after a step.
LEMMA ScopeStaysTyped ==
    IsTree(entry)' /\ arg' \in Path /\ streams' \in Seq(StreamType) => scope' \subseteq Inode
<1>1. (IsTree(entry) /\ arg \in Path /\ streams \in Seq(StreamType) => scope \subseteq Inode)'
  BY ScopeIsTyped, PTL
<1> QED BY <1>1

\* A call returns.
LEMMA EndsFits ==
    ASSUME Typed, NEW r \in {"ok", "error", "NO_ERROR", "EXISTS"}, Ends(r),
           tmp_path' \in Path \union {None}, tmp_path' # None => Len(tmp_path') = 1
    PROVE  Typed' /\ CallFits'
<1>1. /\ streams' = <<>> /\ streams' \in Seq(StreamType) /\ DOMAIN streams' = {}
      /\ Len(streams') = 0
  BY DEF Ends
<1>2. others' \in 0 .. MaxOthers
  BY TreeAssumption DEF Ends
<1>3. Typed'
  BY <1>1, <1>2 DEF Typed, Ends
<1>4. CallFits'
  BY <1>1 DEF CallFits, Ends, InStream, AtEntry, removing
<1> QED BY <1>3, <1>4

\* A call begins.
LEMMA BeginsFits ==
    ASSUME IsTree(entry), Typed, CallFits, NEW path \in Path, NEW f, NEW label, NEW prefix,
           Begins(f, path, label, prefix),
           \/ f = "remove_tree" /\ label = "open" /\ prefix = 0
           \/ f = "close" /\ label = "open" /\ prefix = 0 /\ tmp_path = path
           \/ f = "make_all_dirs" /\ label = "mkdir" /\ prefix = 1
    PROVE  Typed' /\ CallFits'
<1>1. streams = <<>>
  BY DEF Begins, CallFits, InStream, AtEntry
<1>2. others' \in 0 .. MaxOthers /\ Len(path) \in Nat \ {0}
  BY WalkSteps, TreeFacts, TreeAssumption DEF Begins
<1>3. at' # "idle" /\ members' = members \union scope' /\ arg' \in Path /\ streams' = streams /\ entry' = entry
  BY DEF Begins, Remember
<1>4. IsTree(entry)' /\ streams' \in Seq(StreamType)
  BY <1>3 DEF Typed
<1>5. scope' \subseteq Inode
  BY <1>3, <1>4, ScopeStaysTyped
<1>6. Typed'
  BY <1>2, <1>3, <1>5 DEF Typed, Begins
<1>7. CallFits'
  BY <1>1, <1>2, <1>3 DEF CallFits, Begins, InStream, AtEntry, removing
<1> QED BY <1>6, <1>7

\* remove_tree() goes on.
LEMMA GoesFits ==
    ASSUME IsTree(entry'), Typed, CallFits, NEW label \in InStream, Goes(label),
           at \in InStream \union {"open"}, streams' \in Seq(StreamType), streams' # <<>>,
           \A k \in DOMAIN streams' : streams'[k].name = None <=> k = 1,
           current' \in Name \union {None}, label \in AtEntry => current' \in Name,
           label = "removeAt" => Len(streams') > 1, label = "remove" => Len(streams') = 1
    PROVE  Typed' /\ CallFits'
<1>1. /\ at' = label /\ op' = op /\ arg' = arg /\ pos' = pos /\ made' = made
      /\ result' = result /\ tmp_path' = tmp_path /\ before' = before /\ others' = others
      /\ members' = members \union scope'
  BY DEF Goes, call, Remember, InStream, AtEntry
<1>2. at # "idle" /\ at # "mkdir" /\ arg \in Path
  BY DEF CallFits, InStream, AtEntry
<1>3. scope' \subseteq Inode
  BY <1>1, <1>2, ScopeStaysTyped
<1>4. Typed'
  BY <1>1, <1>3 DEF Typed
<1>5. /\ removing /\ op # "make_all_dirs" /\ pos = 0
      /\ op = "close" => tmp_path = arg
      /\ at' # "idle" /\ at' # "open" /\ at' # "mkdir"
  BY <1>1, <1>2 DEF CallFits, removing, InStream, AtEntry
<1>6. CallFits'
  BY <1>1, <1>2, <1>5 DEF CallFits, removing
<1> QED BY <1>4, <1>6

\* Others change the tree.
LEMMA ChangedFits ==
    ASSUME IsTree(entry'), Typed, CallFits, NEW e, Changed(e), at # "idle" => others < MaxOthers
    PROVE  Typed' /\ CallFits'
<1>1. /\ at' = at /\ op' = op /\ arg' = arg /\ pos' = pos /\ made' = made /\ streams' = streams
      /\ current' = current /\ tmp_path' = tmp_path /\ before' = None /\ result' = "none"
      /\ at = "idle" => members' = {}
      /\ at # "idle" => members' = members \union scope'
  BY DEF Changed, call, locals, Remember
<1>2. others' \in 0 .. MaxOthers
  BY TreeAssumption DEF Changed, Typed
<1>3. at # "idle" => scope' \subseteq Inode
  BY <1>1, ScopeStaysTyped DEF CallFits, Typed
<1>4. Typed'
  BY <1>1, <1>2, <1>3 DEF Typed
<1>5. CallFits'
  BY <1>1 DEF CallFits, removing
<1> QED BY <1>4, <1>5

\* make_all_dirs() goes on with the next prefix.
LEMMA MakesFits ==
    ASSUME IsTree(entry'), Typed, CallFits, at = "mkdir", pos <= Len(arg), NextPrefix(pos + 1), made' \in BOOLEAN
    PROVE  Typed' /\ CallFits'
<1>1. /\ at' = at /\ op' = op /\ arg' = arg /\ streams' = streams
      /\ current' = current /\ tmp_path' = tmp_path /\ before' = before /\ result' = result /\ others' = others
      /\ members' = members \union scope' /\ pos' = pos + 1
  BY DEF NextPrefix, call, Remember
<1>2. scope' \subseteq Inode
  BY <1>1, ScopeStaysTyped DEF CallFits, Typed
<1>3. arg \in Path /\ pos \in 1 .. Len(arg) + 1 /\ Len(arg) \in Nat
  BY WalkSteps, TreeFacts DEF CallFits
<1>4. pos' \in 1 .. Len(arg) + 1 /\ pos' \in Nat
  BY <1>1, <1>3
<1>5. Typed'
  BY <1>1, <1>2, <1>4 DEF Typed
<1>6. CallFits'
  BY <1>1, <1>3, <1>4 DEF CallFits, removing, InStream, AtEntry
<1> QED BY <1>5, <1>6

\* A stream that is opened.
LEMMA StreamIsTyped ==
    ASSUME NEW i \in Dir, NEW n \in Name \union {None}
    PROVE  Stream(i, n) \in StreamType /\ Stream(i, n).name = n
  BY DEF Stream, StreamType

\* Whatever step is taken, it is known where the call is.
LEMMA FitsStays ==
    ASSUME IsTree(entry), IsTree(entry'), Typed, CallFits, NextTree
    PROVE  Typed' /\ CallFits'
<1>1. /\ Open \subseteq Dir /\ Len(streams) \in Nat /\ DOMAIN streams = 1 .. Len(streams)
      /\ \A k \in 1 .. Len(streams) : streams[k] \in StreamType
      /\ streams # <<>> => Len(streams) \in 1 .. Len(streams) /\ top \in StreamType
      /\ streams \in Seq(StreamType)
      /\ \A k \in DOMAIN streams : streams[k].name = None <=> k = 1
      /\ tmp_path \in Path \union {None} /\ (tmp_path # None => Len(tmp_path) = 1)
  BY StreamsAreTyped DEF Typed
<1>2. ASSUME Throws PROVE Typed' /\ CallFits'
  BY <1>1, <1>2, EndsFits DEF Throws
<1>3. CASE Calls
  <2>1. ASSUME NEW path \in Path, RemoveTree(path) PROVE Typed' /\ CallFits'
    BY <2>1, BeginsFits DEF RemoveTree
  <2>2. ASSUME NEW path \in Path, MakeAllDirs(path) PROVE Typed' /\ CallFits'
    BY <2>2, BeginsFits DEF MakeAllDirs
  <2>3. ASSUME CloseTempDir PROVE Typed' /\ CallFits'
    <3>1. tmp_path \in Path
      BY <1>1, <2>3 DEF CloseTempDir
    <3> QED BY <2>3, <3>1, BeginsFits DEF CloseTempDir
  <2>4. ASSUME NEW n \in Name PROVE <<n>> \in Path /\ Len(<<n>>) = 1
    <3>1. 1 \in 1 .. MaxDepth /\ <<n>> \in [1 .. 1 -> Name]
      BY TreeAssumption
    <3> QED BY <3>1 DEF Path
  <2>5. ASSUME NEW n \in Name, CreateTempDir(n) PROVE Typed' /\ CallFits'
    BY <2>4, <2>5, EndsFits DEF CreateTempDir
  <2>6. ASSUME NEW path \in {<<n>> : n \in Name} \union {None}, AssignTempDir(path) PROVE Typed' /\ CallFits'
    BY <2>4, <2>6, EndsFits DEF AssignTempDir
  <2> QED BY <1>3, <2>1, <2>2, <2>3, <2>5, <2>6 DEF Calls
<1>4. CASE CallStep
  <2>1. CASE OpenRoot
    <3>1. CASE Throws
      BY <1>2, <3>1
    <3>2. CASE ~Throws
      <4>0. PICK i \in Dir : streams' = <<Stream(i, None)>> /\ current' = current /\ Goes("next") /\ at = "open"
        BY <2>1, <3>2 DEF OpenRoot, isDir
      <4> DEFINE s == Stream(i, None)
      <4>1. streams' = <<s>> /\ current' = current /\ Goes("next") /\ at = "open"
        BY <4>0
      <4>2. s \in StreamType /\ s.name = None
        BY StreamIsTyped
      <4> HIDE DEF s
      <4>3. /\ streams' \in Seq(StreamType) /\ streams' # <<>> /\ Len(streams') = 1
            /\ \A k \in DOMAIN streams' : streams'[k].name = None <=> k = 1
        BY SMTT(30), <4>1, <4>2
      <4> QED BY <4>1, <4>3, GoesFits DEF Typed, InStream, AtEntry
    <3> QED BY <3>1, <3>2
  <2>2. ASSUME NEW n \in Name, NextEntry(n) PROVE Typed' /\ CallFits'
    <3>1. /\ at = "next" /\ current' = n
          /\ streams' = [streams EXCEPT ![Len(streams)].todo = @ \ {n}, ![Len(streams)].seen = @ \union {n}]
          /\ \E label \in AtEntry : Goes(label)
      BY <2>2 DEF NextEntry, Delivered, AtEntry
    <3>2. streams # <<>>
      BY <3>1 DEF CallFits, InStream
    <3> DEFINE L == Len(streams)
               s == [top EXCEPT !.todo = @ \ {n}, !.seen = @ \union {n}]
    <3>3. s \in StreamType /\ s.name = top.name
      BY <1>1, <3>2 DEF StreamType
    <3>4. streams' = [streams EXCEPT ![L] = s]
      BY <1>1, <3>1, <3>2 DEF top, StreamType
    <3> HIDE DEF s
    <3>5. /\ streams' \in Seq(StreamType) /\ Len(streams') = L /\ DOMAIN streams' = DOMAIN streams
          /\ \A k \in DOMAIN streams : streams'[k] = IF k = L THEN s ELSE streams[k]
      BY <1>1, <3>2, <3>3, <3>4
    <3>6. streams' # <<>> /\ \A k \in DOMAIN streams' : streams'[k].name = None <=> k = 1
      BY SMTT(30), <1>1, <3>2, <3>3, <3>5 DEF top
    <3> QED BY Zenon, <3>1, <3>5, <3>6, GoesFits DEF InStream, AtEntry
  <2>3. CASE Status
    BY ZenonT(30), <1>1, <1>2, <2>3, GoesFits DEF Status, Typed, CallFits, InStream, AtEntry
  <2>4. CASE Enter
    <3>1. CASE Throws
      BY <1>2, <3>1
    <3>2. CASE ~Throws
      <4>0. PICK d \in Dir : /\ streams' = Append(streams, Stream(d, current)) /\ current' = current
                             /\ Goes("next") /\ at = "enter"
        BY <2>4, <3>2 DEF Enter, opened, linkTargets
      <4> DEFINE s == Stream(d, current)
      <4>1. streams' = Append(streams, s) /\ current' = current /\ Goes("next") /\ at = "enter"
        BY <4>0
      <4>2. current \in Name /\ streams # <<>>
        BY <4>1 DEF CallFits, InStream, AtEntry
      <4>3. s \in StreamType /\ s.name # None
        BY <4>2, StreamIsTyped, TreeAssumption
      <4> HIDE DEF s
      <4>4. /\ streams' \in Seq(StreamType) /\ Len(streams') = Len(streams) + 1
            /\ streams'[Len(streams) + 1] = s /\ \A k \in 1 .. Len(streams) : streams'[k] = streams[k]
        BY <1>1, <4>1, <4>3, AppendProperties
      <4>5. DOMAIN streams' = 1 .. Len(streams) + 1
        BY <4>4, LenProperties
      <4>6. streams' # <<>> /\ \A k \in DOMAIN streams' : streams'[k].name = None <=> k = 1
        BY SMTT(30), <1>1, <4>2, <4>3, <4>4, <4>5
      <4> QED BY <4>1, <4>2, <4>4, <4>6, GoesFits DEF InStream, AtEntry
    <3> QED BY <3>1, <3>2
  <2>5. CASE Unlink
    BY ZenonT(30), <1>1, <1>2, <2>5, GoesFits DEF Unlink, Removed, Typed, CallFits, InStream, AtEntry
  <2>6. CASE EndOfStream
    <3>1. at = "next" /\ streams # <<>>
      BY <2>6 DEF EndOfStream, CallFits, InStream
    <3>2. Len(streams) = 1 \/ Len(streams) > 1
      BY <1>1, <3>1
    <3> QED BY <1>1, <2>6, <3>1, <3>2, GoesFits DEF EndOfStream, Typed, InStream, AtEntry
  <2>7. CASE RemoveDirAt
    <3> DEFINE outer == SubSeq(streams, 1, Len(streams) - 1)
    <3>1. CASE Throws
      BY <1>2, <3>1
    <3>2. CASE ~Throws
      <4>1. streams' = outer /\ current' = current /\ Goes("next") /\ at = "removeAt"
        BY <2>7, <3>2 DEF RemoveDirAt, Removed
      <4>2. Len(streams) > 1
        BY <4>1 DEF CallFits
      <4>3. /\ outer \in Seq(StreamType) /\ Len(outer) = Len(streams) - 1
            /\ \A k \in 1 .. Len(streams) - 1 : outer[k] = streams[k]
        BY <1>1, <4>2, SubSeqProperties
      <4> HIDE DEF outer
      <4>4. DOMAIN outer = 1 .. Len(streams) - 1
        BY <4>3, LenProperties
      <4>5. streams' # <<>> /\ \A k \in DOMAIN streams' : streams'[k].name = None <=> k = 1
        BY <1>1, <4>1, <4>2, <4>3, <4>4
      <4> QED BY Zenon, <4>1, <4>3, <4>5, GoesFits DEF Typed, InStream, AtEntry
    <3> QED BY <3>1, <3>2
  <2>8. CASE RemoveDir
    BY <1>1, <1>2, <2>8, EndsFits DEF RemoveDir
  <2>9. CASE MakeDir
    <3>1. CASE Throws
      BY <1>2, <3>1
    <3>2. CASE ~Throws
      <4>1. at = "mkdir" /\ pos <= Len(arg) /\ NextPrefix(pos + 1) /\ made' \in BOOLEAN
        BY <2>9, <3>2 DEF MakeDir, Typed
      <4> QED BY <4>1, MakesFits
    <3> QED BY <3>1, <3>2
  <2>10. CASE MakeAllDirsReturns
    BY <1>1, <2>10, EndsFits DEF MakeAllDirsReturns
  <2> QED BY <1>4, <2>1, <2>2, <2>3, <2>4, <2>5, <2>6, <2>7, <2>8, <2>9, <2>10 DEF CallStep
<1>5. CASE OtherStep
  <2>1. (at # "idle" => others < MaxOthers) /\ \E e : Changed(e)
    BY <1>5 DEF OtherStep, OtherMakes, OtherUnlinks, OtherRemovesDir, OtherLinks, OtherRenames
  <2> QED BY <2>1, ChangedFits
<1> QED BY <1>3, <1>4, <1>5 DEF NextTree

-----------------------------------------------------------------------------
(* What is removed *)

\* What a call works on contains what its path leads to, and the entries of the
\* directories that it has open.
LEMMA ScopeContains ==
    ASSUME IsTree(entry), Typed, arg \in Path
    PROVE  /\ lookup(arg) # None => lookup(arg) \in scope
           /\ \A d \in Open : \A n \in Name : entry[d][n] # None => entry[d][n] \in scope
<1>1. lookup(arg) \in Inode \union {None} /\ Open \subseteq Dir
  BY Lookup, StreamsAreTyped, TreeTypes DEF Typed
<1>2. {lookup(arg)} \union Open \in SUBSET (Inode \union {None}) /\ entry \in Entries
  BY <1>1, TreeTypes, TreeFacts
<1>3. ({lookup(arg)} \union Open) \ {None} \subseteq scope /\ Closed(entry, scope)
  BY <1>2, Reached DEF scope, below
<1>4. \A d \in Open : d \in scope /\ d \in Dir
  BY <1>1, <1>3, TreeTypes
<1> QED BY <1>3, <1>4 DEF Closed

\* No step of a call removes an entry of anything else.
LEMMA StepsRemoveTheirs ==
    ASSUME IsTree(entry), Typed, CallFits, CallStep, NEW i \in Dir, NEW n \in Name,
           entry[i][n] # None, entry'[i][n] # entry[i][n]
    PROVE  removing /\ entry'[i][n] = None /\ (entry[i][n] \in members \/ (at = "remove" /\ linked(arg)))
<1>1. /\ Open \subseteq Dir /\ Len(streams) \in Nat /\ DOMAIN streams = 1 .. Len(streams)
      /\ \A k \in 1 .. Len(streams) : streams[k] \in StreamType
      /\ streams # <<>> => Len(streams) \in 1 .. Len(streams) /\ top \in StreamType
  BY StreamsAreTyped DEF Typed
<1>2. at # "idle" => arg \in Path /\ scope \subseteq members
  BY DEF CallFits
<1>3. ~Throws /\ entry' # entry
  BY DEF Throws
<1>4. ASSUME NEW d \in Dir, NEW m \in Name, NEW j, entry' = with(d, m, j)
      PROVE  i = d /\ n = m /\ entry'[i][n] = j
  BY <1>4 DEF with, IsTree
<1>5. CASE Unlink
  <2>1. entry' = with(top.dir, current, None) /\ at = "unlink"
    BY <1>3, <1>5 DEF Unlink, Removed
  <2>2. removing /\ current \in Name /\ streams # <<>> /\ at # "idle"
    BY <2>1 DEF CallFits, InStream, AtEntry
  <2>3. top.dir \in Dir /\ top.dir \in Open
    BY <1>1, <2>2 DEF StreamType, top, Open
  <2> QED BY <1>2, <1>4, <2>1, <2>2, <2>3, ScopeContains
<1>6. CASE RemoveDirAt
  <2> DEFINE outer == SubSeq(streams, 1, Len(streams) - 1)
             d == outer[Len(outer)].dir
  <2>1. entry' = with(d, top.name, None) /\ at = "removeAt"
    BY <1>3, <1>6 DEF RemoveDirAt, Removed
  <2>2. removing /\ Len(streams) > 1 /\ at # "idle"
    BY <2>1 DEF CallFits, InStream, AtEntry
  <2>3. /\ Len(streams) - 1 \in 1 .. Len(streams) /\ Len(streams) \in 1 .. Len(streams)
        /\ Len(outer) = Len(streams) - 1 /\ outer[Len(outer)] = streams[Len(streams) - 1]
    BY <1>1, <2>2 DEF Typed
  <2>4. d \in Dir /\ d \in Open
    BY <1>1, <2>3 DEF StreamType, Open
  <2>5. top.name \in Name
    <3>1. top.name \in Name \union {None}
      BY <1>1, <2>3 DEF StreamType, top
    <3>2. top.name # None
      BY <1>1, <2>2, <2>3 DEF Typed, top
    <3> QED BY <3>1, <3>2
  <2> HIDE DEF d
  <2> QED BY Zenon, <1>2, <1>4, <2>1, <2>2, <2>4, <2>5, ScopeContains
<1>7. CASE RemoveDir
  <2>1. PICK d \in places(arg) : /\ entry' = with(d, last(arg), None) /\ at = "remove"
                                 /\ empty(child(d, last(arg)))
    BY <1>3, <1>7 DEF RemoveDir
  <2>2. removing /\ arg \in Path
    BY <2>1 DEF CallFits, InStream, AtEntry
  <2>3. child(d, last(arg)) # None /\ d # None
    BY <2>1, TreeTypes DEF empty, isDir, child
  <2>4. d \in Dir /\ last(arg) \in Name /\ entry[d][last(arg)] = child(d, last(arg))
    BY <1>1, <2>2, <2>3, PlacesAre, Lookup
  <2>5. ~linked(arg) => child(d, last(arg)) \in members
    <3>1. ~linked(arg) => child(d, last(arg)) = lookup(arg)
      BY <1>1, <2>2, PlacesAre
    <3> QED BY <1>2, <2>1, <2>2, <2>3, <3>1, ScopeContains
  <2> QED BY <1>4, <2>1, <2>2, <2>4, <2>5
<1>8. CASE MakeDir
  <2> DEFINE prefix == SubSeq(arg, 1, pos)
             m == last(prefix)
  <2>1. /\ at = "mkdir" /\ pos <= Len(arg)
        /\ \E d \in places(prefix) : \E j \in unused(Directory) :
              d # None /\ child(d, m) = None /\ entry' = with(d, m, j)
    BY <1>3, <1>8 DEF MakeDir
  <2>2. arg \in Path /\ pos \in 1 .. Len(arg) + 1
    BY <2>1 DEF CallFits
  <2>3. prefix \in Path
    BY <2>1, <2>2, PrefixIsPath
  <2> HIDE DEF prefix
  <2>4. PICK d \in places(prefix), j \in unused(Directory) : d # None /\ child(d, m) = None /\ entry' = with(d, m, j)
    BY <2>1
  <2>5. d \in Dir /\ m \in Name /\ entry[d][m] = None
    BY <1>1, <2>3, <2>4, PlacesAre, Lookup
  <2> HIDE DEF m
  <2>6. i = d /\ n = m
    BY <1>4, <2>4, <2>5
  <2> QED BY <2>5, <2>6
<1>9. CASE OpenRoot \/ Status \/ Enter \/ EndOfStream \/ MakeAllDirsReturns \/ \E m \in Name : NextEntry(m)
  BY <1>3, <1>9 DEF OpenRoot, Status, Enter, EndOfStream, MakeAllDirsReturns, NextEntry, Delivered
<1> QED BY <1>5, <1>6, <1>7, <1>8, <1>9 DEF CallStep

\* Whoever removes the last step of a path, then the path leads nowhere.
LEMMA RemovedLeadsNowhere ==
    ASSUME IsTree(entry), IsTree(entry'), NEW path \in Path, lookup(path) # None,
           entry' = with(parent(path), last(path), None)
    PROVE  lookup(path)' = None
<1> DEFINE v == walk(entry, path)
           w == walk(entry', path)
           N == Len(path)
<1>1. /\ N \in Nat \ {0} /\ v \in [0 .. N -> Inode \union {None}] /\ v[0] = Root
      /\ \A k \in 1 .. N : path[k] \in Name /\ v[k] = IF isDir(v[k - 1]) THEN entry[v[k - 1]][path[k]] ELSE None
  BY WalkSteps, TreeFacts
<1>2. /\ w[0] = Root
      /\ \A k \in 1 .. N : w[k] = IF isDir(w[k - 1]) THEN entry'[w[k - 1]][path[k]] ELSE None
  BY WalkSteps, TreeFacts
<1>3. parent(path) \in Dir /\ last(path) \in Name /\ parent(path) = v[N - 1] /\ last(path) = path[N]
  BY Lookup DEF parent, last
<1>4. lookup(path)' = w[N]
  BY Zenon DEF lookup
<1> HIDE DEF v, w, N
<1>5. /\ \A d \in Dir : \A n \in Name : entry'[d][n] \in {None, entry[d][n]}
      /\ entry'[v[N - 1]][path[N]] = None
  BY <1>3 DEF with, IsTree
<1>6. N - 1 \in 0 .. N /\ N \in 1 .. N
  BY <1>1
<1>7. ASSUME NEW k \in 1 .. N PROVE k \in 0 .. N /\ k - 1 \in 0 .. N
  BY <1>1
<1>8. 0 .. N \subseteq {k \in 0 .. N : w[k] \in {None, v[k]}}
  <2> DEFINE A == {k \in 0 .. N : w[k] \in {None, v[k]}}
  <2>1. 0 \in A
    BY <1>1, <1>2
  <2>2. ASSUME NEW k \in 1 .. N, k - 1 \in A PROVE k \in A
    BY <1>1, <1>2, <1>5, <1>7, <2>2, TreeTypes DEF isDir
  <2> HIDE DEF A
  <2>3. 0 .. N \subseteq A
    BY <1>1, <2>1, <2>2, StepByStep
  <2> QED BY <2>3 DEF A
<1>9. w[N - 1] \in {None, v[N - 1]}
  BY <1>6, <1>8
<1> QED BY <1>2, <1>4, <1>5, <1>6, <1>9, TreeTypes DEF isDir

\* A TempDir gives up its path only when nothing is there.
LEMMA PathsAreKept ==
    ASSUME IsTree(entry), IsTree(entry'), Typed, CallFits, NextTree, NEW path \in Path,
           tmp_path = path, tmp_path' # path, ~AssignTempDir(tmp_path')
    PROVE  lookup(path)' = None
<1>1. tmp_path # None /\ tmp_path' # tmp_path
  BY TreeAssumption
<1>2. ~Calls
  <2>1. ~ \E p \in {<<n>> : n \in Name} \union {None} : AssignTempDir(p)
    BY DEF AssignTempDir
  <2> QED BY <1>1, <2>1 DEF Calls, RemoveTree, MakeAllDirs, CloseTempDir, CreateTempDir, Begins
<1>3. ~OtherStep
  BY ZenonT(30), <1>1 DEF OtherStep, OtherMakes, OtherUnlinks, OtherRemovesDir, OtherLinks, OtherRenames, Changed
<1>4. RemoveDir
  <2>1. CallStep /\ ~Throws
    BY <1>1, <1>2, <1>3 DEF NextTree, Throws
  <2> QED BY Zenon, <1>1, <2>1 DEF CallStep, OpenRoot, Status, Enter, EndOfStream, MakeAllDirsReturns,
                            NextEntry, Delivered, Unlink, RemoveDirAt, MakeDir, NextPrefix, MakeAllDirsReturns,
                            Removed, Goes
<1>5. PICK d \in places(arg) : /\ at = "remove" /\ empty(child(d, last(arg))) /\ op # "remove_tree"
                               /\ entry' = with(d, last(arg), None)
  BY <1>1, <1>4 DEF RemoveDir, Throws
<1>6. arg = path /\ Len(path) = 1
  BY <1>1, <1>5 DEF CallFits, removing, InStream, AtEntry, Typed
<1>7. d = parent(path) /\ child(d, last(path)) = lookup(path)
  <2>1. ~linked(path)
    BY <1>6 DEF linked
  <2>2. Open \subseteq Dir
    BY StreamsAreTyped DEF Typed
  <2> QED BY <1>5, <1>6, <2>1, <2>2, PlacesAre
<1>8. lookup(path) # None
  BY <1>5, <1>6, <1>7, TreeTypes DEF empty, isDir
<1> QED BY <1>5, <1>6, <1>7, <1>8, RemovedLeadsNowhere

-----------------------------------------------------------------------------
(* Undisturbed: make_all_dirs() *)

\* A prefix of a path is followed as the path is.
LEMMA PrefixLeadsThere ==
    ASSUME IsTree(entry), NEW path \in Path, NEW n \in 1 .. Len(path)
    PROVE  LET w == walk(entry, path)
               prefix == SubSeq(path, 1, n)
           IN /\ lookup(prefix) = w[n] /\ last(prefix) = path[n]
              /\ parent(prefix) = IF isDir(w[n - 1]) THEN w[n - 1] ELSE None
              /\ linked(prefix) <=> \E k \in 1 .. n - 1 : w[k] \in Link
<1> DEFINE w == walk(entry, path)
           prefix == SubSeq(path, 1, n)
           v == walk(entry, prefix)
<1>1. prefix \in Path /\ Len(prefix) = n /\ \A k \in 1 .. n : prefix[k] = path[k]
  BY PrefixIsPath
<1>2. /\ w[0] = Root /\ Len(path) \in Nat
      /\ \A k \in 1 .. Len(path) : w[k] = IF isDir(w[k - 1]) THEN entry[w[k - 1]][path[k]] ELSE None
  BY WalkSteps, TreeFacts
<1> HIDE DEF prefix
<1>3. /\ v[0] = Root
      /\ \A k \in 1 .. n : v[k] = IF isDir(v[k - 1]) THEN entry[v[k - 1]][prefix[k]] ELSE None
  BY <1>1, WalkSteps, TreeFacts
<1> HIDE DEF v, w
<1>4. n \in Nat /\ n - 1 \in 0 .. n /\ n \in 0 .. n /\ n \in 1 .. n
  BY <1>2
<1>5. ASSUME NEW k \in 1 .. n PROVE k \in 1 .. Len(path) /\ k \in 0 .. n
  BY <1>2
<1>6. 0 .. n \subseteq {k \in 0 .. n : v[k] = w[k]}
  <2> DEFINE A == {k \in 0 .. n : v[k] = w[k]}
  <2>1. 0 \in A
    BY <1>2, <1>3, <1>4
  <2>2. ASSUME NEW k \in 1 .. n, k - 1 \in A PROVE k \in A
    BY SMTT(30), <1>1, <1>2, <1>3, <1>5, <2>2
  <2> HIDE DEF A
  <2>3. 0 .. n \subseteq A
    BY <1>4, <2>1, <2>2, StepByStep
  <2> QED BY <2>3 DEF A
<1>7. v[n] = w[n] /\ v[n - 1] = w[n - 1] /\ \A k \in 1 .. n - 1 : v[k] = w[k]
  <2>1. \A k \in 1 .. n - 1 : k \in 0 .. n
    BY <1>4
  <2> QED BY <1>4, <1>6, <2>1
<1>8. /\ lookup(prefix) = v[n] /\ last(prefix) = prefix[n]
      /\ parent(prefix) = IF isDir(v[n - 1]) THEN v[n - 1] ELSE None
      /\ linked(prefix) <=> \E k \in 1 .. n - 1 : v[k] \in Link
  BY <1>1 DEF lookup, last, parent, linked, v
<1> QED BY <1>1, <1>4, <1>7, <1>8 DEF w, prefix

\* Every mkdir() makes what is missing, or finds what is there.
LEMMA MakesStays ==
    ASSUME IsTree(entry), IsTree(entry'), Typed, CallFits, before # None, MakesWhatIsMissing,
           MakeDir, ~Throws
    PROVE  MakesWhatIsMissing'
<1> DEFINE w == walk(entry, arg)
           v == walk(entry', arg)
           prefix == SubSeq(arg, 1, pos)
<1>1. /\ at = "mkdir" /\ pos <= Len(arg) /\ arg \in Path /\ pos \in 1 .. Len(arg)
      /\ pos' = pos + 1 /\ arg' = arg /\ before' = before
  <2>1. /\ at = "mkdir" /\ pos <= Len(arg) /\ pos' = pos + 1 /\ arg' = arg /\ before' = before
    BY DEF MakeDir, NextPrefix, call
  <2>2. arg \in Path /\ pos \in 1 .. Len(arg) + 1 /\ Len(arg) \in Nat
    BY <2>1, WalkSteps, TreeFacts DEF CallFits
  <2> QED BY <2>1, <2>2
<1>2. /\ Len(arg) \in Nat \ {0} /\ w \in [0 .. Len(arg) -> Inode \union {None}] /\ w[0] = Root
      /\ \A k \in 1 .. Len(arg) : arg[k] \in Name /\ w[k] = IF isDir(w[k - 1]) THEN entry[w[k - 1]][arg[k]] ELSE None
  BY <1>1, WalkSteps, TreeFacts
<1>3. /\ v[0] = Root
      /\ \A k \in 1 .. Len(arg) : v[k] = IF isDir(v[k - 1]) THEN entry'[v[k - 1]][arg[k]] ELSE None
  BY <1>1, WalkSteps, TreeFacts
<1>4. /\ lookup(prefix) = w[pos] /\ last(prefix) = arg[pos]
      /\ parent(prefix) = IF isDir(w[pos - 1]) THEN w[pos - 1] ELSE None
      /\ linked(prefix) <=> \E k \in 1 .. pos - 1 : w[k] \in Link
  BY <1>1, PrefixLeadsThere
<1>5. /\ \A i \in Dir : \A n \in Name : before[i][n] \in {None, entry[i][n]}
      /\ ~made => entry = before /\ ~linked(arg)
      /\ \A k \in 1 .. pos - 1 : w[k] # None /\ (k < Len(arg) => w[k] \notin Link)
      /\ made => pos > 1 /\ empty(w[pos - 1])
  BY DEF MakesWhatIsMissing
<1>6. MakesWhatIsMissing' <=>
        /\ \A i \in Dir : \A n \in Name : before[i][n] \in {None, entry'[i][n]}
        /\ ~made' => entry' = before /\ ~linked(arg)'
        /\ \A k \in 1 .. pos : v[k] # None /\ (k < Len(arg) => v[k] \notin Link)
        /\ made' => isDir(v[pos]) /\ entry'[v[pos]] = NoEntries
  <2>1. pos' - 1 = pos /\ pos' > 1
    BY <1>1, <1>2
  <2> QED BY <1>1, <2>1 DEF MakesWhatIsMissing, empty
<1>7. \A k \in 1 .. pos : k \in 1 .. Len(arg)
  BY <1>1, <1>2
<1>8. w[pos - 1] \in InTree(entry) \union {None}
  <2>1. pos - 1 \in 0 .. Len(arg)
    BY <1>1, <1>2
  <2> QED BY <1>1, <2>1, WalkStays
<1>9. linked(arg) <=> \E k \in 1 .. Len(arg) - 1 : w[k] \in Link
  BY DEF linked
<1>10. prefix \in Path
  BY <1>1, PrefixIsPath
<1> HIDE DEF v, w
<1>11. places(prefix) = {parent(prefix)} /\ child(parent(prefix), last(prefix)) = lookup(prefix)
  <2>1. \A k \in 1 .. pos - 1 : k < Len(arg)
    BY <1>1, <1>2
  <2>2. ~linked(prefix)
    BY <1>4, <1>5, <2>1
  <2>3. Open \subseteq Dir
    BY StreamsAreTyped DEF Typed
  <2> HIDE DEF prefix
  <2> QED BY <1>10, <2>2, <2>3, PlacesAre
<1>12. /\ parent(prefix) # None
       /\ \/ lookup(prefix) # None /\ entry' = entry /\ made' = made
          \/ /\ lookup(prefix) = None /\ made' = TRUE
             /\ \E i \in unused(Directory) : entry' = with(parent(prefix), last(prefix), i)
  BY Zenon, <1>11 DEF MakeDir
<1> HIDE DEF prefix
<1>13. CASE lookup(prefix) # None
  <2>1. entry' = entry /\ made' = made
    BY <1>13, <1>12
  <2>2. v = w
    BY <2>1 DEF v, w
  <2>3. w[pos] # None /\ isDir(w[pos - 1]) /\ w[pos] = entry[w[pos - 1]][arg[pos]]
    BY <1>1, <1>2, <1>4, <1>13
  <2>4. ~made
    <3> SUFFICES ASSUME made PROVE FALSE
      OBVIOUS
    <3>1. entry[w[pos - 1]] = NoEntries /\ arg[pos] \in Name
      BY <1>1, <1>2, <1>5 DEF empty
    <3> QED BY <2>3, <3>1, NothingIn
  <2>5. ASSUME NEW k \in 1 .. pos PROVE v[k] # None /\ (k < Len(arg) => v[k] \notin Link)
    <3>1. k = pos \/ k \in 1 .. pos - 1
      BY <1>1
    <3>2. k < Len(arg) => k \in 1 .. Len(arg) - 1
      BY <1>1, <1>2
    <3> QED BY <1>5, <1>9, <2>2, <2>3, <2>4, <3>1, <3>2
  <2>6. linked(arg)' <=> linked(arg)
    BY <1>1, <2>1 DEF linked
  <2> QED BY <1>5, <1>6, <2>1, <2>4, <2>5, <2>6
<1>14. CASE lookup(prefix) = None
  <2>1. parent(prefix) # None /\ made' = TRUE
        /\ \E i \in unused(Directory) : entry' = with(parent(prefix), last(prefix), i)
    BY <1>14, <1>12
  <2> DEFINE p == w[pos - 1]
             n == arg[pos]
  <2>2. isDir(p) /\ p \in Dir /\ n \in Name /\ p \in InTree(entry)
    BY <1>1, <1>2, <1>4, <1>8, <2>1, TreeTypes DEF isDir
  <2>3. PICK i \in unused(Directory) : entry' = [entry EXCEPT ![p][n] = i]
    BY <1>4, <2>1, <2>2 DEF with
  <2>4. i \in Directory /\ i \notin InTree(entry) /\ i # None /\ i \notin Link
    <3>1. i \in Directory /\ i \notin InTree(entry)
      BY StreamsAreTyped, UnusedIsNew DEF Typed
    <3>2. Link \subseteq File
      BY TreeAssumption
    <3> QED BY <3>1, <3>2, TreeTypes
  <2>5. entry[p][n] = None
    BY <1>1, <1>2, <1>4, <1>14, <2>2
  <2> HIDE DEF p, n
  <2>6. /\ entry'[p][n] = i /\ \A d \in Dir : \A m \in Name : d # p \/ m # n => entry'[d][m] = entry[d][m]
        /\ \A d \in Dir : d # p => entry'[d] = entry[d]
    BY <2>2, <2>3 DEF IsTree
  <2>7. \A d \in Dir : \A m \in Name : entry[d][m] # None => entry'[d][m] = entry[d][m]
    BY <2>5, <2>6
  <2>8. 0 .. pos - 1 \subseteq {k \in 0 .. pos - 1 : v[k] = w[k]}
    <3> DEFINE A == {k \in 0 .. pos - 1 : v[k] = w[k]}
    <3>1. 0 \in A /\ pos - 1 \in Nat
      BY <1>1, <1>2, <1>3
    <3>2. ASSUME NEW k \in 1 .. pos - 1, k - 1 \in A PROVE k \in A
      <4>1. k \in 1 .. Len(arg) /\ k \in 0 .. pos - 1
        BY <1>1, <1>2
      <4>2. w[k] # None /\ v[k - 1] = w[k - 1]
        BY <1>5, <3>2
      <4>3. isDir(w[k - 1]) /\ w[k] = entry[w[k - 1]][arg[k]] /\ arg[k] \in Name
        BY <1>2, <4>1, <4>2
      <4>4. v[k] = entry'[w[k - 1]][arg[k]]
        BY <1>3, <4>1, <4>2, <4>3
      <4> QED BY <2>7, <4>1, <4>2, <4>3, <4>4 DEF isDir
    <3> HIDE DEF A
    <3>3. 0 .. pos - 1 \subseteq A
      BY <3>1, <3>2, StepByStep
    <3> QED BY <3>3 DEF A
  <2>9. v[pos] = i
    <3>1. pos - 1 \in 0 .. pos - 1
      BY <1>1
    <3>2. v[pos - 1] = p
      BY <2>8, <3>1 DEF p
    <3> QED BY <1>1, <1>3, <2>2, <2>6, <3>2 DEF n
  <2>10. entry'[i] = NoEntries
    <3>1. entry[i] = NoEntries /\ i \in Dir
      BY <2>4, TreeTypes DEF IsTree, InTree
    <3>2. i # p
      BY <2>2, <2>4
    <3> QED BY <2>6, <3>1, <3>2
  <2>11. ASSUME NEW k \in 1 .. pos PROVE v[k] # None /\ (k < Len(arg) => v[k] \notin Link)
    <3>1. k = pos \/ (k \in 1 .. pos - 1 /\ k \in 0 .. pos - 1)
      BY <1>1
    <3> QED BY <1>5, <2>4, <2>8, <2>9, <3>1
  <2>12. \A d \in Dir : \A m \in Name : before[d][m] \in {None, entry'[d][m]}
    BY <1>5, <2>7
  <2> QED BY <1>6, <2>1, <2>4, <2>9, <2>10, <2>11, <2>12, TreeTypes DEF isDir
<1> QED BY <1>13, <1>14

-----------------------------------------------------------------------------
(* Undisturbed: remove_tree() *)

\* The directories below the root of a tree that is removed: the way to the
\* root does not lead through them, and nothing else does.
LEMMA RootOfRemoved ==
    ASSUME NEW e, IsTree(e), NEW path \in Path, isDir(walk(e, path)[Len(path)])
    PROVE  LET r == walk(e, path)[Len(path)]
               p == walk(e, path)[Len(path) - 1]
               B == reached(e, {r}) \intersect Dir
           IN /\ r \in Directory /\ r \in B /\ B \subseteq Directory
              /\ p \in Dir /\ p \notin B /\ last(path) \in Name /\ e[p][last(path)] = r
              /\ \A i \in B : \A n \in Name : isDir(e[i][n]) => e[i][n] \in B
              /\ \A i \in Dir \ B : \A n \in Name : e[i][n] \in B => i = p /\ n = last(path)
<1> DEFINE r == walk(e, path)[Len(path)]
           p == walk(e, path)[Len(path) - 1]
           R == reached(e, {r})
           B == R \intersect Dir
           n0 == last(path)
<1>1. /\ Len(path) \in Nat \ {0}
      /\ \A k \in 1 .. Len(path) : path[k] \in Name /\ walk(e, path)[k] =
                IF isDir(walk(e, path)[k - 1]) THEN e[walk(e, path)[k - 1]][path[k]] ELSE None
      /\ e \in Entries
  BY TreeFacts, WalkSteps
<1>2. Len(path) \in 1 .. Len(path) /\ Len(path) \in 0 .. Len(path)
  BY <1>1
<1>3. r \in Directory /\ r \in InTree(e)
  <2>1. r \in Directory \union File \union {None} /\ r \in InTree(e) \union {None}
    BY <1>2, WalkStays
  <2> QED BY <2>1, TreeTypes DEF isDir
<1>4. p \in Dir /\ n0 \in Name /\ e[p][n0] = r
  BY <1>1, <1>2, <1>3, TreeTypes DEF isDir, last
<1> HIDE DEF r, p, n0
<1>5. {r} \in SUBSET (Inode \union {None}) /\ {r} \ {None} = {r}
  BY <1>3, TreeTypes
<1>6. /\ r \in R /\ R \subseteq Inode /\ Closed(e, R)
      /\ \A T \in SUBSET Inode : r \in T /\ Closed(e, T) => R \subseteq T
  <2>1. /\ {r} \ {None} \subseteq R /\ R \subseteq Inode /\ Closed(e, R)
        /\ \A T \in SUBSET Inode : {r} \ {None} \subseteq T /\ Closed(e, T) => R \subseteq T
    BY <1>1, <1>5, Reached
  <2> HIDE DEF R
  <2> QED BY <1>5, <2>1
<1> HIDE DEF R
<1>7. R \subseteq Directory \union File
  <2>1. Closed(e, Directory \union File)
    BY TreeTypes DEF Closed, IsTree
  <2>2. Directory \union File \in SUBSET Inode
    BY TreeTypes
  <2> QED BY <1>3, <1>6, <2>1, <2>2
<1>8. B = R \intersect Dir /\ r \in B /\ B \subseteq Directory
  BY <1>3, <1>6, <1>7, TreeTypes
<1> HIDE DEF B
<1>9. ASSUME NEW i \in B, NEW n \in Name, isDir(e[i][n]) PROVE e[i][n] \in B
  <2>1. i \in R \intersect Dir
    BY <1>8
  <2>2. e[i][n] \in R \union {None}
    BY <1>6, <2>1 DEF Closed
  <2>3. e[i][n] \in Dir /\ e[i][n] # None
    BY <1>9, TreeTypes DEF isDir
  <2> QED BY <1>8, <2>2, <2>3
<1>10. ASSUME NEW y \in B, y # r PROVE \E i \in B : \E n \in Name : e[i][n] = y
  <2> SUFFICES ASSUME \A i \in B : \A n \in Name : e[i][n] # y PROVE FALSE
    OBVIOUS
  <2>1. Closed(e, R \ {y})
    BY <1>6, <1>8 DEF Closed
  <2>2. R \ {y} \in SUBSET Inode /\ r \in R \ {y}
    BY <1>6, <1>10
  <2> QED BY <1>6, <1>8, <2>1, <2>2
<1>11. ASSUME NEW i \in Dir \ B, NEW n \in Name, e[i][n] \in B PROVE i = p /\ n = n0
  <2>1. CASE e[i][n] = r
    BY <1>3, <1>4, <2>1 DEF IsTree
  <2>2. CASE e[i][n] # r
    <3>1. PICK j \in B : \E m \in Name : e[j][m] = e[i][n]
      BY <1>10, <1>11, <2>2
    <3>2. e[i][n] \in Directory /\ j \in Dir
      BY <1>8, <1>11
    <3>3. i = j
      BY <3>1, <3>2 DEF IsTree
    <3> QED BY <3>3, <1>11
  <2> QED BY <2>1, <2>2
<1>12. p \notin B
  <2> SUFFICES ASSUME p \in B PROVE FALSE
    OBVIOUS
  <2> DEFINE T == InTree(e) \ B
  <2>1. Root \in InTree(e) /\ InTree(e) \subseteq Inode /\ Closed(e, InTree(e))
    BY TreeFacts
  <2>2. ASSUME NEW i \in T \intersect Dir, NEW n \in Name PROVE e[i][n] \in T \union {None}
    <3>1. e[i][n] \in InTree(e) \union {None}
      BY <2>1 DEF Closed
    <3>2. e[i][n] \notin B
      BY <1>11
    <3> QED BY <3>1, <3>2
  <2>3. Closed(e, T)
    BY <2>2 DEF Closed
  <2>4. T \in SUBSET Inode /\ Root \in T
    BY <1>8, <2>1, TreeTypes
  <2> HIDE DEF T
  <2>5. InTree(e) \subseteq T
    BY <2>3, <2>4, TreeFacts
  <2> QED BY <1>3, <1>8, <2>5 DEF T
<1> QED BY <1>3, <1>4, <1>8, <1>9, <1>11, <1>12 DEF r, p, R, B, n0

\* The path still leads to the root as long as only what is below changes.
LEMMA WayIsUnchanged ==
    ASSUME NEW e, IsTree(e), NEW f, IsTree(f), NEW path \in Path,
           isDir(walk(e, path)[Len(path)]),
           \A i \in Dir \ reached(e, {walk(e, path)[Len(path)]}) : f[i] = e[i]
    PROVE  /\ walk(f, path)[Len(path)] = walk(e, path)[Len(path)]
           /\ walk(f, path)[Len(path) - 1] = walk(e, path)[Len(path) - 1]
<1> DEFINE u == walk(e, path)
           w == walk(f, path)
           N == Len(path)
           r == u[N]
           B == reached(e, {r}) \intersect Dir
           p == u[N - 1]
<1>1. /\ r \in Directory /\ r \in B /\ B \subseteq Directory
      /\ p \in Dir /\ p \notin B /\ last(path) \in Name /\ e[p][last(path)] = r
      /\ \A i \in B : \A n \in Name : isDir(e[i][n]) => e[i][n] \in B
  BY RootOfRemoved
<1>2. /\ N \in Nat \ {0} /\ u[0] = Root
      /\ \A k \in 1 .. N : path[k] \in Name /\ u[k] = IF isDir(u[k - 1]) THEN e[u[k - 1]][path[k]] ELSE None
  BY WalkSteps, TreeFacts
<1>3. /\ w[0] = Root
      /\ \A k \in 1 .. N : w[k] = IF isDir(w[k - 1]) THEN f[w[k - 1]][path[k]] ELSE None
  BY WalkSteps, TreeFacts
<1>4. \A i \in Dir \ B : f[i] = e[i]
  OBVIOUS
<1>5. last(path) = path[N]
  BY DEF last
<1> HIDE DEF u, w, N, B
<1>6. N - 1 \in Nat /\ N - 1 \in 0 .. N - 1 /\ 0 \in 0 .. N - 1 /\ N \in 1 .. N
  BY <1>2
<1>7. 0 .. N - 1 \subseteq {k \in 0 .. N - 1 : u[N - 1 - k] \in Dir \ B}
  <2> DEFINE A == {k \in 0 .. N - 1 : u[N - 1 - k] \in Dir \ B}
  <2>1. 0 \in A
    BY <1>1, <1>2, <1>6
  <2>2. ASSUME NEW k \in 1 .. N - 1, k - 1 \in A PROVE k \in A
    <3>1. k \in 0 .. N - 1 /\ N - 1 - (k - 1) = N - k /\ N - k \in 1 .. N /\ N - k - 1 = N - 1 - k
      BY <1>2
    <3>2. u[N - k] \in Dir \ B
      BY <2>2, <3>1
    <3>3. isDir(u[N - k - 1]) /\ u[N - k] = e[u[N - k - 1]][path[N - k]] /\ path[N - k] \in Name
      BY <1>2, <3>1, <3>2, TreeTypes
    <3>4. u[N - k - 1] \notin B
      BY <1>1, <3>2, <3>3 DEF isDir
    <3> QED BY <3>1, <3>3, <3>4 DEF isDir
  <2> HIDE DEF A
  <2>3. 0 .. N - 1 \subseteq A
    BY <1>6, <2>1, <2>2, StepByStep
  <2> QED BY <2>3 DEF A
<1>8. ASSUME NEW k \in 0 .. N - 1 PROVE u[k] \in Dir \ B
  <2>1. N - 1 - k \in 0 .. N - 1 /\ N - 1 - (N - 1 - k) = k
    BY <1>2
  <2> QED BY <1>7, <2>1
<1>9. 0 .. N - 1 \subseteq {k \in 0 .. N - 1 : w[k] = u[k]}
  <2> DEFINE A == {k \in 0 .. N - 1 : w[k] = u[k]}
  <2>1. 0 \in A
    BY <1>2, <1>3, <1>6
  <2>2. ASSUME NEW k \in 1 .. N - 1, k - 1 \in A PROVE k \in A
    <3>1. k \in 0 .. N - 1 /\ k \in 1 .. N /\ k - 1 \in 0 .. N - 1
      BY <1>2
    <3> QED BY <1>2, <1>3, <1>4, <1>8, <2>2, <3>1
  <2> HIDE DEF A
  <2>3. 0 .. N - 1 \subseteq A
    BY <1>6, <2>1, <2>2, StepByStep
  <2> QED BY <2>3 DEF A
<1>10. w[N - 1] = p
  BY <1>6, <1>9
<1>11. w[N] = r
  BY <1>1, <1>3, <1>4, <1>5, <1>6, <1>10 DEF isDir
<1> QED BY <1>10, <1>11 DEF u, w, N

\* remove_tree() works below the root of its tree, and what is removed is as
\* it was or not there any more.
LEMMA RemovalFacts ==
    ASSUME IsTree(before), arg \in Path, RemovesBelow
    PROVE  LET p == walk(before, arg)[Len(arg) - 1] IN
           /\ removedRoot \in Directory /\ removedRoot \in removedDirs /\ removedDirs \subseteq Directory
           /\ p \in Dir /\ p \notin removedDirs /\ last(arg) \in Name /\ before[p][last(arg)] = removedRoot
           /\ \A i \in removedDirs : \A n \in Name : isDir(entry[i][n]) => entry[i][n] \in removedDirs
           /\ \A i \in Dir \ removedDirs : \A n \in Name :
                 before[i][n] \in removedDirs => i = p /\ n = last(arg)
           /\ \A i \in Dir : \A n \in Name : entry[i][n] # None => entry[i][n] = before[i][n]
<1> DEFINE p == walk(before, arg)[Len(arg) - 1]
<1>1. /\ isDir(removedRoot)
      /\ \A i \in Dir : \A n \in Name : entry[i][n] \in {None, before[i][n]}
  BY DEF RemovesBelow
<1>2. /\ removedRoot \in Directory /\ removedRoot \in removedDirs /\ removedDirs \subseteq Directory
      /\ p \in Dir /\ p \notin removedDirs /\ last(arg) \in Name /\ before[p][last(arg)] = removedRoot
      /\ \A i \in removedDirs : \A n \in Name : isDir(before[i][n]) => before[i][n] \in removedDirs
      /\ \A i \in Dir \ removedDirs : \A n \in Name :
            before[i][n] \in removedDirs => i = p /\ n = last(arg)
  BY <1>1, RootOfRemoved DEF removedRoot, removedDirs
<1> HIDE DEF p
<1>3. ASSUME NEW i \in removedDirs, NEW n \in Name, isDir(entry[i][n]) PROVE entry[i][n] \in removedDirs
  <2>1. entry[i][n] = before[i][n]
    BY <1>1, <1>2, <1>3, TreeTypes DEF isDir
  <2> QED BY <1>2, <1>3, <2>1
<1> QED BY <1>1, <1>2, <1>3 DEF p

\* The streams of a remove_tree(), and where it is.
LEMMA StreamFacts ==
    ASSUME IsTree(entry), Typed, CallFits, Undisturbed, before # None, at \in InStream
    PROVE  /\ IsTree(before) /\ arg \in Path /\ removing
           /\ RemovesBelow /\ StreamsDescend /\ TopIsKnown
           /\ Len(streams) \in Nat \ {0} /\ DOMAIN streams = 1 .. Len(streams)
           /\ Len(streams) \in 1 .. Len(streams)
           /\ streams \in Seq(StreamType) /\ \A k \in 1 .. Len(streams) : streams[k] \in StreamType
           /\ top.dir \in removedDirs /\ top.dir \in Dir
           /\ at \in AtEntry => current \in Name
           /\ \A i \in Dir : \A n \in Name : entry[i][n] \in Directory \union File \union {None}
<1>1. /\ Len(streams) \in Nat /\ DOMAIN streams = 1 .. Len(streams)
      /\ \A k \in 1 .. Len(streams) : streams[k] \in StreamType
      /\ streams # <<>> => Len(streams) \in 1 .. Len(streams) /\ top \in StreamType
      /\ streams \in Seq(StreamType)
  BY StreamsAreTyped DEF Typed
<1>2. streams # <<>> /\ at # "idle" /\ arg \in Path /\ removing /\ (at \in AtEntry => current \in Name)
  BY DEF CallFits, InStream, AtEntry
<1>3. IsTree(before) /\ RemovesBelow /\ StreamsDescend /\ TopIsKnown
  BY DEF Undisturbed
<1>4. top.dir \in removedDirs
  BY <1>1, <1>2, <1>3 DEF StreamsDescend, top
<1>5. top.dir \in Dir
  BY <1>1, <1>2 DEF StreamType
<1>6. \A i \in Dir : \A n \in Name : entry[i][n] \in Directory \union File \union {None}
  BY DEF IsTree
<1> QED BY <1>1, <1>2, <1>3, <1>4, <1>5, <1>6

\* Below the root, as long as nothing is removed.
LEMMA BelowStays ==
    ASSUME RemovesBelow, before' = before, arg' = arg, entry' = entry, streams'[1].dir = streams[1].dir
    PROVE  RemovesBelow' /\ removedDirs' = removedDirs
  BY DEF RemovesBelow, removedDirs, removedRoot

\* The stream of the root is opened.
LEMMA OpenRootDescends ==
    ASSUME IsTree(entry), Typed, CallFits, Undisturbed, before # None, OpenRoot, ~Throws
    PROVE  isDir(lookup(arg)) /\ RemovesBelow' /\ StreamsDescend' /\ TopIsKnown'
<1> DEFINE r == lookup(arg)
           s == Stream(r, None)
<1>0. arg \in Path /\ places(arg) = {parent(arg)} /\ child(parent(arg), last(arg)) = r
  <2>1. at = "open" /\ arg \in Path /\ ~linked(arg)
    BY DEF OpenRoot, Undisturbed, CallFits
  <2>2. Open \subseteq Dir
    BY StreamsAreTyped DEF Typed
  <2> QED BY <2>1, <2>2, PlacesAre
<1>1. /\ at = "open" /\ entry = before /\ IsTree(before) /\ arg \in Path
      /\ streams' = <<s>> /\ at' = "next" /\ entry' = entry /\ arg' = arg /\ before' = before /\ isDir(r)
  <2>1. at = "open" /\ entry = before /\ IsTree(before)
    BY DEF OpenRoot, Undisturbed
  <2>2. isDir(r) /\ streams' = <<s>> /\ entry' = entry /\ Goes("next")
    BY Zenon, <1>0 DEF OpenRoot
  <2> QED BY <1>0, <2>1, <2>2 DEF Goes, call
<1>2. removedRoot' = r /\ removedRoot = r /\ removedDirs' = removedDirs /\ isDir(r)
  BY <1>1 DEF removedRoot, removedDirs, lookup
<1>3. s.dir = r /\ s.todo = {n \in Name : entry[r][n] # None}
  BY DEF Stream
<1> HIDE DEF r, s
<1>4. /\ Len(streams') = 1 /\ DOMAIN streams' = {1} /\ streams'[1] = s
      /\ 2 .. Len(streams') = {} /\ \A k \in DOMAIN streams' : k = 1
  BY <1>1
<1>5. RemovesBelow'
  BY <1>1, <1>2, <1>3, <1>4 DEF RemovesBelow
<1>6. r \in removedDirs'
  <2>1. isDir(removedRoot)
    BY <1>2
  <2>2. removedRoot \in removedDirs
    BY <1>1, <2>1, RootOfRemoved DEF removedRoot, removedDirs
  <2> QED BY <1>2, <2>2
<1>7. StreamsDescend'
  BY <1>1, <1>3, <1>4, <1>6 DEF StreamsDescend
<1>8. TopIsKnown'
  <2>1. top' = s
    BY <1>4 DEF top
  <2> QED BY Zenon, <1>1, <1>3, <2>1 DEF TopIsKnown, AtEntry
<1> QED BY <1>2, <1>5, <1>7, <1>8 DEF r

\* readdir() delivers an entry that is there.
LEMMA NextEntryDescends ==
    ASSUME IsTree(entry), Typed, CallFits, Undisturbed, before # None, NEW n \in Name, NextEntry(n)
    PROVE  RemovesBelow' /\ StreamsDescend' /\ TopIsKnown'
<1> DEFINE L == Len(streams)
<1>1. /\ at = "next" /\ n \in deliverable /\ current' = n /\ entry' = entry /\ arg' = arg /\ before' = before
      /\ streams' = [streams EXCEPT ![L].todo = @ \ {n}, ![L].seen = @ \union {n}]
      /\ \/ at' = "status"
         \/ at' = "unlink" /\ ~isDir(entry[top.dir][n])
         \/ at' = "enter" /\ (isDir(entry[top.dir][n]) \/ entry[top.dir][n] = None)
  BY DEF NextEntry, Delivered, Goes, call
<1>2. at \in InStream
  BY <1>1 DEF InStream
<1>3. /\ RemovesBelow /\ StreamsDescend /\ TopIsKnown
      /\ L \in Nat \ {0} /\ DOMAIN streams = 1 .. L /\ L \in 1 .. L
      /\ streams \in Seq(StreamType) /\ \A k \in 1 .. L : streams[k] \in StreamType
  BY <1>2, StreamFacts
<1> DEFINE s == [top EXCEPT !.todo = @ \ {n}, !.seen = @ \union {n}]
<1>4. s \in StreamType /\ s.name = top.name /\ s.dir = top.dir /\ s.todo = top.todo \ {n}
  BY <1>3 DEF StreamType, top
<1>5. streams' = [streams EXCEPT ![L] = s]
  BY <1>1, <1>3 DEF top, StreamType
<1> HIDE DEF s
<1>6. /\ Len(streams') = L /\ DOMAIN streams' = 1 .. L /\ streams'[L] = s
      /\ \A k \in 1 .. L : k # L => streams'[k] = streams[k]
  <2>1. /\ streams' \in Seq(StreamType) /\ Len(streams') = L /\ DOMAIN streams' = DOMAIN streams
        /\ \A k \in DOMAIN streams : streams'[k] = IF k = L THEN s ELSE streams[k]
    BY SMTT(30), <1>3, <1>4, <1>5
  <2> HIDE DEF L
  <2> QED BY <1>3, <2>1
<1> HIDE DEF L
<1>7. top = streams[L] /\ top' = s
  BY Zenon, <1>6 DEF top, L
<1>8. /\ \A k \in 1 .. L : streams'[k].dir = streams[k].dir /\ streams'[k].name = streams[k].name
      /\ \A k \in 1 .. L : \A m \in Name :
            m \in streams'[k].todo <=> m \in streams[k].todo /\ (k = L => m # n)
  BY <1>4, <1>6, <1>7
<1>9. n \in top.todo /\ entry[top.dir][n] # None
  <2>1. n \in top.todo
    BY <1>1, <1>3 DEF deliverable, TopIsKnown
  <2> QED BY <1>3, <1>7, <2>1 DEF StreamsDescend
<1>10. RemovesBelow' /\ removedDirs' = removedDirs
  <2>1. 1 \in 1 .. L
    BY <1>3
  <2> QED BY <1>1, <1>3, <1>8, <2>1, BelowStays
<1>11. StreamsDescend'
  <2>1. \A k \in 1 .. L : streams[k].dir \in removedDirs
    BY <1>3 DEF StreamsDescend
  <2>2. \A j, k \in 1 .. L : streams[j].dir = streams[k].dir => j = k
    BY <1>3 DEF StreamsDescend
  <2>3. \A k \in 2 .. L : /\ entry[streams[k - 1].dir][streams[k].name] = streams[k].dir
                          /\ streams[k].name \notin streams[k - 1].todo
                          /\ k \in 1 .. L /\ k - 1 \in 1 .. L /\ k - 1 # L
    BY <1>3 DEF StreamsDescend, L
  <2>4. \A k \in 1 .. L : \A m \in Name :
           /\ m \in streams[k].todo => entry[streams[k].dir][m] # None
           /\ k < L /\ entry[streams[k].dir][m] # None => m \in streams[k].todo \/ m = streams[k + 1].name
    BY Zenon, <1>3 DEF StreamsDescend, L
  <2>5. ASSUME NEW k \in 2 .. L
        PROVE  /\ entry'[streams'[k - 1].dir][streams'[k].name] = streams'[k].dir
               /\ streams'[k].name \notin streams'[k - 1].todo
    <3>1. /\ entry[streams[k - 1].dir][streams[k].name] = streams[k].dir
          /\ streams[k].name \notin streams[k - 1].todo
          /\ k \in 1 .. L /\ k - 1 \in 1 .. L /\ k - 1 # L
      BY <2>3
    <3>2. streams'[k].dir = streams[k].dir /\ streams'[k].name = streams[k].name
      BY <1>8, <3>1
    <3>3. streams'[k - 1] = streams[k - 1]
      BY <1>6, <3>1
    <3> QED BY Zenon, <1>1, <3>1, <3>2, <3>3
  <2>6. \A k \in 1 .. L : k < L => k # L /\ k + 1 \in 1 .. L
    BY SMTT(30), <1>3
  <2>7. ASSUME NEW k \in 1 .. L, NEW m \in Name
        PROVE /\ m \in streams'[k].todo => entry'[streams'[k].dir][m] # None
              /\ k < L /\ entry'[streams'[k].dir][m] # None => m \in streams'[k].todo \/ m = streams'[k + 1].name
    BY ZenonT(30), <1>1, <1>8, <2>4, <2>6
  <2> QED BY SMTT(30), <1>6, <1>8, <1>10, <2>1, <2>2, <2>5, <2>7 DEF StreamsDescend
<1>12. TopIsKnown'
  BY <1>1, <1>3, <1>4, <1>7, <1>9 DEF TopIsKnown, AtEntry
<1> QED BY <1>10, <1>11, <1>12

\* The status of the entry tells its type.
LEMMA StatusDescends ==
    ASSUME IsTree(entry), Typed, CallFits, Undisturbed, before # None, Status
    PROVE  at' \in InStream /\ RemovesBelow' /\ StreamsDescend' /\ TopIsKnown'
<1>1. at = "status" /\ at \in InStream /\ at \in AtEntry
  BY DEF Status, InStream, AtEntry
<1>2. RemovesBelow /\ StreamsDescend /\ TopIsKnown
  BY <1>1, StreamFacts
<1>3. entry[top.dir][current] # None
  BY <1>1, <1>2 DEF TopIsKnown
<1>4. /\ entry' = entry /\ streams' = streams /\ current' = current /\ arg' = arg /\ before' = before
      /\ at' = IF isDir(entry[top.dir][current]) THEN "enter" ELSE "unlink"
  BY <1>3 DEF Status, Goes, call
<1>5. RemovesBelow' /\ removedDirs' = removedDirs
  BY <1>2, <1>4, BelowStays
<1>6. StreamsDescend'
  BY <1>2, <1>4, <1>5 DEF StreamsDescend
<1>7. TopIsKnown'
  BY Zenon, <1>1, <1>2, <1>4 DEF TopIsKnown, AtEntry, top
<1> QED BY <1>4, <1>5, <1>6, <1>7 DEF InStream, AtEntry

\* What StreamsDescend says of streams, by number.
LEMMA StreamsAre ==
    ASSUME StreamsDescend, Len(streams) \in Nat \ {0}, DOMAIN streams = 1 .. Len(streams)
    PROVE  LET L == Len(streams) IN
           /\ \A k \in 1 .. L : streams[k].dir \in removedDirs
           /\ \A j, k \in 1 .. L : streams[j].dir = streams[k].dir => j = k
           /\ \A k \in 2 .. L : /\ entry[streams[k - 1].dir][streams[k].name] = streams[k].dir
                                /\ streams[k].name \notin streams[k - 1].todo
                                /\ k \in 1 .. L /\ k - 1 \in 1 .. L /\ k - 1 # L
           /\ \A k \in 1 .. L : \A n \in Name :
                 /\ n \in streams[k].todo => entry[streams[k].dir][n] # None
                 /\ k < L /\ entry[streams[k].dir][n] # None => n \in streams[k].todo \/ n = streams[k + 1].name
           /\ \A k \in 1 .. L : k # L => k < L /\ k + 1 \in 1 .. L /\ k + 1 \in 2 .. L
<1> DEFINE L == Len(streams)
<1> HIDE DEF L
<1>1. /\ L \in Nat \ {0} /\ DOMAIN streams = 1 .. L
      /\ \A k \in 2 .. L : k \in 1 .. L /\ k - 1 \in 1 .. L /\ k - 1 # L
      /\ \A k \in 1 .. L : k # L => k < L /\ k + 1 \in 1 .. L /\ k + 1 \in 2 .. L
  <2>1. L \in Nat \ {0}
    BY DEF L
  <2>2. ASSUME NEW k \in 2 .. L PROVE k \in 1 .. L /\ k - 1 \in 1 .. L /\ k - 1 # L
    BY <2>1
  <2>3. ASSUME NEW k \in 1 .. L, k # L PROVE k < L /\ k + 1 \in 1 .. L /\ k + 1 \in 2 .. L
    BY <2>1, <2>3
  <2>4. DOMAIN streams = 1 .. L
    BY DEF L
  <2> QED BY Zenon, <2>1, <2>2, <2>3, <2>4
<1>2. /\ \A k \in 1 .. L : streams[k].dir \in removedDirs
      /\ \A j, k \in 1 .. L : streams[j].dir = streams[k].dir => j = k
  BY <1>1 DEF StreamsDescend
<1>3. \A k \in 2 .. L : /\ entry[streams[k - 1].dir][streams[k].name] = streams[k].dir
                        /\ streams[k].name \notin streams[k - 1].todo
  BY DEF StreamsDescend, L
<1>4. \A k \in 1 .. L : \A n \in Name :
        /\ n \in streams[k].todo => entry[streams[k].dir][n] # None
        /\ k < L /\ entry[streams[k].dir][n] # None => n \in streams[k].todo \/ n = streams[k + 1].name
  BY Zenon, <1>1 DEF StreamsDescend, L
<1> QED BY ZenonT(60), <1>1, <1>2, <1>3, <1>4 DEF L

\* A subdirectory is entered, in which the call is not yet.
LEMMA EnterDescends ==
    ASSUME IsTree(entry), Typed, CallFits, Undisturbed, before # None, Enter
    PROVE  ~Throws /\ entry[top.dir][current] \notin Link /\ RemovesBelow' /\ StreamsDescend' /\ TopIsKnown'
<1> DEFINE L == Len(streams)
           i == entry[top.dir][current]
           s == Stream(i, current)
<1>1. at = "enter" /\ at \in InStream /\ at \in AtEntry
  BY DEF Enter, InStream, AtEntry
<1>2. /\ IsTree(before) /\ arg \in Path /\ RemovesBelow /\ StreamsDescend /\ TopIsKnown
      /\ L \in Nat \ {0} /\ DOMAIN streams = 1 .. L /\ L \in 1 .. L
      /\ streams \in Seq(StreamType) /\ \A k \in 1 .. L : streams[k] \in StreamType
      /\ top.dir \in removedDirs /\ top.dir \in Dir /\ current \in Name
  BY <1>1, StreamFacts
<1>3. /\ isDir(i) /\ \A n \in Name : entry[top.dir][n] # None => n \in top.todo \/ n = current
      /\ current \notin top.todo
  BY <1>1, <1>2 DEF TopIsKnown
<1>0. i \notin Link /\ opened(i) = {i}
  <2>1. i \in Dir /\ Link \subseteq File
    BY <1>3, TreeAssumption DEF isDir
  <2>2. i \notin Link
    BY <2>1, TreeTypes
  <2> QED BY <2>1, <2>2 DEF opened
<1>4. /\ streams' = Append(streams, s) /\ at' = "next" /\ entry' = entry /\ arg' = arg /\ before' = before
  BY <1>0, <1>3 DEF Enter, Goes, call, Throws, Ends
<1>5. s.dir = i /\ s.name = current /\ s.todo = {n \in Name : entry[i][n] # None} /\ s \in StreamType
  BY <1>2, <1>3, StreamIsTyped DEF Stream, isDir
<1>6. top = streams[L]
  BY DEF top
<1>7. /\ \A k \in 1 .. L : streams[k].dir \in removedDirs
      /\ \A j, k \in 1 .. L : streams[j].dir = streams[k].dir => j = k
      /\ \A k \in 2 .. L : /\ entry[streams[k - 1].dir][streams[k].name] = streams[k].dir
                           /\ streams[k].name \notin streams[k - 1].todo
                           /\ k \in 1 .. L /\ k - 1 \in 1 .. L /\ k - 1 # L
      /\ \A k \in 1 .. L : \A n \in Name :
            /\ n \in streams[k].todo => entry[streams[k].dir][n] # None
            /\ k < L /\ entry[streams[k].dir][n] # None => n \in streams[k].todo \/ n = streams[k + 1].name
      /\ \A k \in 1 .. L : k # L => k < L /\ k + 1 \in 1 .. L /\ k + 1 \in 2 .. L
  BY <1>2, StreamsAre
<1> HIDE DEF s
<1>8. /\ Len(streams') = L + 1 /\ DOMAIN streams' = 1 .. L + 1 /\ streams'[L + 1] = s
      /\ \A k \in 1 .. L : streams'[k] = streams[k]
  <2>1. /\ streams' \in Seq(StreamType) /\ Len(streams') = L + 1
        /\ streams'[L + 1] = s /\ \A k \in 1 .. L : streams'[k] = streams[k]
    BY <1>2, <1>4, <1>5, AppendProperties
  <2> QED BY <2>1, LenProperties
<1>9. ~Throws
  BY <1>4, <1>8, <1>2 DEF Throws, Ends
<1>10. /\ removedRoot \in Directory
       /\ LET p == walk(before, arg)[Len(arg) - 1]
          IN p \in Dir /\ p \notin removedDirs /\ last(arg) \in Name /\ before[p][last(arg)] = removedRoot
       /\ \A d \in removedDirs : \A n \in Name : isDir(entry[d][n]) => entry[d][n] \in removedDirs
       /\ \A d \in Dir : \A n \in Name : entry[d][n] # None => entry[d][n] = before[d][n]
  BY <1>2, RemovalFacts
<1>11. i \in removedDirs /\ i \in Directory
  BY <1>2, <1>3, <1>10, TreeTypes DEF isDir, IsTree
<1>12. ASSUME NEW k \in 1 .. L, streams[k].dir = i PROVE FALSE
  <2>1. CASE k = 1
    <3>1. i = removedRoot
      BY <1>2, <1>12, <2>1 DEF RemovesBelow
    <3>2. before[top.dir][current] = removedRoot
      BY <1>2, <1>3, <1>10, <3>1, TreeTypes DEF isDir
    <3>3. top.dir \notin removedDirs
      BY <1>2, <1>10, <3>2 DEF IsTree
    <3> QED BY <1>2, <3>3
  <2>2. CASE k # 1
    <3>1. k \in 2 .. L
      BY <1>2, <2>2
    <3>2. entry[streams[k - 1].dir][streams[k].name] = i /\ k - 1 \in 1 .. L /\ k - 1 # L
      BY <1>7, <1>12, <3>1
    <3>3. streams[k - 1].dir \in Dir /\ streams[k].name \in Name
      <4>1. streams[k - 1] \in StreamType /\ streams[k] \in StreamType /\ streams[k].name # None
        BY <1>2, <2>2, <3>2 DEF Typed
      <4> QED BY <4>1 DEF StreamType
    <3>4. streams[k - 1].dir = streams[L].dir
      BY <1>2, <1>6, <1>11, <3>2, <3>3 DEF IsTree
    <3> QED BY <1>2, <1>7, <3>2, <3>4
  <2> QED BY <2>1, <2>2
<1> HIDE DEF i, L
<1>13. RemovesBelow' /\ removedDirs' = removedDirs
  <2>1. 1 \in 1 .. L
    BY <1>2
  <2> QED BY <1>2, <1>4, <1>8, <2>1, BelowStays
<1>14. \A k \in 1 .. L + 1 : k \in 1 .. L \/ k = L + 1
  BY <1>2
<1>15. StreamsDescend'
  <2>1. \A k \in 1 .. L + 1 : streams'[k].dir \in removedDirs
    BY <1>5, <1>7, <1>8, <1>11, <1>14
  <2>2. \A j, k \in 1 .. L + 1 : streams'[j].dir = streams'[k].dir => j = k
    BY <1>5, <1>7, <1>8, <1>12, <1>14
  <2>3. ASSUME NEW k \in 2 .. L + 1
        PROVE  /\ entry'[streams'[k - 1].dir][streams'[k].name] = streams'[k].dir
               /\ streams'[k].name \notin streams'[k - 1].todo
    <3>1. CASE k = L + 1
      <4>1. k - 1 = L /\ L \in 1 .. L
        BY SMTT(30), <1>2, <3>1
      <4> QED BY Zenon, <1>3, <1>4, <1>5, <1>6, <1>8, <3>1, <4>1 DEF i
    <3>2. CASE k # L + 1
      <4>1. k \in 2 .. L
        BY <1>2, <3>2
      <4> QED BY <1>4, <1>7, <1>8, <4>1
    <3> QED BY Zenon, <3>1, <3>2
  <2>4. ASSUME NEW k \in 1 .. L + 1, NEW n \in Name
        PROVE  /\ n \in streams'[k].todo => entry'[streams'[k].dir][n] # None
               /\ k < L + 1 /\ entry'[streams'[k].dir][n] # None => n \in streams'[k].todo \/ n = streams'[k + 1].name
    <3>1. CASE k = L + 1
      BY Zenon, <1>2, <1>4, <1>5, <1>8, <3>1
    <3>2. CASE k = L
      BY <1>2, <1>3, <1>4, <1>5, <1>6, <1>7, <1>8, <3>2
    <3>3. CASE k # L + 1 /\ k # L
      <4>1. k \in 1 .. L /\ k < L /\ k + 1 \in 1 .. L
        BY <1>2, <3>3
      <4> QED BY <1>4, <1>7, <1>8, <4>1
    <3> QED BY <3>1, <3>2, <3>3
  <2> QED BY SMTT(30), <1>8, <1>13, <2>1, <2>2, <2>3, <2>4 DEF StreamsDescend
<1>16. TopIsKnown'
  <2>1. top' = s
    BY <1>8 DEF top
  <2> QED BY Zenon, <1>4, <1>5, <2>1 DEF TopIsKnown, AtEntry
<1> QED BY <1>0, <1>9, <1>13, <1>15, <1>16 DEF i

\* An entry of the innermost directory is removed.
LEMMA UnlinkDescends ==
    ASSUME IsTree(entry), Typed, CallFits, Undisturbed, before # None, Unlink
    PROVE  ~Throws /\ RemovesBelow' /\ StreamsDescend' /\ TopIsKnown'
<1> DEFINE L == Len(streams)
           t == top.dir
<1>1. at = "unlink" /\ at \in InStream /\ at \in AtEntry
  BY DEF Unlink, InStream, AtEntry
<1>2. /\ RemovesBelow /\ StreamsDescend /\ TopIsKnown
      /\ L \in Nat \ {0} /\ DOMAIN streams = 1 .. L /\ L \in 1 .. L
      /\ \A k \in 1 .. L : streams[k] \in StreamType
      /\ t \in removedDirs /\ t \in Dir /\ current \in Name
  BY <1>1, StreamFacts
<1>3. /\ entry[t][current] # None /\ ~isDir(entry[t][current])
      /\ \A n \in Name : entry[t][n] # None => n \in top.todo \/ n = current
      /\ current \notin top.todo
  BY <1>1, <1>2 DEF TopIsKnown
<1>4. /\ entry' = [entry EXCEPT ![t][current] = None]
      /\ streams' = streams /\ at' = "next" /\ arg' = arg /\ before' = before /\ current' = current
  BY <1>3 DEF Unlink, Removed, Goes, call, with
<1>5. ~Throws
  BY <1>4 DEF Throws, Ends
<1>6. top = streams[L] /\ t = streams[L].dir
  BY Zenon DEF top
<1>7. /\ \A k \in 1 .. L : streams[k].dir \in removedDirs
      /\ \A j, k \in 1 .. L : streams[j].dir = streams[k].dir => j = k
      /\ \A k \in 2 .. L : /\ entry[streams[k - 1].dir][streams[k].name] = streams[k].dir
                           /\ streams[k].name \notin streams[k - 1].todo
                           /\ k \in 1 .. L /\ k - 1 \in 1 .. L /\ k - 1 # L
      /\ \A k \in 1 .. L : \A n \in Name :
            /\ n \in streams[k].todo => entry[streams[k].dir][n] # None
            /\ k < L /\ entry[streams[k].dir][n] # None => n \in streams[k].todo \/ n = streams[k + 1].name
      /\ \A k \in 1 .. L : k # L => k < L /\ k + 1 \in 1 .. L /\ k + 1 \in 2 .. L
  BY <1>2, StreamsAre
<1> HIDE DEF t, L
<1>8. /\ entry'[t][current] = None
      /\ \A i \in Dir : \A n \in Name : i # t \/ n # current => entry'[i][n] = entry[i][n]
      /\ \A i \in Dir : i # t => entry'[i] = entry[i]
  BY <1>2, <1>4 DEF IsTree
<1>9. removedRoot' = removedRoot /\ removedDirs' = removedDirs
  BY <1>4 DEF removedRoot, removedDirs
<1>10. RemovesBelow'
  BY <1>2, <1>4, <1>8, <1>9 DEF RemovesBelow
<1>11. \A k \in 1 .. L : streams[k].dir \in Dir /\ (streams[k].dir = t => k = L)
  BY Zenon, <1>2, <1>6, <1>7 DEF StreamType
<1>12. StreamsDescend'
  <2>1. ASSUME NEW k \in 2 .. L
        PROVE  /\ entry'[streams[k - 1].dir][streams[k].name] = streams[k].dir
               /\ streams[k].name \notin streams[k - 1].todo
    BY <1>7, <1>8, <1>11
  <2>2. ASSUME NEW k \in 1 .. L, NEW n \in Name
        PROVE  /\ n \in streams[k].todo => entry'[streams[k].dir][n] # None
               /\ k < L /\ entry'[streams[k].dir][n] # None => n \in streams[k].todo \/ n = streams[k + 1].name
    BY <1>3, <1>6, <1>7, <1>8, <1>11
  <2>3. Len(streams') = L /\ DOMAIN streams' = 1 .. L
    BY <1>2, <1>4 DEF L
  <2> QED BY <1>4, <1>7, <1>9, <2>1, <2>2, <2>3 DEF StreamsDescend
<1>13. TopIsKnown'
  <2>1. top' = top
    BY <1>4 DEF top
  <2>2. \A n \in Name : entry'[t][n] # None => n \in top.todo
    BY <1>2, <1>3, <1>8
  <2> QED BY <1>4, <2>1, <2>2 DEF TopIsKnown, AtEntry, t
<1> QED BY <1>5, <1>10, <1>12, <1>13

\* At the end of its stream, a directory is empty.
LEMMA EndOfStreamDescends ==
    ASSUME IsTree(entry), Typed, CallFits, Undisturbed, before # None, EndOfStream
    PROVE  RemovesBelow' /\ StreamsDescend' /\ TopIsKnown'
<1>1. at = "next" /\ at \in InStream
  BY DEF EndOfStream, InStream
<1>2. /\ RemovesBelow /\ StreamsDescend /\ TopIsKnown /\ top.dir \in Dir
      /\ Len(streams) \in 1 .. Len(streams) /\ DOMAIN streams = 1 .. Len(streams)
  BY <1>1, StreamFacts
<1>3. /\ entry' = entry /\ streams' = streams /\ current' = current /\ arg' = arg /\ before' = before
      /\ at' \in {"remove", "removeAt"}
      /\ \A n \in top.todo : entry[top.dir][n] = None
  BY DEF EndOfStream, Goes, call
<1>4. \A n \in Name : entry[top.dir][n] = None
  <2>1. \A n \in Name : entry[top.dir][n] # None => n \in top.todo
    BY <1>1, <1>2 DEF TopIsKnown
  <2> QED BY <1>3, <2>1
<1>5. entry[top.dir] = NoEntries
  <2>1. entry[top.dir] \in [Name -> Directory \union File \union {None}]
    BY <1>2 DEF IsTree
  <2> QED BY <1>4, <2>1 DEF NoEntries
<1>6. RemovesBelow' /\ removedDirs' = removedDirs
  BY <1>2, <1>3, BelowStays
<1>7. StreamsDescend'
  BY <1>2, <1>3, <1>6 DEF StreamsDescend
<1>8. TopIsKnown'
  BY <1>3, <1>5 DEF TopIsKnown, AtEntry, top
<1> QED BY <1>6, <1>7, <1>8

\* A directory that is empty is removed from the one around it.
LEMMA RemoveDirAtDescends ==
    ASSUME IsTree(entry), Typed, CallFits, Undisturbed, before # None, RemoveDirAt
    PROVE  ~Throws /\ RemovesBelow' /\ StreamsDescend' /\ TopIsKnown'
<1> DEFINE L == Len(streams)
           outer == SubSeq(streams, 1, L - 1)
           o == streams[L - 1]
           d == o.dir
           m == top.name
<1>1. at = "removeAt" /\ at \in InStream
  BY DEF RemoveDirAt, InStream
<1>2. /\ RemovesBelow /\ StreamsDescend /\ TopIsKnown
      /\ L \in Nat \ {0} /\ DOMAIN streams = 1 .. L /\ L \in 1 .. L
      /\ streams \in Seq(StreamType) /\ \A k \in 1 .. L : streams[k] \in StreamType
      /\ top.dir \in removedDirs /\ top.dir \in Dir
  BY <1>1, StreamFacts
<1>3. L > 1
  BY Zenon, <1>1 DEF CallFits
<1>4. /\ \A k \in 1 .. L : streams[k].dir \in removedDirs
      /\ \A j, k \in 1 .. L : streams[j].dir = streams[k].dir => j = k
      /\ \A k \in 2 .. L : /\ entry[streams[k - 1].dir][streams[k].name] = streams[k].dir
                           /\ streams[k].name \notin streams[k - 1].todo
                           /\ k \in 1 .. L /\ k - 1 \in 1 .. L /\ k - 1 # L
      /\ \A k \in 1 .. L : \A n \in Name :
            /\ n \in streams[k].todo => entry[streams[k].dir][n] # None
            /\ k < L /\ entry[streams[k].dir][n] # None => n \in streams[k].todo \/ n = streams[k + 1].name
      /\ \A k \in 1 .. L : k # L => k < L /\ k + 1 \in 1 .. L /\ k + 1 \in 2 .. L
  BY <1>2, StreamsAre
<1>5. /\ outer \in Seq(StreamType) /\ Len(outer) = L - 1
      /\ \A k \in 1 .. L - 1 : outer[k] = streams[k]
      /\ L - 1 \in Nat \ {0}
  BY <1>2, <1>3, SubSeqProperties
<1>6. /\ L \in 2 .. L /\ L - 1 \in 1 .. L - 1 /\ L - 1 \in 1 .. L
      /\ \A k \in 1 .. L - 1 : k \in 1 .. L /\ k # L /\ k < L /\ (k < L - 1 => k + 1 \in 1 .. L - 1)
      /\ \A k \in 2 .. L - 1 : k \in 2 .. L /\ k - 1 \in 1 .. L - 1 /\ k - 1 # L - 1 /\ k \in 1 .. L - 1
      /\ 1 \in 1 .. L - 1
  <2> HIDE DEF L
  <2>1. L \in Nat /\ L > 1
    BY <1>2, <1>3
  <2>2. L \in 2 .. L /\ L - 1 \in 1 .. L - 1 /\ L - 1 \in 1 .. L /\ 1 \in 1 .. L - 1
    BY <2>1
  <2>3. ASSUME NEW k \in 1 .. L - 1
        PROVE  k \in 1 .. L /\ k # L /\ k < L /\ (k < L - 1 => k + 1 \in 1 .. L - 1)
    BY <2>1
  <2>4. ASSUME NEW k \in 2 .. L - 1
        PROVE  k \in 2 .. L /\ k - 1 \in 1 .. L - 1 /\ k - 1 # L - 1 /\ k \in 1 .. L - 1
    BY <2>1
  <2> QED BY <2>2, <2>3, <2>4
<1>7. top = streams[L] /\ outer[Len(outer)] = o
  BY <1>5, <1>6 DEF top
<1>8. d \in Dir /\ m \in Name
  <2>1. o \in StreamType /\ top \in StreamType /\ top.name # None
    <3>1. L \in DOMAIN streams /\ L # 1 /\ streams[L] \in StreamType /\ streams[L - 1] \in StreamType
      BY Zenon, <1>2, <1>3, <1>6
    <3> QED BY <1>7, <3>1 DEF Typed
  <2> QED BY <2>1 DEF StreamType
<1>9. entry[d][m] = top.dir /\ entry[top.dir] = NoEntries /\ m \notin o.todo
  BY <1>1, <1>2, <1>4, <1>6, <1>7 DEF TopIsKnown
<1>10. empty(entry[d][m])
  BY Zenon, <1>2, <1>9 DEF empty, isDir
<1> HIDE DEF o, m
<1>11. /\ entry' = [entry EXCEPT ![d][m] = None]
       /\ streams' = outer /\ at' = "next" /\ arg' = arg /\ before' = before /\ current' = current
  BY Zenon, <1>7, <1>10 DEF RemoveDirAt, Removed, Goes, call, with, m
<1>12. ~Throws
  BY <1>11 DEF Throws, Ends
<1> HIDE DEF d, L, outer
<1>13. DOMAIN streams' = 1 .. L - 1 /\ Len(streams') = L - 1 /\ \A k \in 1 .. L - 1 : streams'[k] = streams[k]
  BY <1>5, <1>11, LenProperties
<1>14. /\ entry'[d][m] = None
       /\ \A i \in Dir : \A n \in Name : i # d \/ n # m => entry'[i][n] = entry[i][n]
       /\ \A i \in Dir : i # d => entry'[i] = entry[i]
  BY <1>8, <1>11 DEF IsTree
<1>15. removedRoot' = removedRoot /\ removedDirs' = removedDirs
  BY <1>11 DEF removedRoot, removedDirs
<1>16. \A k \in 1 .. L : streams[k].dir \in Dir /\ (streams[k].dir = d => k = L - 1)
  BY <1>2, <1>4, <1>6 DEF StreamType, d, o
<1>17. d \in removedDirs
  BY <1>4, <1>6 DEF d, o
<1>18. RemovesBelow'
  <2>1. streams'[1].dir = streams[1].dir
    BY <1>6, <1>13
  <2>2. \A i \in Dir \ removedDirs : entry'[i] = before[i]
    BY <1>2, <1>14, <1>17 DEF RemovesBelow
  <2>3. \A i \in Dir : \A n \in Name : entry'[i][n] \in {None, before[i][n]}
    BY <1>2, <1>14 DEF RemovesBelow
  <2> QED BY <1>2, <1>11, <1>15, <2>1, <2>2, <2>3 DEF RemovesBelow
<1>19. StreamsDescend'
  <2>1. \A k \in 1 .. L - 1 : streams'[k].dir \in removedDirs
    BY <1>4, <1>6, <1>13
  <2>2. \A j, k \in 1 .. L - 1 : streams'[j].dir = streams'[k].dir => j = k
    BY ZenonT(30), <1>4, <1>6, <1>13
  <2>3. ASSUME NEW k \in 2 .. L - 1
        PROVE  /\ entry'[streams'[k - 1].dir][streams'[k].name] = streams'[k].dir
               /\ streams'[k].name \notin streams'[k - 1].todo
    <3>1. /\ k \in 2 .. L /\ k - 1 \in 1 .. L - 1 /\ k - 1 # L - 1 /\ k \in 1 .. L - 1
          /\ k \in 1 .. L /\ k - 1 \in 1 .. L
      BY <1>4, <1>6
    <3>2. streams[k - 1].dir \in Dir /\ streams[k - 1].dir # d
      BY <1>16, <3>1
    <3> QED BY SMTT(30), <1>4, <1>13, <1>14, <3>1, <3>2
  <2>4. ASSUME NEW k \in 1 .. L - 1, NEW n \in Name
        PROVE  /\ n \in streams'[k].todo => entry'[streams'[k].dir][n] # None
               /\ k < L - 1 /\ entry'[streams'[k].dir][n] # None => n \in streams'[k].todo \/ n = streams'[k + 1].name
    <3>1. k \in 1 .. L /\ k < L /\ (k < L - 1 => k + 1 \in 1 .. L - 1) /\ streams'[k] = streams[k]
      BY <1>6, <1>13
    <3>2. n \in streams[k].todo => entry'[streams[k].dir][n] # None
      BY <1>4, <1>9, <1>14, <1>16, <3>1 DEF o
    <3>3. entry'[streams[k].dir][n] # None => n \in streams[k].todo \/ n = streams[k + 1].name
      BY <1>4, <1>8, <1>14, <1>16, <3>1
    <3> QED BY <1>13, <3>1, <3>2, <3>3
  <2> QED BY <1>13, <1>15, <2>1, <2>2, <2>3, <2>4 DEF StreamsDescend
<1>20. TopIsKnown'
  <2>1. top' = o
    BY <1>6, <1>13 DEF top, o
  <2>2. ASSUME NEW n \in Name, entry'[d][n] # None PROVE n \in o.todo
    <3>1. n # m /\ entry[d][n] # None
      BY <1>8, <1>14, <2>2
    <3>2. n \in o.todo \/ n = streams[L - 1 + 1].name
      BY <1>4, <1>6, <3>1 DEF d, o
    <3>3. L - 1 + 1 = L
      BY <1>2 DEF L
    <3> QED BY <1>7, <3>1, <3>2, <3>3 DEF m
  <2> QED BY <1>11, <2>1, <2>2 DEF TopIsKnown, AtEntry, d
<1> QED BY <1>12, <1>18, <1>19, <1>20

\* The root is removed, when it is empty, and what is left is what was outside.
LEMMA RemoveDirIsExact ==
    ASSUME IsTree(entry), IsTree(entry'), Typed, CallFits, Undisturbed, before # None, RemoveDir
    PROVE  /\ ~Throws /\ result' = "ok" /\ removing /\ before' = None
           /\ leaves([before EXCEPT ![parent(arg)][last(arg)] = None])
<1> DEFINE r == removedRoot
           p == walk(before, arg)[Len(arg) - 1]
           m == last(arg)
           B == removedDirs
<1>1. at = "remove" /\ at \in InStream
  BY DEF RemoveDir, InStream
<1>2. /\ IsTree(before) /\ arg \in Path /\ removing /\ RemovesBelow /\ TopIsKnown
      /\ DOMAIN streams = 1 .. Len(streams)
  BY <1>1, StreamFacts
<1>3. /\ r \in Directory /\ r \in B /\ B \subseteq Directory
      /\ p \in Dir /\ p \notin B /\ m \in Name /\ before[p][m] = r
      /\ \A i \in Dir \ B : \A n \in Name : before[i][n] \in B => i = p /\ n = m
  BY <1>2, RemovalFacts
<1>4. isDir(r) /\ streams[1].dir = r /\ \A i \in Dir \ B : entry[i] = before[i]
  BY <1>2 DEF RemovesBelow
<1>5. entry[r] = NoEntries
  <2>1. Len(streams) = 1
    BY <1>1 DEF CallFits
  <2> QED BY <1>1, <1>2, <1>4, <2>1 DEF TopIsKnown, top
<1>6. walk(entry, arg)[Len(arg)] = r /\ walk(entry, arg)[Len(arg) - 1] = p
  <2>1. \A i \in Dir \ reached(before, {walk(before, arg)[Len(arg)]}) : entry[i] = before[i]
    BY <1>4 DEF removedDirs, removedRoot
  <2>2. isDir(walk(before, arg)[Len(arg)])
    BY <1>4 DEF removedRoot
  <2> QED BY <1>2, <2>1, <2>2, WayIsUnchanged DEF removedRoot
<1>7. lookup(arg) = r /\ parent(arg) = p /\ r # None
  BY <1>3, <1>6, TreeTypes DEF lookup, parent, isDir
<1> HIDE DEF r, p, m, B
<1>17. empty(lookup(arg))
  BY <1>4, <1>5, <1>7 DEF empty
<1>8. places(arg) = {p} /\ empty(child(p, m))
  <2>1. Open \subseteq Dir
    BY StreamsAreTyped DEF Typed
  <2> QED BY <1>2, <1>7, <1>17, <2>1, PlacesAre DEF m
<1>9. entry' = [entry EXCEPT ![p][m] = None] /\ result' = "ok" /\ before' = None
  BY Zenon, <1>8 DEF RemoveDir, Ends, with, m
<1>10. ~Throws
  BY <1>9 DEF Throws, Ends
<1>11. /\ entry'[p][m] = None
       /\ \A i \in Dir : \A n \in Name : i # p \/ n # m => entry'[i][n] = entry[i][n]
       /\ \A i \in Dir : i # p => entry'[i] = entry[i]
       /\ entry'[p] = [entry[p] EXCEPT ![m] = None]
  BY <1>3, <1>9 DEF IsTree
<1>12. ASSUME NEW i \in Dir \ B, NEW n \in Name PROVE entry'[i][n] \notin B
  <2>1. CASE i = p /\ n = m
    BY <1>3, <1>11, <2>1, TreeTypes
  <2>2. CASE i # p \/ n # m
    BY <1>3, <1>4, <1>11, <2>2
  <2> QED BY <2>1, <2>2
<1>13. InTree(entry') \subseteq Inode \ B
  <2>1. Closed(entry', Inode \ B)
    <3>1. \A i \in Dir : \A n \in Name : entry'[i][n] \in Inode \union {None}
      BY TreeFacts DEF Entries
    <3> QED BY <1>12, <3>1 DEF Closed
  <2>2. Root \in Inode \ B /\ Inode \ B \in SUBSET Inode
    BY <1>3, TreeTypes
  <2> QED BY <2>1, <2>2, TreeFacts
<1>14. ASSUME NEW i \in Dir \ B PROVE entry'[i] = [before EXCEPT ![p][m] = None][i]
  <2>1. before \in [Dir -> [Name -> Directory \union File \union {None}]]
    BY <1>2 DEF IsTree
  <2>2. [before EXCEPT ![p][m] = None][i] = IF i = p THEN [before[p] EXCEPT ![m] = None] ELSE before[i]
    BY <1>3, <2>1
  <2> QED BY <1>3, <1>4, <1>11, <2>2
<1>15. below({Root})' = InTree(entry')
  BY DEF below, InTree
<1>16. leaves([before EXCEPT ![parent(arg)][last(arg)] = None])
  <2>1. leaves([before EXCEPT ![p][m] = None])
    BY <1>13, <1>14, <1>15 DEF leaves
  <2> QED BY <1>7, <2>1 DEF m
<1> QED BY <1>2, <1>9, <1>10, <1>16

\* Whatever step is taken, a call that nobody interferes with is where it should
\* be.
LEMMA UndisturbedStays ==
    ASSUME IsTree(entry), IsTree(entry'), Typed, CallFits, Typed', CallFits', Undisturbed, NextTree
    PROVE  Undisturbed'
<1> SUFFICES ASSUME before' # None PROVE Undisturbed'
  BY DEF Undisturbed
<1>1. CASE Calls
  <2>1. /\ ~ \E n \in Name : CreateTempDir(n)
        /\ ~ \E path \in {<<n>> : n \in Name} \union {None} : AssignTempDir(path)
    BY DEF CreateTempDir, AssignTempDir, Ends
  <2>2. CASE (\E path \in Path : RemoveTree(path)) \/ CloseTempDir
    <3>1. before' = entry /\ entry' = entry /\ at' = "open" /\ ~linked(arg)'
      BY <2>2 DEF RemoveTree, CloseTempDir, Begins, linked
    <3> QED BY <3>1 DEF Undisturbed, InStream, AtEntry
  <2>3. ASSUME NEW path \in Path, MakeAllDirs(path) PROVE Undisturbed'
    <3>1. /\ before' = entry /\ entry' = entry /\ at' = "mkdir" /\ made' = made /\ pos' = 1 /\ at = "idle"
          /\ ~linked(arg)'
      BY <2>3 DEF MakeAllDirs, Begins, linked
    <3>2. made' = FALSE /\ pos' - 1 = 0
      BY <3>1 DEF CallFits
    <3>3. MakesWhatIsMissing'
      <4>1. 1 .. pos' - 1 = {}
        BY <3>2
      <4> QED BY <3>1, <3>2, <4>1 DEF MakesWhatIsMissing
    <3> QED BY <3>1, <3>3 DEF Undisturbed, InStream, AtEntry
  <2> QED BY <1>1, <2>1, <2>2, <2>3 DEF Calls
<1>2. CASE CallStep
  <2>1. ~Throws
    BY DEF Throws, Ends
  <2>2. ASSUME at' \in InStream, before # None, RemovesBelow', StreamsDescend', TopIsKnown', before' = before
        PROVE  Undisturbed'
    BY <2>2 DEF Undisturbed, InStream, AtEntry
  <2>3. CASE OpenRoot
    <3>1. at' \in InStream /\ before' = before
      BY <2>1, <2>3 DEF OpenRoot, Goes, InStream
    <3> QED BY <2>1, <2>2, <2>3, <3>1, OpenRootDescends
  <2>4. ASSUME NEW n \in Name, NextEntry(n) PROVE Undisturbed'
    <3>1. at' \in InStream /\ before' = before
      BY <2>4 DEF NextEntry, Goes, InStream, AtEntry
    <3> QED BY <2>2, <2>4, <3>1, NextEntryDescends
  <2>5. CASE Status
    <3>1. before' = before
      BY <2>1, <2>5 DEF Status, Goes
    <3> QED BY <2>2, <2>5, <3>1, StatusDescends
  <2>6. CASE Enter
    <3>1. at' \in InStream /\ before' = before
      BY <2>1, <2>6 DEF Enter, Goes, InStream
    <3> QED BY <2>2, <2>6, <3>1, EnterDescends
  <2>7. CASE Unlink
    <3>1. at' \in InStream /\ before' = before
      BY <2>1, <2>7 DEF Unlink, Removed, Goes, InStream
    <3> QED BY <2>2, <2>7, <3>1, UnlinkDescends
  <2>8. CASE EndOfStream
    <3>1. at' \in InStream /\ before' = before
      BY <2>8 DEF EndOfStream, Goes, InStream
    <3> QED BY <2>2, <2>8, <3>1, EndOfStreamDescends
  <2>9. CASE RemoveDirAt
    <3>1. at' \in InStream /\ before' = before
      BY <2>1, <2>9 DEF RemoveDirAt, Removed, Goes, InStream
    <3> QED BY <2>2, <2>9, <3>1, RemoveDirAtDescends
  <2>10. CASE MakeDir
    <3>1. /\ at = "mkdir" /\ before' = before /\ at' = at
      BY <2>1, <2>10 DEF MakeDir, NextPrefix
    <3>2. MakesWhatIsMissing /\ IsTree(before)
      BY <3>1 DEF Undisturbed
    <3>3. MakesWhatIsMissing'
      BY <2>1, <2>10, <3>1, <3>2, MakesStays
    <3> QED BY <3>1, <3>2, <3>3 DEF Undisturbed, InStream, AtEntry
  <2>11. ~(RemoveDir \/ MakeAllDirsReturns)
    BY <2>1 DEF RemoveDir, MakeAllDirsReturns, Ends
  <2> QED BY <1>2, <2>3, <2>4, <2>5, <2>6, <2>7, <2>8, <2>9, <2>10, <2>11 DEF CallStep
<1>3. ~OtherStep
  BY ZenonT(30) DEF OtherStep, OtherMakes, OtherUnlinks, OtherRemovesDir, OtherLinks, OtherRenames, Changed
<1> QED BY <1>1, <1>2, <1>3 DEF NextTree

-----------------------------------------------------------------------------
(* The theorems *)

\* The invariant of the calls that work on a tree: the entries are a tree, and
\* what nobody interferes with goes as it should, one system call at a time.
THEOREM TreeInvariance == SpecTree => []TreeInv
<1>1. InitTree => TreeInv
  <2> SUFFICES ASSUME InitTree PROVE TreeInv
    OBVIOUS
  <2>1. \A i \in Dir : entry[i] = NoEntries
    BY DEF InitTree
  <2>2. \A i \in Dir : \A n \in Name : entry[i][n] = None
    BY <2>1, NothingIn
  <2>3. entry \in [Dir -> [Name -> Directory \union File \union {None}]]
    BY DEF InitTree, NoEntries
  <2>4. IsTree(entry)
    BY <2>1, <2>2, <2>3, TreeTypes DEF IsTree
  <2>5. Typed
    <3>1. streams = <<>> /\ streams \in Seq(StreamType) /\ DOMAIN streams = {}
      BY DEF InitTree
    <3>2. 0 \in 0 .. MaxOthers
      BY TreeAssumption
    <3> QED BY <3>1, <3>2 DEF InitTree, Typed
  <2>6. CallFits
    BY DEF InitTree, CallFits, InStream, AtEntry
  <2> QED BY <2>4, <2>5, <2>6 DEF InitTree, TreeInv, Undisturbed
<1>2. TreeInv /\ [NextTree]_treeVars => TreeInv'
  <2>1. ASSUME TreeInv, NextTree PROVE TreeInv'
    <3>1. IsTree(entry')
      BY <2>1, TreeStays DEF TreeInv
    <3>2. Typed' /\ CallFits'
      BY <2>1, <3>1, FitsStays DEF TreeInv
    <3>3. Undisturbed'
      BY <2>1, <3>1, <3>2, UndisturbedStays DEF TreeInv
    <3> QED BY <3>1, <3>2, <3>3 DEF TreeInv
  <2>2. ASSUME TreeInv, UNCHANGED treeVars PROVE TreeInv'
    <3>1. /\ entry' = entry /\ at' = at /\ op' = op /\ arg' = arg /\ streams' = streams /\ current' = current
          /\ pos' = pos /\ made' = made /\ result' = result /\ tmp_path' = tmp_path /\ before' = before
          /\ members' = members /\ others' = others
      BY <2>2 DEF treeVars, call, locals
    <3>2. IsTree(entry') /\ Typed'
      BY <2>2, <3>1 DEF TreeInv, Typed
    <3>3. CallFits'
      <4>1. scope' = scope /\ removing' = removing
        BY <3>1 DEF scope, below, lookup, Open, removing
      <4> QED BY <2>2, <3>1, <4>1 DEF TreeInv, CallFits
    <3>4. Undisturbed'
      <4>1. removedRoot' = removedRoot
        BY <3>1 DEF removedRoot
      <4>2. removedDirs' = removedDirs
        BY <3>1, <4>1 DEF removedDirs
      <4>3. linked(arg)' = linked(arg)
        BY <3>1 DEF linked
      <4>7. MakesWhatIsMissing => MakesWhatIsMissing'
        BY <3>1, <4>3 DEF MakesWhatIsMissing, empty, isDir
      <4>4. RemovesBelow => RemovesBelow'
        BY <3>1, <4>1, <4>2 DEF RemovesBelow, isDir
      <4>5. StreamsDescend => StreamsDescend'
        BY <3>1, <4>2 DEF StreamsDescend
      <4>6. TopIsKnown => TopIsKnown'
        BY <3>1 DEF TopIsKnown, top, isDir
      <4> QED BY <2>2, <3>1, <4>3, <4>4, <4>5, <4>6, <4>7 DEF TreeInv, Undisturbed
    <3> QED BY <3>2, <3>3, <3>4 DEF TreeInv
  <2> QED BY <2>1, <2>2
<1> QED BY <1>1, <1>2, PTL DEF SpecTree

\* A directory in the tree is in exactly one directory.
LEMMA OneParent ==
    ASSUME IsTree(entry), NEW i \in below({Root}), isDir(i), i # Root
    PROVE  Cardinality({d \in below({Root}) \intersect Dir : \E n \in Name : entry[d][n] = i}) = 1
<1> DEFINE T == InTree(entry)
           P == {d \in T \intersect Dir : \E n \in Name : entry[d][n] = i}
<1>1. T = below({Root})
  BY DEF InTree, below
<1>2. /\ Root \in T /\ T \subseteq Inode /\ Closed(entry, T)
      /\ \A S \in SUBSET Inode : Root \in S /\ Closed(entry, S) => T \subseteq S
  BY TreeFacts
<1> HIDE DEF T
<1>3. i \in Directory /\ i \in T
  BY <1>1 DEF isDir, Dir
<1>4. P # {}
  <2> SUFFICES ASSUME P = {} PROVE FALSE
    OBVIOUS
  <2>1. Closed(entry, T \ {i})
    BY <1>2 DEF Closed
  <2>2. T \ {i} \in SUBSET Inode /\ Root \in T \ {i}
    BY <1>2
  <2> QED BY <1>2, <1>3, <2>1, <2>2
<1>5. PICK d \in P : TRUE
  BY <1>4
<1>6. P = {d}
  BY <1>3, <1>5 DEF IsTree
<1> HIDE DEF P
<1>7. Cardinality(P) = 1
  BY <1>6, FS_Singleton
<1> QED BY <1>1, <1>7 DEF P

\* Directories form a tree, a stream is open for every level that remove_tree()
\* is in and only then, and make_all_dirs() does not leave its path.
THEOREM TreeIsWellFormed == SpecTree => []TypeOK
<1>1. TreeInv => TypeOK
  <2> SUFFICES ASSUME TreeInv PROVE TypeOK
    OBVIOUS
  <2>1. entry \in [Dir -> [Name -> Inode \union {None}]]
    BY TreeFacts DEF TreeInv, Entries
  <2>2. \A i \in below({Root}) : isDir(i) /\ i # Root =>
          Cardinality({d \in below({Root}) \intersect Dir : \E n \in Name : entry[d][n] = i}) = 1
    BY OneParent DEF TreeInv
  <2>3. \A k \in 1 .. Len(streams) : streams[k] \in StreamType /\ (streams[k].name = None <=> k = 1)
    BY StreamsAreTyped DEF TreeInv, Typed
  <2>4. pos \in 0 .. (MaxDepth + 1)
    <3>1. CASE at = "mkdir"
      <4>1. arg \in Path /\ pos \in 1 .. Len(arg) + 1
        BY <3>1 DEF TreeInv, CallFits
      <4>2. Len(arg) \in Nat /\ Len(arg) <= MaxDepth
        BY <4>1, WalkSteps, TreeFacts DEF TreeInv
      <4> QED BY <4>1, <4>2, TreeAssumption
    <3>2. CASE at # "mkdir"
      <4>1. pos = 0
        BY <3>2 DEF TreeInv, CallFits
      <4> QED BY <4>1, TreeAssumption
    <3> QED BY <3>1, <3>2
  <2>5. /\ at \in {"idle", "open", "next", "status", "enter", "unlink", "removeAt", "remove", "mkdir"}
        /\ streams # <<>> <=> at \in {"next", "status", "enter", "unlink", "removeAt", "remove"}
    BY DEF TreeInv, CallFits, InStream, AtEntry
  <2> QED BY <2>1, <2>2, <2>3, <2>4, <2>5 DEF TypeOK, TreeInv, Typed
<1> QED BY <1>1, TreeInvariance, PTL

\* remove_tree() removes nothing that was not at some time of the call in its
\* tree or where a symbolic link led it, which it follows only if somebody
\* interferes; make_all_dirs() removes nothing; a TempDir gives up its path only
\* when nothing is there or by a move assignment; whatever others do.
THEOREM RemovalIsContained == SpecTree => RemovesOnlyTheTree
<1> DEFINE Theirs == \A i \in Dir : \A n \in Name :
              entry[i][n] # None /\ entry'[i][n] # entry[i][n] /\ CallStep =>
                  /\ removing /\ entry'[i][n] = None
                  /\ entry[i][n] \in members \/ (at = "remove" /\ linked(arg))
           Followed == Enter /\ entry[top.dir][current] \in Link /\ at' # "idle" => before = None
           Kept == \A path \in Path : tmp_path = path /\ tmp_path' # path =>
                      lookup(path)' = None \/ AssignTempDir(tmp_path')
<1>1. TreeInv /\ [NextTree]_treeVars => [Theirs]_treeVars
  BY StepsRemoveTheirs DEF TreeInv
<1>2. TreeInv /\ [NextTree]_treeVars => [Followed]_treeVars
  BY EnterDescends DEF TreeInv
<1>3. TreeInv /\ TreeInv' /\ [NextTree]_treeVars => [Kept]_treeVars
  BY PathsAreKept DEF TreeInv
<1>4. SpecTree => [][Theirs]_treeVars
  <2> HIDE DEF Theirs
  <2> QED BY <1>1, TreeInvariance, PTL DEF SpecTree
<1>5. SpecTree => [][Followed]_treeVars
  <2> HIDE DEF Followed
  <2> QED BY <1>2, TreeInvariance, PTL DEF SpecTree
<1>6. SpecTree => [][Kept]_treeVars
  <2> HIDE DEF Kept
  <2> QED BY <1>3, TreeInvariance, PTL DEF SpecTree
<1> QED BY <1>4, <1>5, <1>6 DEF RemovesOnlyTheTree

\* What the end of a call that nobody interfered with says.
Exact ==
    \/ /\ removing /\ result' = "ok"
       /\ leaves([before EXCEPT ![parent(arg)][last(arg)] = None])
    \/ removing /\ result' = "error" /\ ~isDir(lookup(arg)) /\ entry' = before
    \/ op = "make_all_dirs" /\ result' = "EXISTS" /\ lookup(arg) # None /\ entry' = before
    \/ /\ op = "make_all_dirs" /\ result' = "NO_ERROR"
       /\ empty(lookup(arg)) /\ \A i \in Dir : \A n \in Name : before[i][n] \in {None, entry[i][n]}
    \/ op = "make_all_dirs" /\ result' = "error"

\* remove_tree() and make_all_dirs() that nobody interferes with, and whose path
\* leads through no symbolic link, do exactly what they say, whatever the tree, the order of its entries and the types the file
\* system knows.
THEOREM UndisturbedCallsDoTheirWork == SpecTree => UndisturbedCallsAreExact
<1> DEFINE Ended == at # "idle" /\ at' = "idle" /\ before # None
<1>1. ASSUME TreeInv, TreeInv', NextTree, Ended PROVE Exact
  <2>1. /\ IsTree(entry) /\ IsTree(entry') /\ Typed /\ CallFits /\ Undisturbed
    BY <1>1 DEF TreeInv
  <2>2. ~Calls /\ ~OtherStep
    BY <1>1 DEF Calls, RemoveTree, MakeAllDirs, CloseTempDir, CreateTempDir, AssignTempDir, Begins, OtherStep, OtherMakes,
                OtherUnlinks, OtherRemovesDir, OtherLinks, OtherRenames, Changed
  <2>3. ASSUME Throws PROVE result' = "error" /\ entry' = entry
    BY <2>3 DEF Throws, Ends
  <2>4. CASE OpenRoot
    <3>1. at = "open" /\ Throws
      BY <1>1, <2>4 DEF OpenRoot, Goes
    <3>2. removing /\ entry = before /\ arg \in Path /\ ~linked(arg)
      BY <1>1, <2>1, <3>1 DEF CallFits, Undisturbed
    <3>3. places(arg) = {parent(arg)} /\ child(parent(arg), last(arg)) = lookup(arg)
      BY <2>1, <3>2, PlacesAre, StreamsAreTyped DEF Typed
    <3>4. ~isDir(lookup(arg))
      BY Zenon, <1>1, <2>4, <3>3 DEF OpenRoot, Goes
    <3> QED BY <2>3, <3>1, <3>2, <3>4 DEF Exact
  <2>5. CASE \E n \in Name : NextEntry(n)
    BY <1>1, <2>5 DEF NextEntry, Goes
  <2>6. CASE Status
    BY <1>1, <2>1, <2>6, StatusDescends DEF InStream, AtEntry
  <2>7. CASE Enter
    <3>1. ~Throws
      BY <1>1, <2>1, <2>7, EnterDescends
    <3> QED BY <1>1, <2>7, <3>1 DEF Enter, Goes
  <2>8. CASE Unlink
    <3>1. ~Throws
      BY <1>1, <2>1, <2>8, UnlinkDescends
    <3> QED BY <1>1, <2>8, <3>1 DEF Unlink, Removed, Goes
  <2>9. CASE EndOfStream
    BY <1>1, <2>9 DEF EndOfStream, Goes
  <2>10. CASE RemoveDirAt
    <3>1. ~Throws
      BY <1>1, <2>1, <2>10, RemoveDirAtDescends
    <3> QED BY <1>1, <2>10, <3>1 DEF RemoveDirAt, Removed, Goes
  <2>11. CASE RemoveDir
    BY <1>1, <2>1, <2>11, RemoveDirIsExact DEF Exact
  <2>12. CASE MakeDir
    <3>1. at = "mkdir" /\ Throws
      BY <1>1, <2>12 DEF MakeDir, NextPrefix
    <3>2. op = "make_all_dirs"
      BY <2>1, <3>1 DEF CallFits
    <3> QED BY <2>3, <3>1, <3>2 DEF Exact
  <2>13. CASE MakeAllDirsReturns
    <3>1. /\ at = "mkdir" /\ pos > Len(arg) /\ entry' = entry
          /\ result' = IF made THEN "NO_ERROR" ELSE "EXISTS"
      BY <2>13 DEF MakeAllDirsReturns, Ends
    <3>2. op = "make_all_dirs" /\ arg \in Path /\ pos \in 1 .. Len(arg) + 1 /\ MakesWhatIsMissing
      BY <1>1, <2>1, <3>1 DEF CallFits, Undisturbed
    <3>3. Len(arg) \in Nat \ {0}
      BY <2>1, <3>2, WalkSteps, TreeFacts
    <3>4. pos - 1 = Len(arg) /\ Len(arg) \in 1 .. pos - 1
      BY <3>1, <3>2, <3>3
    <3>5. lookup(arg) # None /\ (made => empty(lookup(arg))) /\ (~made => entry = before)
          /\ \A i \in Dir : \A n \in Name : before[i][n] \in {None, entry[i][n]}
      BY <3>2, <3>4 DEF MakesWhatIsMissing, lookup
    <3> QED BY <3>1, <3>2, <3>5 DEF Exact
  <2> QED BY <1>1, <2>2, <2>4, <2>5, <2>6, <2>7, <2>8, <2>9, <2>10, <2>11, <2>12, <2>13 DEF NextTree, CallStep
<1>2. TreeInv /\ TreeInv' /\ [NextTree]_treeVars => [Ended => Exact]_treeVars
  BY <1>1
<1>3. SpecTree => [][Ended => Exact]_treeVars
  <2> HIDE DEF Ended
  <2> QED BY <1>2, TreeInvariance, PTL DEF SpecTree
<1> QED BY <1>3 DEF UndisturbedCallsAreExact, Exact

-----------------------------------------------------------------------------
(* Events *)

\* The position in the buffer is inside of it, and what was returned, what is
\* left of the buffer and what the kernel keeps are the events.
OrderInv ==
    /\ queue \in Seq(Int) /\ produced \in Seq(Int) /\ received \in Seq(Int)
    /\ m_buffer \in Seq(Int) /\ m_offset \in 0 .. Len(m_buffer)
    /\ EventsInOrder

-----------------------------------------------------------------------------

\* Sequences of events are joined in any order.
LEMMA Joined ==
    ASSUME NEW s \in Seq(Int), NEW t \in Seq(Int), NEW u \in Seq(Int)
    PROVE  (s \o t) \o u = s \o (t \o u)
<1> DEFINE l == (s \o t) \o u
           r == s \o (t \o u)
<1>1. s \o t \in Seq(Int) /\ t \o u \in Seq(Int)
  BY ConcatProperties
<1>2. l \in Seq(Int) /\ r \in Seq(Int)
  BY <1>1, ConcatProperties
<1>3. Len(s) \in Nat /\ Len(t) \in Nat /\ Len(u) \in Nat
  BY LenProperties
<1>4. Len(l) = Len(s) + Len(t) + Len(u) /\ Len(r) = Len(s) + Len(t) + Len(u)
  BY <1>1, <1>3
<1>5. \A i \in 1 .. Len(l) : l[i] = r[i]
  BY SMTT(30), <1>1, <1>3, <1>4
<1> HIDE DEF l, r
<1>6. l = r
  BY <1>2, <1>4, <1>5, SeqEqual
<1> QED BY <1>6 DEF l, r

\* What is left of the buffer is a sequence of events.
LEMMA BufferedSeq ==
    ASSUME NEW buffer \in Seq(Int), NEW offset \in 0 .. Len(buffer)
    PROVE  /\ SubSeq(buffer, offset + 1, Len(buffer)) \in Seq(Int)
           /\ offset = Len(buffer) => SubSeq(buffer, offset + 1, Len(buffer)) = <<>>
<1>1. Len(buffer) \in Nat /\ \A i \in 1 .. Len(buffer) : buffer[i] \in Int
  BY LenProperties, ElementOfSeq
<1>2. \A i \in offset + 1 .. Len(buffer) : buffer[i] \in Int
  BY <1>1
<1>3. offset + 1 \in Int /\ Len(buffer) \in Int
  BY <1>1
<1>4. SubSeq(buffer, offset + 1, Len(buffer)) \in Seq(Int)
  BY <1>2, <1>3, SubSeqProperties
<1>5. offset = Len(buffer) => SubSeq(buffer, offset + 1, Len(buffer)) = <<>>
  BY <1>1, <1>3, SubSeqEmpty
<1> QED BY <1>4, <1>5

\* The first event of a sequence goes from its front to the end of another.
LEMMA FirstMoves ==
    ASSUME NEW s \in Seq(Int), NEW t \in Seq(Int), NEW first \in 1 .. Len(t)
    PROVE  /\ t[first] \in Int /\ Append(s, t[first]) \in Seq(Int)
           /\ SubSeq(t, first + 1, Len(t)) \in Seq(Int)
           /\ Append(s, t[first]) \o SubSeq(t, first + 1, Len(t)) = s \o SubSeq(t, first, Len(t))
<1> DEFINE e == <<t[first]>>
           u == SubSeq(t, first + 1, Len(t))
<1>1. Len(t) \in Nat /\ t[first] \in Int
  BY LenProperties, ElementOfSeq
<1>2. u \in Seq(Int)
  BY <1>1, BufferedSeq
<1>3. SubSeq(t, first, Len(t)) = e \o u
  BY <1>1, SubSeqRecursiveFirst
<1>4. e \in Seq(Int)
  BY <1>1
<1>5. Append(s, t[first]) = s \o e /\ Append(s, t[first]) \in Seq(Int)
  BY SMTT(30), <1>1, AppendIsConcat, AppendProperties
<1>6. (s \o e) \o u = s \o (e \o u)
  <2> HIDE DEF e, u
  <2> QED BY ZenonT(60), <1>2, <1>4, Joined
<1> QED BY <1>1, <1>2, <1>3, <1>5, <1>6

-----------------------------------------------------------------------------
\* In the beginning nothing has happened.
LEMMA InitInOrder == Init => OrderInv
  BY EmptySeq, BufferedSeq, ConcatEmptySeq DEF Init, OrderInv, EventsInOrder, Buffered

\* What the kernel queues comes last.
LEMMA QueueKeepsOrder ==
    ASSUME OrderInv, NEW event \in Int,
           queue' = Append(queue, event), produced' = Append(produced, event),
           UNCHANGED inotify
    PROVE  OrderInv'
<1> DEFINE s == received \o Buffered
           e == <<event>>
<1>1. /\ queue \in Seq(Int) /\ produced \in Seq(Int) /\ received \in Seq(Int)
      /\ m_buffer \in Seq(Int) /\ m_offset \in 0 .. Len(m_buffer) /\ s \o queue = produced
  BY DEF OrderInv, EventsInOrder
<1>2. Buffered \in Seq(Int)
  BY Zenon, <1>1, BufferedSeq DEF Buffered
<1>3. s \in Seq(Int)
  BY <1>1, <1>2, ConcatProperties
<1>4. e \in Seq(Int)
  OBVIOUS
<1>5. queue' = queue \o e /\ produced' = produced \o e
  BY <1>1, AppendIsConcat
<1>6. queue' \in Seq(Int) /\ produced' \in Seq(Int)
  BY <1>1, AppendProperties
<1>7. received' = received /\ Buffered' = Buffered /\ m_buffer' = m_buffer /\ m_offset' = m_offset
  BY DEF inotify, Buffered
<1> HIDE DEF e
<1>8. s \o queue' = produced'
  <2>1. queue \in Seq(Int) /\ s \o queue = produced
    BY <1>1
  <2>2. (s \o queue) \o e = s \o (queue \o e)
    BY ZenonT(30), <2>1, <1>3, <1>4, Joined
  <2> QED BY <2>1, <2>2, <1>5
<1> QED BY <1>1, <1>6, <1>7, <1>8 DEF OrderInv, EventsInOrder, s

\* An event is returned from the buffer (INotify::readEvent()).
LEMMA FromBufferKeepsOrder ==
    ASSUME OrderInv, m_offset < Len(m_buffer), FromBuffer
    PROVE  OrderInv'
<1>1. /\ queue \in Seq(Int) /\ produced \in Seq(Int) /\ received \in Seq(Int)
      /\ m_buffer \in Seq(Int) /\ m_offset \in 0 .. Len(m_buffer)
      /\ received \o Buffered \o queue = produced
  BY DEF OrderInv, EventsInOrder
<1>2. Len(m_buffer) \in Nat
  BY <1>1, LenProperties
<1>3. m_offset + 1 \in 1 .. Len(m_buffer) /\ m_offset + 1 \in 0 .. Len(m_buffer)
  BY <1>1, <1>2
<1>4. /\ m_offset' = m_offset + 1 /\ received' = Append(received, m_buffer[m_offset + 1])
      /\ UNCHANGED <<m_buffer, queue, produced>>
  BY DEF FromBuffer, files
<1>5. received' \in Seq(Int) /\ received' \o Buffered' = received \o Buffered
  BY ZenonT(30), <1>1, <1>3, <1>4, FirstMoves DEF Buffered
<1> QED BY <1>1, <1>3, <1>4, <1>5 DEF OrderInv, EventsInOrder

\* A read of the kernel's events returns the first and leaves the others in the
\* buffer and in the queue.
LEMMA RefillKeepsOrder ==
    ASSUME OrderInv, m_offset >= Len(m_buffer), queue # <<>>, Refill
    PROVE  OrderInv'
<1> DEFINE n == Smaller(Len(queue), IoBufferSize)
<1>1. /\ queue \in Seq(Int) /\ produced \in Seq(Int) /\ received \in Seq(Int)
      /\ m_buffer \in Seq(Int) /\ m_offset \in 0 .. Len(m_buffer)
      /\ received \o Buffered \o queue = produced
  BY DEF OrderInv, EventsInOrder
<1>2. Len(queue) \in Nat \ {0}
  BY <1>1, EmptySeq
<1>3. n \in 1 .. Len(queue)
  BY <1>2, EventsAssumption DEF Smaller
<1>4. /\ m_buffer' = SubSeq(queue, 1, n) /\ m_offset' = 1
      /\ received' = Append(received, queue[1])
      /\ queue' = SubSeq(queue, n + 1, Len(queue)) /\ produced' = produced
  BY DEF Refill
<1> HIDE DEF n
<1>5. received \o queue = produced
  <2>1. Len(m_buffer) \in Nat
    BY <1>1, LenProperties
  <2>2. m_offset = Len(m_buffer)
    BY <1>1, <2>1
  <2>3. Buffered = <<>>
    BY <1>1, <2>2, BufferedSeq DEF Buffered
  <2> QED BY <1>1, <2>3, ConcatEmptySeq
<1>6. m_buffer' \in Seq(Int) /\ Len(m_buffer') = n
  <2>1. \A i \in 1 .. n : queue[i] \in Int
    BY <1>1, <1>3, ElementOfSeq
  <2> QED BY <1>3, <1>4, <2>1, SubSeqProperties
<1>7. Buffered' = SubSeq(queue, 2, n)
  <2>1. Buffered' = SubSeq(SubSeq(queue, 1, n), 2, n)
    BY SMTT(30), <1>4, <1>6 DEF Buffered
  <2>2. CASE n = 1
    BY <2>1, <2>2, SubSeqEmpty
  <2>3. CASE n # 1
    <3>1. 1 \in 1 .. Len(queue) /\ 2 \in 1 .. n - 1 + 1 /\ n \in 1 .. n - 1 + 1
      BY <1>3, <2>3
    <3>2. SubSeq(SubSeq(queue, 1, n), 2, n) = SubSeq(queue, 1 + 2 - 1, 1 + n - 1)
      BY <1>1, <1>3, <3>1, SubSeqOfSubSeq
    <3>3. 1 + 2 - 1 = 2 /\ 1 + n - 1 = n
      BY <1>3
    <3> QED BY <2>1, <3>2, <3>3
  <2> QED BY <2>2, <2>3
<1>8. Buffered' \o queue' = SubSeq(queue, 2, Len(queue))
  <2>1. 2 \in 1 .. Len(queue) + 1 /\ n \in 2 - 1 .. Len(queue) /\ Len(queue) \in n .. Len(queue)
    BY <1>2, <1>3
  <2> QED BY <1>1, <1>4, <1>7, <2>1, ConcatAdjacentSubSeq
<1>9. queue' \in Seq(Int) /\ Buffered' \in Seq(Int)
  <2>1. n \in 0 .. Len(queue) /\ 1 \in 0 .. Len(m_buffer')
    BY <1>3, <1>6
  <2>2. queue' \in Seq(Int)
    BY <1>1, <1>4, <2>1, BufferedSeq
  <2>3. SubSeq(m_buffer', 1 + 1, Len(m_buffer')) \in Seq(Int)
    BY <1>6, <2>1, BufferedSeq
  <2> QED BY <1>4, <2>2, <2>3 DEF Buffered
<1>10. 1 \in 1 .. Len(queue)
  BY <1>2
<1>11. /\ received' \in Seq(Int)
       /\ received' \o SubSeq(queue, 1 + 1, Len(queue)) = received \o SubSeq(queue, 1, Len(queue))
  BY <1>1, <1>4, <1>10, FirstMoves
<1>12. received' \o (Buffered' \o queue') = produced
  <2>1. SubSeq(queue, 1, Len(queue)) = queue
    BY <1>1, SubSeqFull
  <2>2. 1 + 1 = 2
    OBVIOUS
  <2> QED BY <1>5, <1>8, <1>11, <2>1, <2>2
<1>13. (received' \o Buffered') \o queue' = received' \o (Buffered' \o queue')
  BY <1>9, <1>11, Joined
<1>14. m_offset' \in 0 .. Len(m_buffer')
  BY <1>3, <1>4, <1>6
<1> QED BY <1>1, <1>4, <1>6, <1>9, <1>11, <1>12, <1>13, <1>14 DEF OrderInv, EventsInOrder

\* A failed read happens with an empty buffer only, and leaves it so.
LEMMA FailedReadEmpties ==
    ASSUME OrderInv, m_offset >= Len(m_buffer), FailedRead
    PROVE  /\ m_buffer' \in Seq(Int) /\ m_offset' \in 0 .. Len(m_buffer')
           /\ Buffered = <<>> /\ Buffered' = <<>>
<1>1. m_buffer \in Seq(Int) /\ m_offset \in 0 .. Len(m_buffer)
  BY DEF OrderInv
<1>2. Len(m_buffer) \in Nat
  BY <1>1, LenProperties
<1>3. m_offset = Len(m_buffer)
  BY <1>1, <1>2
<1>4. Buffered = <<>>
  BY <1>1, <1>3, BufferedSeq DEF Buffered
<1>5. m_buffer' = Resized(m_buffer, IoBufferSize) /\ m_offset' = IoBufferSize
  BY DEF FailedRead
<1>6. m_buffer' \in Seq(Int) /\ Len(m_buffer') = IoBufferSize
  <2>1. \A i \in 1 .. IoBufferSize : (IF i <= Len(m_buffer) THEN m_buffer[i] ELSE Garbage) \in Int
    BY <1>1, <1>2, ElementOfSeq DEF Garbage
  <2>2. IoBufferSize \in Nat
    BY EventsAssumption
  <2> QED BY <1>5, <2>1, <2>2 DEF Resized
<1>7. m_offset' \in 0 .. Len(m_buffer') /\ m_offset' = Len(m_buffer')
  BY <1>5, <1>6, EventsAssumption
<1>8. Buffered' = <<>>
  BY <1>6, <1>7, BufferedSeq DEF Buffered
<1> QED BY <1>4, <1>6, <1>7, <1>8

\* It changes neither what was returned nor what the kernel keeps.
LEMMA FailedReadKeepsOrder ==
    ASSUME OrderInv, m_offset >= Len(m_buffer), FailedRead
    PROVE  OrderInv'
<1>1. UNCHANGED <<received, queue, produced>>
  BY DEF FailedRead, files
<1> QED BY <1>1, FailedReadEmpties DEF OrderInv, EventsInOrder

\* Nothing else touches the INotify and its events.
LEMMA NextKeepsOrder == OrderInv /\ [Next]_vars => OrderInv'
<1> SUFFICES ASSUME OrderInv, [Next]_vars PROVE OrderInv'
  OBVIOUS
<1>1. ASSUME UNCHANGED <<inotify, files>> PROVE OrderInv'
  BY <1>1 DEF OrderInv, EventsInOrder, Buffered, inotify, files
<1>2. CASE FileChanges
  <2>1. Len(produced) \in Nat
    BY LenProperties DEF OrderInv
  <2> DEFINE event == IF Len(queue) < QueueLimit THEN Len(produced) + 1 ELSE Overflow
  <2>2. event \in Int /\ queue' = Append(queue, event) /\ produced' = Append(produced, event)
        /\ UNCHANGED inotify
    BY <1>2, <2>1 DEF FileChanges, Overflow
  <2> HIDE DEF event
  <2> QED BY <2>2, QueueKeepsOrder
<1>3. CASE tryReadEvent
  BY <1>1, <1>3, FromBufferKeepsOrder, RefillKeepsOrder, FailedReadKeepsOrder
     DEF tryReadEvent
<1>4. CASE Tick \/ setTime \/ StartSignal \/ signal \/ SignalWouldBlock
  BY <1>1, <1>4 DEF Tick, setTime, StartSignal, signal, SignalWouldBlock
<1>5. CASE Create \/ OpenTimer \/ SetupDone \/ \E s \in Source : addFD(s)
  BY <1>1, <1>5 DEF Create, OpenTimer, CreateTimer, SetupDone, addFD
<1>6. CASE Change
  BY <1>1, <1>6 DEF Change, RenewTimer, CreateTimer, close, modFD, delFD
<1>7. CASE wait \/ WaitTimesOut \/ WaitInterrupted \/ NextRound \/ ReadEventFile \/ ReadTimer
  BY <1>1, <1>7 DEF wait, WaitTimesOut, WaitInterrupted, NextRound, ReadEventFile, ReadTimer
<1>8. CASE UNCHANGED vars
  BY <1>1, <1>8 DEF vars
<1> QED BY <1>2, <1>3, <1>4, <1>5, <1>6, <1>7, <1>8 DEF Next, LoopStep

\* readEvent() returns the events of the kernel in their order and once, for any
\* sizes of buffer and queue and whatever read() throws in between.
THEOREM EventsArriveInOrder == Spec => []EventsInOrder
<1>1. Spec => []OrderInv
  BY InitInOrder, NextKeepsOrder, PTL DEF Spec
<1>2. OrderInv => EventsInOrder
  BY DEF OrderInv
<1> QED BY <1>1, <1>2, PTL

-----------------------------------------------------------------------------
(* Events: lists of sources *)

\* Nothing is in the list twice.
Once(list) == \A i, j \in 1 .. Len(list) : list[i] = list[j] => i = j

\* What is chosen of a list is what the list has of the set, each once if the list
\* has it once.
LEMMA ChosenProperties ==
    ASSUME NEW S, NEW list \in Seq(S), NEW T
    PROVE  /\ Chosen(list, T) \in Seq(S)
           /\ \A e : Contains(Chosen(list, T), e) <=> Contains(list, e) /\ e \in T
           /\ Once(list) => Once(Chosen(list, T))
<1> DEFINE N == Len(list)
           next == [p \in (1 .. N) \X Seq(S) |->
                       IF list[p[1]] \in T THEN Append(p[2], list[p[1]]) ELSE p[2]]
           F(c) == [k \in 0 .. N |->
                       IF k = 0 THEN <<>>
                       ELSE IF list[k] \in T THEN Append(c[k - 1], list[k]) ELSE c[k - 1]]
           d == CHOOSE c : c = F(c)
<1>1. N \in Nat /\ \A k \in 1 .. N : list[k] \in S
  BY LenProperties, ElementOfSeq
<1>2. <<>> \in Seq(S)
  BY EmptySeq
<1>3. next \in [(1 .. N) \X Seq(S) -> Seq(S)]
  <2>1. ASSUME NEW p \in (1 .. N) \X Seq(S)
        PROVE  (IF list[p[1]] \in T THEN Append(p[2], list[p[1]]) ELSE p[2]) \in Seq(S)
    BY <1>1, AppendProperties
  <2> QED BY <2>1
<1>4. \E c : c = F(c)
  <2>1. PICK f \in [0 .. N -> Seq(S)] : Steps(f, N, <<>>, next)
    <3> HIDE DEF next
    <3> QED BY <1>1, <1>2, <1>3, ChainExists
  <2>2. ASSUME NEW k \in 0 .. N PROVE f[k] = F(f)[k]
    <3>1. CASE k = 0
      BY <2>1, <3>1 DEF Steps
    <3>2. CASE k # 0
      <4>1. k \in 1 .. N /\ k - 1 \in 0 .. N
        BY <1>1, <3>2
      <4>2. f[k] = next[<<k, f[k - 1]>>] /\ <<k, f[k - 1]>> \in (1 .. N) \X Seq(S)
        BY <2>1, <4>1 DEF Steps
      <4> QED BY <3>2, <4>1, <4>2
    <3> QED BY <3>1, <3>2
  <2>3. f = F(f)
    <3>1. F(f) = [k \in 0 .. N |-> F(f)[k]] /\ f = [k \in 0 .. N |-> f[k]]
      BY <2>1
    <3> HIDE DEF F
    <3> QED BY <2>2, <3>1
  <2> QED BY <2>3
<1>5. d = F(d)
  <2> HIDE DEF F
  <2> QED BY <1>4
<1>6. Chosen(list, T) = d[N]
  BY DEF Chosen
<1> HIDE DEF d
<1>7. d[0] = <<>> /\ \A k \in 1 .. N : d[k] = IF list[k] \in T THEN Append(d[k - 1], list[k]) ELSE d[k - 1]
  <2>1. \A k \in 0 .. N : d[k] = F(d)[k]
    BY <1>5
  <2> QED BY <1>1, <2>1
<1> HIDE DEF next, F
<1> DEFINE Good(k) ==
             /\ d[k] \in Seq(S)
             /\ \A i \in 1 .. Len(d[k]) : \E m \in 1 .. k : d[k][i] = list[m] /\ list[m] \in T
             /\ \A m \in 1 .. k : list[m] \in T => \E i \in 1 .. Len(d[k]) : d[k][i] = list[m]
             /\ Once(list) => Once(d[k])
           G == {k \in 0 .. N : Good(k)}
<1>8. 0 \in G
  <2>1. d[0] = <<>> /\ 0 \in 0 .. N
    BY <1>1, <1>7
  <2>2. Len(<<>>) = 0 /\ Once(<<>>)
    BY DEF Once
  <2>3. Good(0)
    BY <1>2, <2>1, <2>2
  <2> QED BY <2>1, <2>3
<1>9. ASSUME NEW k \in 1 .. N, k - 1 \in G PROVE k \in G
  <2>1. Good(k - 1) /\ k - 1 \in 0 .. N
    BY <1>9
  <2>2. CASE list[k] \notin T
    <3>1. d[k] = d[k - 1]
      BY <1>7, <2>2
    <3>2. d[k] \in Seq(S) /\ (Once(list) => Once(d[k]))
      BY <2>1, <3>1
    <3>3. \A i \in 1 .. Len(d[k]) : \E m \in 1 .. k : d[k][i] = list[m] /\ list[m] \in T
      <4>1. 1 .. k - 1 \subseteq 1 .. k
        BY <1>1
      <4> QED BY <2>1, <3>1, <4>1
    <3>4. ASSUME NEW m \in 1 .. k, list[m] \in T
          PROVE  \E i \in 1 .. Len(d[k]) : d[k][i] = list[m]
      <4>1. m \in 1 .. k - 1
        BY <2>2, <3>4
      <4> QED BY <2>1, <3>1, <3>4, <4>1
    <3>5. Good(k) /\ k \in 0 .. N
      BY <1>1, <3>2, <3>3, <3>4
    <3> QED BY <3>5
  <2>3. CASE list[k] \in T
    <3> DEFINE e == list[k]
               c == d[k - 1]
    <3>1. d[k] = Append(c, e) /\ c \in Seq(S) /\ e \in S
      BY <1>1, <1>7, <2>1, <2>3
    <3>2. /\ Append(c, e) \in Seq(S) /\ Len(Append(c, e)) = Len(c) + 1 /\ Len(c) \in Nat
          /\ \A i \in 1 .. Len(c) : Append(c, e)[i] = c[i]
          /\ Append(c, e)[Len(c) + 1] = e
      BY <3>1, AppendProperties, LenProperties
    <3>3. ASSUME NEW i \in 1 .. Len(d[k])
          PROVE  \E m \in 1 .. k : d[k][i] = list[m] /\ list[m] \in T
      <4>1. CASE i = Len(c) + 1
        BY <2>3, <3>1, <3>2, <4>1
      <4>2. CASE i # Len(c) + 1
        <5>1. i \in 1 .. Len(c) /\ d[k][i] = c[i]
          BY SMTT(30), <3>1, <3>2, <4>2
        <5>2. PICK m \in 1 .. k - 1 : c[i] = list[m] /\ list[m] \in T
          BY <2>1, <5>1
        <5> QED BY <5>1, <5>2
      <4> QED BY <4>1, <4>2
    <3>4. ASSUME NEW m \in 1 .. k, list[m] \in T
          PROVE  \E i \in 1 .. Len(d[k]) : d[k][i] = list[m]
      <4>1. CASE m = k
        <5>1. Len(c) + 1 \in 1 .. Len(d[k]) /\ d[k][Len(c) + 1] = list[m]
          BY <3>1, <3>2, <4>1
        <5> QED BY <5>1
      <4>2. CASE m # k
        <5>1. m \in 1 .. k - 1
          BY <4>2
        <5>2. PICK i \in 1 .. Len(c) : c[i] = list[m]
          BY <2>1, <3>4, <5>1
        <5>3. i \in 1 .. Len(d[k]) /\ d[k][i] = c[i]
          BY <3>1, <3>2
        <5> QED BY <5>2, <5>3
      <4> QED BY <4>1, <4>2
    <3>5. ASSUME Once(list) PROVE Once(d[k])
      <4>1. Once(c)
        BY <2>1, <3>5
      <4>2. ASSUME NEW i \in 1 .. Len(c), c[i] = e PROVE FALSE
        <5>1. PICK m \in 1 .. k - 1 : c[i] = list[m]
          BY <2>1
        <5>2. m \in 1 .. Len(list) /\ k \in 1 .. Len(list) /\ m # k
          BY <1>1
        <5> QED BY <3>5, <4>2, <5>1, <5>2 DEF Once
      <4> QED BY SMTT(30), <3>1, <3>2, <4>1, <4>2 DEF Once
    <3>6. d[k] \in Seq(S) /\ k \in 0 .. N
      BY <1>1, <3>1, <3>2
    <3>7. Good(k)
      BY <3>3, <3>4, <3>5, <3>6
    <3> QED BY <3>6, <3>7
  <2> QED BY <2>2, <2>3
<1>10. Good(N)
  <2> HIDE DEF Good
  <2>1. 0 .. N \subseteq G
    <3> HIDE DEF G, N
    <3> QED BY <1>1, <1>8, <1>9, StepByStep
  <2> QED BY <1>1, <2>1
<1>11. ASSUME NEW e PROVE Contains(d[N], e) <=> Contains(list, e) /\ e \in T
  BY <1>10 DEF Contains
<1> QED BY <1>6, <1>10, <1>11

\* A list with one more member.
LEMMA AppendHas ==
    ASSUME NEW S, NEW list \in Seq(S), NEW e \in S
    PROVE  /\ Append(list, e) \in Seq(S)
           /\ \A x : Contains(Append(list, e), x) <=> Contains(list, x) \/ x = e
           /\ Once(list) /\ ~Contains(list, e) => Once(Append(list, e))
<1> DEFINE l == Append(list, e)
<1>1. /\ l \in Seq(S) /\ Len(list) \in Nat /\ Len(l) = Len(list) + 1
      /\ \A i \in 1 .. Len(list) : l[i] = list[i]
      /\ l[Len(list) + 1] = e
  BY AppendProperties, LenProperties
<1> HIDE DEF l
<1>2. ASSUME NEW x PROVE Contains(l, x) <=> Contains(list, x) \/ x = e
  <2>1. ASSUME NEW i \in 1 .. Len(l), l[i] = x PROVE Contains(list, x) \/ x = e
    <3>1. i \in 1 .. Len(list) \/ i = Len(list) + 1
      BY <1>1
    <3> QED BY <1>1, <2>1, <3>1 DEF Contains
  <2>2. ASSUME NEW i \in 1 .. Len(list), list[i] = x PROVE Contains(l, x)
    <3>1. i \in 1 .. Len(l) /\ l[i] = x
      BY <1>1, <2>2
    <3> QED BY <3>1 DEF Contains
  <2>3. Len(list) + 1 \in 1 .. Len(l)
    BY <1>1
  <2>4. x = e => Contains(l, x)
    BY <1>1, <2>3 DEF Contains
  <2> QED BY <2>1, <2>2, <2>4 DEF Contains
<1>3. Once(list) /\ ~Contains(list, e) => Once(l)
  <2> SUFFICES ASSUME Once(list), ~Contains(list, e), NEW i \in 1 .. Len(l), NEW j \in 1 .. Len(l), l[i] = l[j]
               PROVE  i = j
    BY DEF Once
  <2>1. (i \in 1 .. Len(list) \/ i = Len(list) + 1) /\ (j \in 1 .. Len(list) \/ j = Len(list) + 1)
    BY <1>1
  <2> QED BY <1>1, <2>1 DEF Once, Contains
<1> QED BY <1>1, <1>2, <1>3 DEF l

\* A list without its first member.
LEMMA TailHas ==
    ASSUME NEW S, NEW list \in Seq(S), list # <<>>
    PROVE  /\ Tail(list) \in Seq(S) /\ Head(list) \in S
           /\ \A x : Contains(list, x) <=> x = Head(list) \/ Contains(Tail(list), x)
           /\ Once(list) => Once(Tail(list)) /\ ~Contains(Tail(list), Head(list))
<1> DEFINE t == Tail(list)
<1>1. /\ t \in Seq(S) /\ Head(list) \in S /\ Len(list) \in Nat \ {0} /\ Len(t) = Len(list) - 1
      /\ \A i \in 1 .. Len(t) : t[i] = list[i + 1]
  BY HeadTailProperties, EmptySeq
<1>2. Head(list) = list[1] /\ 1 \in 1 .. Len(list)
  BY <1>1
<1> HIDE DEF t
<1>3. \A i \in 1 .. Len(t) : i + 1 \in 1 .. Len(list) /\ i + 1 # 1
  BY <1>1
<1>4. ASSUME NEW x PROVE Contains(list, x) <=> x = list[1] \/ Contains(t, x)
  <2>1. ASSUME NEW i \in 1 .. Len(list), list[i] = x, i # 1 PROVE Contains(t, x)
    <3>1. i - 1 \in 1 .. Len(t) /\ (i - 1) + 1 = i
      BY <1>1, <2>1
    <3>2. t[i - 1] = x
      BY <1>1, <2>1, <3>1
    <3> QED BY <3>1, <3>2 DEF Contains
  <2>2. Contains(t, x) => Contains(list, x)
    BY <1>1, <1>3 DEF Contains
  <2> QED BY <1>2, <2>1, <2>2 DEF Contains
<1>5. Once(list) => Once(t)
  <2> SUFFICES ASSUME Once(list), NEW i \in 1 .. Len(t), NEW j \in 1 .. Len(t), t[i] = t[j] PROVE i = j
    BY DEF Once
  <2>1. i + 1 = j + 1
    BY <1>1, <1>3 DEF Once
  <2> QED BY <2>1
<1>6. Once(list) => ~Contains(t, list[1])
  BY <1>1, <1>2, <1>3 DEF Once, Contains
<1> QED BY <1>1, <1>2, <1>4, <1>5, <1>6 DEF t

\* A list in two parts.
LEMMA PartsHave ==
    ASSUME NEW S, NEW list \in Seq(S), NEW n \in 0 .. Len(list)
    PROVE  LET front == SubSeq(list, 1, n)
               rest == SubSeq(list, n + 1, Len(list))
           IN /\ front \in Seq(S) /\ rest \in Seq(S) /\ Len(front) = n
              /\ \A x : Contains(list, x) <=> Contains(front, x) \/ Contains(rest, x)
              /\ Once(list) => /\ Once(front) /\ Once(rest)
                               /\ \A x : ~(Contains(front, x) /\ Contains(rest, x))
<1> DEFINE front == SubSeq(list, 1, n)
           rest == SubSeq(list, n + 1, Len(list))
<1>1. Len(list) \in Nat /\ \A i \in 1 .. Len(list) : list[i] \in S
  BY LenProperties, ElementOfSeq
<1>2. /\ front \in Seq(S) /\ Len(front) = n
      /\ \A i \in 1 .. n : front[i] = list[i]
  <2>1. 1 \in Int /\ n \in Int /\ \A i \in 1 .. n : list[i] \in S
    BY <1>1
  <2>2. /\ SubSeq(list, 1, n) \in Seq(S)
        /\ Len(SubSeq(list, 1, n)) = IF 1 <= n THEN n - 1 + 1 ELSE 0
        /\ \A i \in 1 .. n - 1 + 1 : SubSeq(list, 1, n)[i] = list[1 + i - 1]
    BY <2>1, SubSeqProperties
  <2>3. \A i \in 1 .. n : i \in 1 .. n - 1 + 1 /\ 1 + i - 1 = i
    BY <2>1
  <2> QED BY <2>2, <2>3
<1>3. /\ rest \in Seq(S) /\ Len(rest) = Len(list) - n
      /\ \A i \in 1 .. Len(rest) : rest[i] = list[n + i]
  <2> DEFINE m == n + 1
             l == Len(list)
  <2>1. m \in Int /\ l \in Int /\ \A i \in m .. l : list[i] \in S
    BY <1>1
  <2>2. /\ SubSeq(list, m, l) \in Seq(S)
        /\ Len(SubSeq(list, m, l)) = IF m <= l THEN l - m + 1 ELSE 0
        /\ \A i \in 1 .. l - m + 1 : SubSeq(list, m, l)[i] = list[m + i - 1]
    <3> HIDE DEF m, l
    <3> QED BY <2>1, SubSeqProperties
  <2>3. Len(rest) = Len(list) - n
    BY <1>1, <2>2
  <2>4. \A i \in 1 .. Len(list) - n : i \in 1 .. l - m + 1 /\ m + i - 1 = n + i
    BY <1>1
  <2> QED BY <2>2, <2>3, <2>4
<1> HIDE DEF front, rest
<1>4. ASSUME NEW x PROVE Contains(list, x) <=> Contains(front, x) \/ Contains(rest, x)
  <2>1. ASSUME NEW i \in 1 .. Len(list), list[i] = x PROVE Contains(front, x) \/ Contains(rest, x)
    <3>1. CASE i <= n
      <4>1. i \in 1 .. n
        BY <3>1
      <4> QED BY <1>2, <2>1, <4>1 DEF Contains
    <3>2. CASE i > n
      <4>1. i - n \in 1 .. Len(rest) /\ n + (i - n) = i
        BY <1>1, <1>3, <3>2
      <4>2. rest[i - n] = x
        BY <1>3, <2>1, <4>1
      <4> QED BY <4>1, <4>2 DEF Contains
    <3> QED BY <3>1, <3>2
  <2>2. \A i \in 1 .. n : i \in 1 .. Len(list)
    BY <1>1
  <2>3. \A i \in 1 .. Len(rest) : n + i \in 1 .. Len(list)
    BY <1>1, <1>3
  <2>4. Contains(front, x) => Contains(list, x)
    BY <1>2, <2>2 DEF Contains
  <2>5. Contains(rest, x) => Contains(list, x)
    BY <1>3, <2>3 DEF Contains
  <2> QED BY <2>1, <2>4, <2>5 DEF Contains
<1>5. ASSUME Once(list)
      PROVE  /\ Once(front) /\ Once(rest)
             /\ \A x : ~(Contains(front, x) /\ Contains(rest, x))
  <2>1. \A i \in 1 .. n : i \in 1 .. Len(list)
    BY <1>1
  <2>2. Once(front)
    BY <1>2, <1>5, <2>1 DEF Once
  <2>3. \A i \in 1 .. Len(rest) : n + i \in 1 .. Len(list)
    BY <1>1, <1>3
  <2>4. Once(rest)
    <3> SUFFICES ASSUME NEW i \in 1 .. Len(rest), NEW j \in 1 .. Len(rest), rest[i] = rest[j] PROVE i = j
      BY DEF Once
    <3>1. n + i = n + j
      BY <1>3, <1>5, <2>3 DEF Once
    <3> QED BY <3>1
  <2>5. ASSUME NEW i \in 1 .. n, NEW j \in 1 .. Len(rest), front[i] = rest[j] PROVE FALSE
    <3>1. i = n + j
      BY <1>2, <1>3, <1>5, <2>1, <2>3, <2>5 DEF Once
    <3> QED BY <3>1
  <2> QED BY <1>2, <2>2, <2>4, <2>5 DEF Contains
<1> QED BY <1>2, <1>3, <1>4, <1>5 DEF front, rest

\* Two lists one after the other.
LEMMA JoinedHave ==
    ASSUME NEW S, NEW s \in Seq(S), NEW t \in Seq(S)
    PROVE  /\ s \o t \in Seq(S)
           /\ \A x : Contains(s \o t, x) <=> Contains(s, x) \/ Contains(t, x)
           /\ Once(s) /\ Once(t) /\ (\A x : ~(Contains(s, x) /\ Contains(t, x))) => Once(s \o t)
<1> DEFINE l == s \o t
<1>1. /\ l \in Seq(S) /\ Len(l) = Len(s) + Len(t) /\ Len(s) \in Nat /\ Len(t) \in Nat
      /\ \A i \in 1 .. Len(s) + Len(t) : l[i] = IF i <= Len(s) THEN s[i] ELSE t[i - Len(s)]
  BY ConcatProperties, LenProperties
<1> HIDE DEF l
<1>2. \A i \in 1 .. Len(s) : i \in 1 .. Len(l) /\ l[i] = s[i]
  BY <1>1
<1>3. ASSUME NEW i \in 1 .. Len(t) PROVE Len(s) + i \in 1 .. Len(l) /\ l[Len(s) + i] = t[i]
  <2>1. Len(s) + i \in 1 .. Len(s) + Len(t) /\ ~(Len(s) + i <= Len(s)) /\ (Len(s) + i) - Len(s) = i
    BY <1>1
  <2> QED BY <1>1, <2>1
<1>4. ASSUME NEW i \in 1 .. Len(l)
      PROVE  \/ i \in 1 .. Len(s) /\ l[i] = s[i]
             \/ i - Len(s) \in 1 .. Len(t) /\ l[i] = t[i - Len(s)]
  BY <1>1
<1>5. ASSUME NEW x PROVE Contains(l, x) <=> Contains(s, x) \/ Contains(t, x)
  BY ZenonT(30), <1>2, <1>3, <1>4 DEF Contains
<1>6. ASSUME Once(s), Once(t), \A x : ~(Contains(s, x) /\ Contains(t, x)) PROVE Once(l)
  <2> SUFFICES ASSUME NEW i \in 1 .. Len(l), NEW j \in 1 .. Len(l), l[i] = l[j] PROVE i = j
    BY DEF Once
  <2>1. \A m \in 1 .. Len(s) : \A n \in 1 .. Len(t) : s[m] # t[n]
    BY <1>6 DEF Contains
  <2>2. CASE i \in 1 .. Len(s) /\ j \in 1 .. Len(s)
    BY <1>2, <1>6, <2>2 DEF Once
  <2>3. CASE i - Len(s) \in 1 .. Len(t) /\ l[i] = t[i - Len(s)] /\ j - Len(s) \in 1 .. Len(t) /\ l[j] = t[j - Len(s)]
    <3>1. i - Len(s) = j - Len(s)
      BY <1>6, <2>3 DEF Once
    <3> QED BY <1>1, <3>1
  <2> QED BY <1>4, <2>1, <2>2, <2>3
<1> QED BY <1>1, <1>5, <1>6 DEF l

-----------------------------------------------------------------------------
(* Events: nothing is out of sight *)

WatchTyped ==
    /\ config \in Configs
    /\ interest \in [Source -> Modes \union {"none", "disabled"}]
    /\ ready \in Seq(Source) /\ Once(ready)
    /\ batch \in Seq(Source) /\ Once(batch)
    /\ m_events \in Seq(Source \union {"none"})
    /\ counter \in 0 .. CounterMax /\ increment \in 0 .. CounterMax
    /\ pc \in {"setup", "wait", "handle"} /\ (batch # <<>> => pc = "handle")

\* Where a source is that has something to read: by level, or for its one shot,
\* it stays in the kernel's list, an edge may have been taken off for the loop.
InSight(s) ==
    /\ interest[s] \in {"level", "oneshot"} /\ Readable(s) => Contains(ready, s)
    /\ interest[s] = "edge" /\ Readable(s) => Contains(ready, s) \/ Contains(batch, s)
    /\ interest[s] = "disabled" => Contains(batch, s)

\* A blocking EventFile is reported when it can be read, and each report is read
\* once; it is monitored as the program may.
EventFileServes ==
    /\ Contains(batch, "event") /\ ~config.nonblock => counter > 0
    /\ interest["event"] = "edge" => MayUse(config, "event", "edge")

BufferInSight == Buffered # <<>> => Contains(batch, "inotify")

WatchInv ==
    /\ OrderInv /\ WatchTyped
    /\ \A s \in Source : InSight(s)
    /\ EventFileServes /\ BufferInSight

\* What readable means for each of the sources.
LEMMA ReadableIs ==
    /\ Readable("inotify") <=> queue # <<>>
    /\ Readable("event") <=> counter > 0
    /\ Readable("timer") <=> ticked
    /\ Readable("inotify")' <=> queue' # <<>>
    /\ Readable("event")' <=> counter' > 0
    /\ Readable("timer")' <=> ticked'
  BY DEF Readable

\* This is what the property says.
LEMMA WatchedIsNoticed == WatchInv => NothingUnnoticed
<1> SUFFICES ASSUME WatchInv PROVE NothingUnnoticed
  OBVIOUS
<1>1. ASSUME NEW s \in Source, interest[s] # "none", Readable(s)
      PROVE  Contains(ready, s) \/ Contains(batch, s)
  <2>1. interest[s] \in Modes \union {"none", "disabled"} /\ InSight(s)
    BY DEF WatchInv, WatchTyped
  <2> QED BY <1>1, <2>1 DEF InSight, Modes
<1>2. \A s \in Source : interest[s] = "disabled" => Contains(batch, s)
  BY DEF WatchInv, InSight
<1>3. pc # "blocked" /\ (Buffered # <<>> => Contains(batch, "inotify"))
  BY DEF WatchInv, WatchTyped, BufferInSight
<1> QED BY <1>1, <1>2, <1>3 DEF NothingUnnoticed

\* In the beginning nothing is monitored.
LEMMA InitIsWatched == Init => WatchInv
<1> SUFFICES ASSUME Init PROVE WatchInv
  OBVIOUS
<1>1. OrderInv
  BY InitInOrder
<1>2. \A x : ~Contains(<<>>, x)
  BY DEF Contains
<1>3. config \in Configs /\ config.initval \in 0 .. CounterMax
  BY EventsAssumption DEF Init
<1>4. Once(<<>>)
  BY DEF Once
<1>5. WatchTyped
  BY <1>3, <1>4, EmptySeq, EventsAssumption DEF Init, WatchTyped
<1>6. \A s \in Source : InSight(s)
  BY DEF Init, InSight
<1>7. EventFileServes
  BY <1>2 DEF Init, EventFileServes, Source
<1>8. Len(<<>>) = 0
  OBVIOUS
<1>9. SubSeq(<<>>, 0 + 1, 0) = <<>>
  BY SubSeqEmpty
<1>10. BufferInSight
  BY <1>8, <1>9 DEF Init, BufferInSight, Buffered
<1> QED BY <1>1, <1>5, <1>6, <1>7, <1>10 DEF WatchInv

\* The kernel puts a source that is monitored on its list, once.
LEMMA WokenHas ==
    ASSUME WatchTyped, NEW s \in Source
    PROVE  /\ Woken(ready, s) \in Seq(Source) /\ Once(Woken(ready, s))
           /\ \A x : Contains(ready, x) => Contains(Woken(ready, s), x)
           /\ interest[s] \in Modes => Contains(Woken(ready, s), s)
<1>1. ready \in Seq(Source) /\ Once(ready)
  BY DEF WatchTyped
<1>2. /\ Append(ready, s) \in Seq(Source)
      /\ \A x : Contains(Append(ready, s), x) <=> Contains(ready, x) \/ x = s
      /\ ~Contains(ready, s) => Once(Append(ready, s))
  BY <1>1, AppendHas
<1> QED BY <1>1, <1>2 DEF Woken

\* A step that lets the poller's list grow at most and leaves the loop alone.
LEMMA WakeKeeps ==
    ASSUME WatchInv, OrderInv', NEW s \in Source,
           ready' \in {ready, Woken(ready, s)},
           UNCHANGED <<config, valid, interest, m_events, inotify, loop>>,
           counter' \in counter .. CounterMax, increment' \in 0 .. CounterMax,
           \A x \in Source : Readable(x)' => Readable(x) \/ (x = s /\ ready' = Woken(ready, s))
    PROVE  WatchInv'
<1>1. WatchTyped /\ \A x \in Source : InSight(x)
  BY DEF WatchInv
<1>2. counter \in Int
  BY <1>1 DEF WatchTyped
<1>3. /\ ready' \in Seq(Source) /\ Once(ready')
      /\ \A x : Contains(ready, x) => Contains(ready', x)
      /\ ready' = Woken(ready, s) /\ interest[s] \in Modes => Contains(ready', s)
  <2>1. ready \in Seq(Source) /\ Once(ready)
    BY <1>1 DEF WatchTyped
  <2> QED BY <1>1, <2>1, WokenHas
<1>4. batch' = batch /\ pc' = pc /\ m_buffer' = m_buffer /\ m_offset' = m_offset
  BY DEF loop, inotify
<1>5. counter' \in 0 .. CounterMax /\ counter' >= counter
  BY <1>1 DEF WatchTyped
<1>6. WatchTyped'
  <2>1. Once(ready)' /\ Once(batch)'
    BY <1>1, <1>3, <1>4 DEF WatchTyped, Once
  <2> QED BY <1>1, <1>3, <1>4, <1>5, <2>1 DEF WatchTyped
<1>7. ASSUME NEW x \in Source PROVE InSight(x)'
  <2>1. Contains(batch', x) <=> Contains(batch, x)
    BY <1>4
  <2>2. interest'[x] = interest[x] /\ InSight(x)
    BY <1>1
  <2>3. CASE Readable(x)' => Readable(x)
    BY <1>3, <2>1, <2>2, <2>3 DEF InSight
  <2>4. CASE x = s /\ ready' = Woken(ready, s)
    BY <1>3, <2>1, <2>2, <2>4 DEF InSight, Modes
  <2> QED BY <2>3, <2>4
<1>8. EventFileServes'
  BY <1>1, <1>2, <1>4, <1>5 DEF WatchInv, WatchTyped, EventFileServes
<1>9. BufferInSight'
  BY <1>4 DEF WatchInv, BufferInSight, Buffered
<1> QED BY <1>6, <1>7, <1>8, <1>9 DEF WatchInv

\* The kernel and the other threads only add to what there is to read, or take
\* back ticks.
LEMMA OthersKeepWatch ==
    ASSUME WatchInv, OrderInv',
           FileChanges \/ Tick \/ setTime \/ StartSignal \/ signal \/ SignalWouldBlock
    PROVE  WatchInv'
<1>1. counter \in 0 .. CounterMax /\ increment \in 0 .. CounterMax /\ CounterMax \in Nat
  BY EventsAssumption DEF WatchInv, WatchTyped
<1>2. CASE FileChanges
  <2>1. /\ ready' = Woken(ready, "inotify") /\ UNCHANGED <<valid, interest, m_events>>
        /\ UNCHANGED <<config, inotify, counter, increment, ticked, loop>>
    BY <1>2 DEF FileChanges, Wake, eventFile, timerFD
  <2>2. \A x \in Source : Readable(x)' => Readable(x) \/ (x = "inotify" /\ ready' = Woken(ready, "inotify"))
    BY <2>1, ReadableIs DEF Source
  <2> QED BY <1>1, <2>1, <2>2, WakeKeeps DEF Source
<1>3. CASE Tick
  <2>1. /\ ready' = Woken(ready, "timer") /\ UNCHANGED <<valid, interest, m_events>>
        /\ UNCHANGED <<config, inotify, counter, increment, queue, loop>>
    BY <1>3 DEF Tick, Wake, eventFile, files
  <2>2. \A x \in Source : Readable(x)' => Readable(x) \/ (x = "timer" /\ ready' = Woken(ready, "timer"))
    BY <2>1, ReadableIs DEF Source
  <2> QED BY <1>1, <2>1, <2>2, WakeKeeps DEF Source
<1>4. CASE setTime
  <2>1. /\ ready' = ready /\ UNCHANGED <<valid, interest, m_events>> /\ ticked' = FALSE
        /\ UNCHANGED <<config, inotify, counter, increment, queue, loop>>
    BY <1>4 DEF setTime, poller, eventFile, files
  <2>2. \A x \in Source : Readable(x)' => Readable(x) \/ (x = "timer" /\ ready' = Woken(ready, "timer"))
    BY <2>1, ReadableIs DEF Source
  <2>3. "timer" \in Source
    BY DEF Source
  <2> QED BY <1>1, <2>1, <2>2, <2>3, WakeKeeps
<1>5. CASE signal
  <2>1. /\ ready' = Woken(ready, "event") /\ UNCHANGED <<valid, interest, m_events>>
        /\ UNCHANGED <<config, inotify, ticked, queue, loop>>
        /\ counter' \in counter .. CounterMax /\ increment' \in 0 .. CounterMax
    BY <1>1, <1>5 DEF signal, Wake, timerFD, files
  <2>2. \A x \in Source : Readable(x)' => Readable(x) \/ (x = "event" /\ ready' = Woken(ready, "event"))
    BY <2>1, ReadableIs DEF Source
  <2> QED BY <2>1, <2>2, WakeKeeps DEF Source
<1>6. CASE StartSignal \/ SignalWouldBlock
  <2>1. /\ ready' = ready /\ UNCHANGED <<valid, interest, m_events>> /\ ticked' = ticked
        /\ UNCHANGED <<config, inotify, counter, queue, loop>> /\ increment' \in 0 .. CounterMax
    BY <1>1, <1>6 DEF StartSignal, SignalWouldBlock, poller, files, timerFD
  <2>2. \A x \in Source : Readable(x)' => Readable(x) \/ (x = "timer" /\ ready' = Woken(ready, "timer"))
    BY <2>1, ReadableIs DEF Source
  <2>3. "timer" \in Source
    BY DEF Source
  <2> QED BY <1>1, <2>1, <2>2, <2>3, WakeKeeps
<1> QED BY <1>2, <1>3, <1>4, <1>5, <1>6

\* epoll_ctl() puts a source that can be read on the list at once.
LEMMA MonitorHas ==
    ASSUME WatchTyped, NEW s \in Source, NEW mode \in Modes, Monitor(s, mode)
    PROVE  /\ ready' \in Seq(Source) /\ Once(ready')
           /\ \A x : Contains(ready, x) => Contains(ready', x)
           /\ Readable(s) => Contains(ready', s)
           /\ interest' \in [Source -> Modes \union {"none", "disabled"}]
           /\ interest'[s] = mode /\ \A x \in Source \ {s} : interest'[x] = interest[x]
<1>1. ready \in Seq(Source) /\ Once(ready) /\ interest \in [Source -> Modes \union {"none", "disabled"}]
  BY DEF WatchTyped
<1>2. /\ interest' = [interest EXCEPT ![s] = mode]
      /\ ready' = IF Readable(s) /\ ~Contains(ready, s) THEN Append(ready, s) ELSE ready
  BY DEF Monitor
<1>3. /\ Append(ready, s) \in Seq(Source)
      /\ \A x : Contains(Append(ready, s), x) <=> Contains(ready, x) \/ x = s
      /\ ~Contains(ready, s) => Once(Append(ready, s))
  BY <1>1, AppendHas
<1>4. /\ interest' \in [Source -> Modes \union {"none", "disabled"}]
      /\ interest'[s] = mode /\ \A x \in Source \ {s} : interest'[x] = interest[x]
  BY <1>1, <1>2
<1> QED BY <1>1, <1>2, <1>3, <1>4

\* addFD() and modFD(): the source is looked at.
LEMMA MonitorKeeps ==
    ASSUME WatchInv, NEW s \in Source, NEW mode \in Modes, Monitor(s, mode),
           MayUse(config, s, mode),
           UNCHANGED <<config, files, inotify, eventFile, timerFD, loop>>
    PROVE  WatchInv'
<1>1. WatchTyped /\ \A x \in Source : InSight(x)
  BY DEF WatchInv
<1>2. /\ ready' \in Seq(Source) /\ Once(ready')
      /\ \A x : Contains(ready, x) => Contains(ready', x)
      /\ Readable(s) => Contains(ready', s)
      /\ interest' \in [Source -> Modes \union {"none", "disabled"}]
      /\ interest'[s] = mode /\ \A x \in Source \ {s} : interest'[x] = interest[x]
  BY <1>1, MonitorHas
<1>3. /\ batch' = batch /\ pc' = pc /\ m_buffer' = m_buffer /\ m_offset' = m_offset
      /\ UNCHANGED <<queue, produced, received, counter, increment, ticked, config>>
      /\ m_events' = m_events
  BY DEF loop, inotify, files, eventFile, timerFD, Monitor
<1>4. OrderInv'
  BY <1>3 DEF WatchInv, OrderInv, EventsInOrder, Buffered
<1>5. WatchTyped'
  <2>1. Once(ready)' /\ Once(batch)'
    BY <1>1, <1>2, <1>3 DEF WatchTyped, Once
  <2> QED BY <1>1, <1>2, <1>3, <2>1 DEF WatchTyped
<1>6. \A x \in Source : Readable(x)' <=> Readable(x)
  BY <1>3, ReadableIs DEF Source
<1>7. ASSUME NEW x \in Source PROVE InSight(x)'
  <2>1. CASE x = s
    BY <1>2, <1>6, <2>1 DEF InSight, Modes
  <2>2. CASE x # s
    BY <1>1, <1>2, <1>3, <1>6, <2>2 DEF InSight
  <2> QED BY <2>1, <2>2
<1>8. EventFileServes'
  <2>1. "event" \in Source
    BY DEF Source
  <2>2. interest'["event"] = "edge" => MayUse(config, "event", "edge")
    <3>1. CASE s = "event"
      BY <1>2, <3>1
    <3>2. CASE s # "event"
      BY <1>2, <2>1, <3>2 DEF WatchInv, EventFileServes
    <3> QED BY <3>1, <3>2
  <2> QED BY <1>3, <2>2 DEF WatchInv, EventFileServes
<1>9. BufferInSight'
  BY <1>3 DEF WatchInv, BufferInSight, Buffered
<1> QED BY <1>4, <1>5, <1>7, <1>8, <1>9 DEF WatchInv

\* A source that is not monitored any more, because it was removed or closed,
\* is nobody's concern.
LEMMA ForgetKeeps ==
    ASSUME WatchInv, NEW s \in Source, Forget(s),
           UNCHANGED <<config, files, inotify, eventFile, m_events, loop>>,
           \A x \in Source \ {s} : Readable(x)' => Readable(x)
    PROVE  WatchInv'
<1>1. /\ WatchTyped /\ \A x \in Source : InSight(x)
      /\ ready \in Seq(Source) /\ Once(ready) /\ interest \in [Source -> Modes \union {"none", "disabled"}]
  BY DEF WatchInv, WatchTyped
<1>2. ready' = Chosen(ready, Source \ {s}) /\ interest' = [interest EXCEPT ![s] = "none"]
  BY DEF Forget
<1>3. /\ ready' \in Seq(Source) /\ Once(ready')
      /\ \A x : Contains(ready', x) <=> Contains(ready, x) /\ x \in Source \ {s}
  BY <1>1, <1>2, ChosenProperties
<1>4. /\ interest' \in [Source -> Modes \union {"none", "disabled"}]
      /\ interest'[s] = "none" /\ \A x \in Source \ {s} : interest'[x] = interest[x]
  BY <1>1, <1>2
<1>5. /\ batch' = batch /\ pc' = pc /\ m_buffer' = m_buffer /\ m_offset' = m_offset
      /\ UNCHANGED <<queue, produced, received, counter, increment, config>>
      /\ m_events' = m_events
  BY DEF loop, inotify, files, eventFile
<1>6. OrderInv'
  BY <1>5 DEF WatchInv, OrderInv, EventsInOrder, Buffered
<1>7. WatchTyped'
  <2>1. Once(ready)' /\ Once(batch)'
    BY <1>1, <1>3, <1>5 DEF WatchTyped, Once
  <2> QED BY <1>1, <1>3, <1>4, <1>5, <2>1 DEF WatchTyped
<1>8. ASSUME NEW x \in Source PROVE InSight(x)'
  <2>1. CASE x = s
    BY <1>4, <2>1 DEF InSight
  <2>2. CASE x # s
    <3>1. x \in Source \ {s} /\ InSight(x) /\ interest'[x] = interest[x]
      BY <1>1, <1>4, <2>2
    <3>2. (Contains(ready, x) => Contains(ready', x)) /\ (Readable(x)' => Readable(x))
      BY <1>3, <3>1
    <3> QED BY <1>5, <3>1, <3>2 DEF InSight
  <2> QED BY <2>1, <2>2
<1>9. EventFileServes'
  <2>1. "event" \in Source
    BY DEF Source
  <2>2. interest'["event"] = "edge" => interest["event"] = "edge"
    BY <1>4, <2>1
  <2> QED BY <1>5, <2>2 DEF WatchInv, EventFileServes
<1>10. BufferInSight'
  BY <1>5 DEF WatchInv, BufferInSight, Buffered
<1> QED BY <1>6, <1>7, <1>8, <1>9, <1>10 DEF WatchInv

\* close(): the instance is gone with all that it monitored.
LEMMA CloseKeeps ==
    ASSUME WatchInv, interest' = [s \in Source |-> "none"], ready' = <<>>, m_events' = <<>>,
           UNCHANGED <<config, files, inotify, eventFile, timerFD, loop>>
    PROVE  WatchInv'
<1>1. /\ batch' = batch /\ pc' = pc /\ m_buffer' = m_buffer /\ m_offset' = m_offset
      /\ UNCHANGED <<queue, produced, received, counter, increment, config>>
  BY DEF loop, inotify, files, eventFile
<1>2. OrderInv'
  BY <1>1 DEF WatchInv, OrderInv, EventsInOrder, Buffered
<1>3. WatchTyped'
  <2>1. Once(ready)' /\ Once(batch)'
    BY <1>1 DEF WatchInv, WatchTyped, Once
  <2> QED BY <1>1, <2>1, EmptySeq DEF WatchInv, WatchTyped
<1>4. \A s \in Source : InSight(s)'
  BY DEF InSight
<1>5. EventFileServes'
  BY <1>1 DEF WatchInv, EventFileServes, Source
<1>6. BufferInSight'
  BY <1>1 DEF WatchInv, BufferInSight, Buffered
<1> QED BY <1>2, <1>3, <1>4, <1>5, <1>6 DEF WatchInv

\* The program reads and goes on with the same report, or does nothing of this
\* kind: what can be read afterwards could be read before.
LEMMA ReadKeeps ==
    ASSUME WatchInv, OrderInv',
           UNCHANGED <<config, interest, ready, increment, batch>>,
           m_events' \in Seq(Source \union {"none"}),
           counter' \in 0 .. CounterMax, counter' = counter \/ config.nonblock,
           pc' = pc \/ (batch = <<>> /\ pc' \in {"setup", "wait", "handle"}),
           Buffered' = Buffered \/ Contains(batch, "inotify"),
           \A x \in Source : Readable(x)' => Readable(x)
    PROVE  WatchInv'
<1>1. WatchTyped /\ \A x \in Source : InSight(x)
  BY DEF WatchInv
<1>2. WatchTyped'
  <2>1. Once(ready)' /\ Once(batch)'
    BY <1>1 DEF WatchTyped, Once
  <2> QED BY <1>1, <2>1 DEF WatchTyped
<1>3. ASSUME NEW x \in Source PROVE InSight(x)'
  BY <1>1 DEF InSight
<1>4. EventFileServes'
  BY DEF WatchInv, EventFileServes
<1>5. BufferInSight'
  BY DEF WatchInv, BufferInSight
<1> QED BY <1>2, <1>3, <1>4, <1>5 DEF WatchInv

\* The next report is handled: what a source had to read by an edge was read, one
\* shot was armed again, and the others are on the list of the kernel.
LEMMA FinishKeeps ==
    ASSUME WatchInv, OrderInv', NEW s \in Source, Handles(s), Finish(s),
           UNCHANGED <<config, increment>>,
           counter' \in 0 .. CounterMax, s = "event" \/ counter' = counter,
           IF s = "inotify" THEN Buffered' = <<>> ELSE Buffered' = Buffered,
           \A x \in Source : Readable(x)' => Readable(x),
           interest[s] = "edge" => ~Readable(s)'
    PROVE  WatchInv'
<1>1. /\ WatchTyped /\ \A x \in Source : InSight(x)
      /\ interest \in [Source -> Modes \union {"none", "disabled"}]
      /\ batch \in Seq(Source) /\ Once(batch) /\ pc = "handle" /\ batch # <<>> /\ Head(batch) = s
  BY DEF WatchInv, WatchTyped, Handles
<1>2. /\ batch' = Tail(batch) /\ pc' = pc
      /\ IF interest[s] = "disabled" THEN Monitor(s, "oneshot") ELSE UNCHANGED poller
  BY DEF Finish
<1>3. /\ batch' \in Seq(Source) /\ Once(batch') /\ ~Contains(batch', s)
      /\ \A x : Contains(batch, x) <=> x = s \/ Contains(batch', x)
  BY <1>1, <1>2, TailHas
<1>4. /\ ready' \in Seq(Source) /\ Once(ready')
      /\ \A x : Contains(ready, x) => Contains(ready', x)
      /\ interest' \in [Source -> Modes \union {"none", "disabled"}]
      /\ \A x \in Source \ {s} : interest'[x] = interest[x]
      /\ IF interest[s] = "disabled" THEN interest'[s] = "oneshot" /\ (Readable(s) => Contains(ready', s))
         ELSE interest'[s] = interest[s]
      /\ m_events' = m_events
  <2>1. CASE interest[s] = "disabled"
    <3>1. "oneshot" \in Modes /\ Monitor(s, "oneshot")
      BY <1>2, <2>1 DEF Modes
    <3>2. m_events' = m_events
      BY <3>1 DEF Monitor
    <3> QED BY <1>1, <2>1, <3>1, <3>2, MonitorHas
  <2>2. CASE interest[s] # "disabled"
    <3>1. UNCHANGED <<interest, ready, m_events>>
      BY <1>2, <2>2 DEF poller
    <3> QED BY <1>1, <2>2, <3>1 DEF WatchTyped
  <2> QED BY <2>1, <2>2
<1>5. WatchTyped'
  <2>1. Once(ready)' /\ Once(batch)'
    BY <1>3, <1>4 DEF Once
  <2> QED BY <1>1, <1>2, <1>3, <1>4, <2>1 DEF WatchTyped
<1>6. ASSUME NEW x \in Source PROVE InSight(x)'
  <2>1. CASE x = s
    <3>1. InSight(s) /\ (Readable(s)' => Readable(s))
      BY <1>1
    <3> QED BY <1>4, <2>1, <3>1 DEF InSight
  <2>2. CASE x # s
    <3>1. x \in Source \ {s} /\ InSight(x) /\ (Readable(x)' => Readable(x))
      BY <1>1, <2>2
    <3>2. interest'[x] = interest[x] /\ (Contains(batch, x) => Contains(batch', x))
          /\ (Contains(ready, x) => Contains(ready', x))
      BY <1>3, <1>4, <2>2, <3>1
    <3> QED BY <3>1, <3>2 DEF InSight
  <2> QED BY <2>1, <2>2
<1>7. EventFileServes'
  <2>1. "event" \in Source
    BY DEF Source
  <2>2. interest'["event"] = "edge" => interest["event"] = "edge"
    BY <1>4, <2>1
  <2>3. Contains(batch', "event") => Contains(batch, "event") /\ counter' = counter
    BY <1>3
  <2> QED BY <2>2, <2>3 DEF WatchInv, EventFileServes
<1>8. BufferInSight'
  <2>1. CASE s = "inotify"
    BY <2>1 DEF BufferInSight
  <2>2. CASE s # "inotify"
    BY <1>3, <2>2 DEF WatchInv, BufferInSight
  <2> QED BY <2>1, <2>2
<1> QED BY <1>5, <1>6, <1>7, <1>8 DEF WatchInv

\* wait(): what is reported goes to the loop, sources monitored by level stay on
\* the list, and so does what there was no room for.
LEMMA WaitKeepsWatch == ASSUME WatchInv, OrderInv', wait PROVE WatchInv'
<1> DEFINE now == ReadyNow
           n == Smaller(Len(now), config.max_events)
           reported == SubSeq(now, 1, n)
           rest == SubSeq(now, n + 1, Len(now))
           levels == Chosen(reported, {s \in Source : interest[s] = "level"})
<1>1. /\ WatchTyped /\ \A s \in Source : InSight(s)
      /\ ready \in Seq(Source) /\ Once(ready) /\ interest \in [Source -> Modes \union {"none", "disabled"}]
      /\ config \in Configs /\ m_events \in Seq(Source \union {"none"})
  BY DEF WatchInv, WatchTyped
<1>2. batch = <<>> /\ \A s : ~Contains(batch, s)
  <2>1. batch = <<>>
    BY <1>1 DEF wait, WatchTyped
  <2>2. \A s : ~Contains(<<>>, s)
    BY DEF Contains
  <2> QED BY <2>1, <2>2
<1>3. /\ now \in Seq(Source) /\ Once(now)
      /\ \A s : Contains(now, s) <=> Contains(ready, s) /\ s \in {x \in Source : Readable(x)}
  BY <1>1, ChosenProperties DEF ReadyNow
<1>4. n \in 0 .. Len(now)
  <2>1. Len(now) \in Nat /\ config.max_events \in Nat
    BY <1>1, <1>3, LenProperties, EventsAssumption
  <2> HIDE DEF now
  <2> QED BY <2>1 DEF Smaller
<1>5. /\ ready' = rest \o levels
      /\ interest' = [s \in Source |->
                         IF interest[s] = "oneshot" /\ Contains(reported, s)
                         THEN "disabled" ELSE interest[s]]
      /\ m_events' = reported \o SubSeq(m_events, Len(reported) + 1, Len(m_events))
      /\ batch' = SubSeq(m_events', 1, Len(reported))
      /\ Len(now) \in Nat
  <2>1. Len(now) \in Nat
    BY <1>3, LenProperties
  <2>2. reported = Reported
    BY DEF Reported
  <2>3. Len(reported) = n
    <3> HIDE DEF now, n
    <3> QED BY <1>3, <1>4, PartsHave
  <2>4. Scan(reported) /\ batch' = SubSeq(m_events', 1, Len(reported))
    <3> HIDE DEF reported
    <3> QED BY Zenon, <2>2 DEF wait
  <2>5. ready' = SubSeq(ReadyNow, Len(reported) + 1, Len(ReadyNow)) \o levels
    BY Zenon, <2>4 DEF Scan
  <2>6. rest = SubSeq(ReadyNow, Len(reported) + 1, Len(ReadyNow))
    BY <2>3
  <2>7. ready' = rest \o levels
    <3> HIDE DEF rest, levels, reported
    <3> QED BY <2>5, <2>6
  <2>8. /\ interest' = [s \in Source |->
                         IF interest[s] = "oneshot" /\ Contains(reported, s)
                         THEN "disabled" ELSE interest[s]]
        /\ m_events' = reported \o SubSeq(m_events, Len(reported) + 1, Len(m_events))
    <3> HIDE DEF reported
    <3> QED BY <2>4 DEF Scan
  <2> HIDE DEF rest, levels, reported, now
  <2> QED BY <2>1, <2>4, <2>7, <2>8
<1>6. /\ reported \in Seq(Source) /\ rest \in Seq(Source) /\ Once(reported) /\ Once(rest)
      /\ \A s : Contains(now, s) <=> Contains(reported, s) \/ Contains(rest, s)
      /\ \A s : ~(Contains(reported, s) /\ Contains(rest, s))
  <2> HIDE DEF now, n
  <2> QED BY <1>3, <1>4, PartsHave
<1> HIDE DEF reported, rest, now, n
<1>7. /\ levels \in Seq(Source) /\ Once(levels)
      /\ \A s : Contains(levels, s) <=> Contains(reported, s) /\ s \in {x \in Source : interest[x] = "level"}
  BY <1>6, ChosenProperties
<1> HIDE DEF levels
<1>8. /\ ready' \in Seq(Source) /\ Once(ready')
      /\ \A s : Contains(ready', s) <=> Contains(rest, s) \/ Contains(levels, s)
  <2>1. \A s : ~(Contains(rest, s) /\ Contains(levels, s))
    BY <1>6, <1>7
  <2> QED BY <1>5, <1>6, <1>7, <2>1, JoinedHave
<1>9. batch' = reported /\ m_events' \in Seq(Source \union {"none"})
  <2> DEFINE T == Source \union {"none"}
             old == SubSeq(m_events, Len(reported) + 1, Len(m_events))
             l == Len(reported)
  <2>1. reported \in Seq(T) /\ l \in Nat
    BY <1>6, SeqMonotonic, LenProperties
  <2>2. old \in Seq(T)
    <3>1. Len(m_events) \in Nat /\ \A i \in 1 .. Len(m_events) : m_events[i] \in T
      BY <1>1, LenProperties, ElementOfSeq
    <3>2. l + 1 \in Int /\ Len(m_events) \in Int /\ \A i \in l + 1 .. Len(m_events) : m_events[i] \in T
      BY <2>1, <3>1
    <3> HIDE DEF T
    <3> QED BY <3>2, SubSeqProperties
  <2>3. m_events' \in Seq(T)
    <3> HIDE DEF T, old
    <3> QED BY <1>5, <2>1, <2>2, ConcatProperties DEF old
  <2>4. batch' = reported
    <3>1. CASE l = 0
      <4>1. SubSeq(m_events', 1, 0) = <<>>
        BY SubSeqEmpty
      <4>2. reported = <<>>
        BY <2>1, <3>1, EmptySeq
      <4> QED BY <1>5, <3>1, <4>1, <4>2
    <3>2. CASE l # 0
      <4>1. 1 \in 1 .. Len(reported) /\ Len(reported) \in 1 .. Len(reported)
        BY <2>1, <3>2
      <4>2. SubSeq(reported \o old, 1, Len(reported)) = SubSeq(reported, 1, Len(reported))
        <5> HIDE DEF T, old
        <5> QED BY <2>1, <2>2, <4>1, SubSeqOfConcat1
      <4>3. SubSeq(reported, 1, Len(reported)) = reported
        BY <1>6, SubSeqFull
      <4> QED BY <1>5, <4>2, <4>3
    <3> QED BY <3>1, <3>2
  <2> QED BY <2>3, <2>4
<1>10. /\ pc' = "handle" /\ UNCHANGED <<config, files, inotify, eventFile, timerFD>>
       /\ UNCHANGED <<m_buffer, m_offset, queue, counter, increment, ticked>>
  BY DEF wait, files, inotify, eventFile, timerFD
<1>11. WatchTyped'
  <2>1. Once(ready)' /\ Once(batch)'
    BY <1>6, <1>8, <1>9 DEF Once
  <2>2. interest' \in [Source -> Modes \union {"none", "disabled"}]
    BY <1>1, <1>5
  <2> QED BY <1>1, <1>6, <1>8, <1>9, <1>10, <2>1, <2>2 DEF WatchTyped
<1>12. ASSUME NEW s \in Source PROVE InSight(s)'
  <2>1. Readable(s)' <=> Readable(s)
    BY <1>10, ReadableIs DEF Source
  <2>2. interest'[s] = IF interest[s] = "oneshot" /\ Contains(reported, s) THEN "disabled" ELSE interest[s]
    BY <1>5
  <2>3. /\ interest[s] \in {"level", "oneshot", "edge"} /\ Readable(s) => Contains(ready, s)
        /\ interest[s] # "disabled"
    BY <1>1, <1>2 DEF InSight
  <2>4. Contains(ready, s) /\ Readable(s) => Contains(reported, s) \/ Contains(rest, s)
    BY <1>3, <1>6
  <2>5. Contains(reported, s) /\ interest[s] = "level" => Contains(ready', s)
    BY <1>7, <1>8
  <2>6. Contains(rest, s) => Contains(ready', s)
    BY <1>8
  <2> QED BY <1>9, <2>1, <2>2, <2>3, <2>4, <2>5, <2>6 DEF InSight
<1>13. EventFileServes'
  <2>1. Contains(reported, "event") => counter > 0
    BY <1>3, <1>6, ReadableIs
  <2>2. "event" \in Source
    BY DEF Source
  <2>3. interest'["event"] = "edge" => interest["event"] = "edge"
    BY <1>5, <2>2
  <2> QED BY <1>9, <1>10, <2>1, <2>3 DEF WatchInv, EventFileServes
<1>14. BufferInSight'
  BY <1>2, <1>10 DEF WatchInv, BufferInSight, Buffered
<1> QED BY <1>11, <1>12, <1>13, <1>14 DEF WatchInv

\* A timeout means that nothing on the list can be read.
LEMMA TimeoutKeepsWatch == ASSUME WatchInv, OrderInv', WaitTimesOut PROVE WatchInv'
<1>1. /\ WatchTyped /\ \A s \in Source : InSight(s)
      /\ ready \in Seq(Source)
  BY DEF WatchInv, WatchTyped
<1>2. \A s : ~Contains(<<>>, s)
  BY DEF Contains
<1>3. batch = <<>>
  BY <1>1 DEF WaitTimesOut, WatchTyped
<1>4. ASSUME NEW s \in Source, Contains(ready, s) PROVE ~Readable(s)
  <2>1. Contains(ReadyNow, s) <=> Contains(ready, s) /\ s \in {x \in Source : Readable(x)}
    BY <1>1, ChosenProperties DEF ReadyNow
  <2> QED BY <1>2, <1>4, <2>1 DEF WaitTimesOut
<1>5. /\ ready' = <<>> /\ batch' = <<>> /\ pc' = "handle"
      /\ UNCHANGED <<config, interest, m_events, m_buffer, m_offset, queue, counter, increment, ticked>>
  BY DEF WaitTimesOut, files, inotify, eventFile, timerFD
<1>6. WatchTyped'
  <2>1. Once(ready)' /\ Once(batch)'
    BY <1>5 DEF Once
  <2> QED BY <1>1, <1>5, <2>1, EmptySeq DEF WatchTyped
<1>7. ASSUME NEW s \in Source PROVE InSight(s)'
  <2>1. Readable(s)' <=> Readable(s)
    BY <1>5, ReadableIs DEF Source
  <2> QED BY <1>1, <1>2, <1>3, <1>4, <1>5, <2>1 DEF InSight
<1>8. EventFileServes'
  BY <1>2, <1>5 DEF WatchInv, EventFileServes
<1>9. BufferInSight'
  BY <1>3, <1>5 DEF WatchInv, BufferInSight, Buffered
<1> QED BY <1>6, <1>7, <1>8, <1>9 DEF WatchInv

\* The buffer of the INotify is read empty before the next report is handled.
LEMMA INotifyKeepsWatch == ASSUME WatchInv, OrderInv', tryReadEvent PROVE WatchInv'
<1>1. /\ WatchTyped /\ OrderInv /\ Handles("inotify")
      /\ counter \in 0 .. CounterMax /\ m_events \in Seq(Source \union {"none"})
      /\ UNCHANGED <<config, counter, increment, ticked>>
  BY DEF WatchInv, WatchTyped, tryReadEvent, eventFile, timerFD
<1>2. Contains(batch, "inotify")
  BY <1>1, TailHas DEF Handles, WatchTyped
<1>3. CASE UNCHANGED <<poller, loop>> /\ (queue # <<>> \/ queue' = queue)
  <2>1. UNCHANGED <<interest, ready, m_events, batch, pc>>
    BY <1>3 DEF poller, loop
  <2>2. \A s \in Source : Readable(s)' => Readable(s)
    BY <1>1, <1>3, ReadableIs DEF Source
  <2> QED BY <1>1, <1>2, <2>1, <2>2, ReadKeeps
<1>4. CASE m_offset >= Len(m_buffer) /\ queue = <<>> /\ FailedRead /\ Finish("inotify")
  <2>1. queue' = queue
    BY <1>4 DEF FailedRead, files
  <2>2. Buffered' = <<>>
    BY <1>1, <1>4, FailedReadEmpties
  <2>3. /\ \A s \in Source : Readable(s)' => Readable(s)
        /\ ~Readable("inotify")'
    BY <1>1, <1>4, <2>1, ReadableIs DEF Source
  <2>4. "inotify" \in Source
    BY DEF Source
  <2> QED BY <1>1, <1>4, <2>2, <2>3, <2>4, FinishKeeps
<1> QED BY <1>3, <1>4 DEF tryReadEvent, FromBuffer, FailedRead, files

\* The EventFile is read when its counter is not zero, once if it may block: the
\* rest is reported again, unless it is monitored by edges.
LEMMA EventFileKeepsWatch == ASSUME WatchInv, OrderInv', ReadEventFile PROVE WatchInv'
<1>1. /\ WatchTyped /\ EventFileServes /\ Handles("event") /\ "event" \in Source
      /\ counter \in 0 .. CounterMax /\ m_events \in Seq(Source \union {"none"})
      /\ UNCHANGED <<config, queue, m_buffer, m_offset, increment, ticked>>
  BY DEF WatchInv, WatchTyped, ReadEventFile, files, inotify, timerFD, Source
<1>2. Contains(batch, "event")
  BY <1>1, TailHas DEF Handles, WatchTyped
<1>3. config.nonblock \in BOOLEAN /\ config.semaphore \in BOOLEAN /\ CounterMax \in Nat
  BY <1>1, EventsAssumption DEF WatchTyped
<1>4. Buffered' = Buffered
  BY <1>1 DEF Buffered
<1>5. CASE /\ counter > 0 /\ counter' = IF config.semaphore THEN counter - 1 ELSE 0
           /\ config.nonblock /\ UNCHANGED <<poller, loop>>
  <2>1. UNCHANGED <<interest, ready, m_events, batch, pc>> /\ counter' \in 0 .. CounterMax
    BY <1>1, <1>3, <1>5 DEF poller, loop
  <2>2. \A s \in Source : Readable(s)' => Readable(s)
    BY <1>1, <1>5, ReadableIs DEF Source
  <2> QED BY <1>1, <1>4, <1>5, <2>1, <2>2, ReadKeeps
<1>6. CASE /\ counter > 0 /\ counter' = IF config.semaphore THEN counter - 1 ELSE 0
           /\ ~config.nonblock /\ Finish("event")
  <2>1. counter' \in 0 .. CounterMax
    BY <1>1, <1>3, <1>6
  <2>2. \A s \in Source : Readable(s)' => Readable(s)
    BY <1>1, <1>6, ReadableIs DEF Source
  <2>3. interest["event"] = "edge" => ~Readable("event")'
    <3>1. interest["event"] = "edge" => counter' = 0
      BY <1>1, <1>3, <1>6 DEF EventFileServes, MayUse
    <3> QED BY <3>1, ReadableIs
  <2> QED BY <1>1, <1>4, <1>6, <2>1, <2>2, <2>3, FinishKeeps
<1>7. CASE counter = 0 /\ config.nonblock /\ Finish("event") /\ UNCHANGED counter
  <2>1. \A s \in Source : Readable(s)' => Readable(s)
    BY <1>1, <1>7, ReadableIs DEF Source
  <2>2. ~Readable("event")'
    BY <1>1, <1>7, ReadableIs
  <2> QED BY <1>1, <1>4, <1>7, <2>1, <2>2, FinishKeeps
<1>8. ~(counter = 0 /\ ~config.nonblock)
  BY <1>1, <1>2 DEF EventFileServes
<1> QED BY <1>3, <1>5, <1>6, <1>7, <1>8 DEF ReadEventFile

\* The steps of the loop and the changes that it makes.
LEMMA LoopKeepsWatch ==
    ASSUME WatchInv, OrderInv', LoopStep \/ Change \/ WaitInterrupted PROVE WatchInv'
<1>1. /\ WatchTyped /\ \A s \in Source : InSight(s) /\ config \in Configs
      /\ counter \in 0 .. CounterMax /\ m_events \in Seq(Source \union {"none"})
      /\ "timer" \in Source
  BY DEF WatchInv, WatchTyped, Source
<1>2. \A s \in Source : config.mode[s] \in Modes /\ MayUse(config, s, config.mode[s])
  BY <1>1, EventsAssumption
<1>3. \A s \in Source \ {"timer"} :
          UNCHANGED <<queue, counter>> => (Readable(s)' => Readable(s))
  BY ReadableIs DEF Source
<1>4. ASSUME UNCHANGED <<config, files, inotify, eventFile, timerFD, interest, ready, batch>>,
             m_events' \in Seq(Source \union {"none"}),
             pc' = pc \/ (batch = <<>> /\ pc' \in {"setup", "wait", "handle"})
      PROVE  WatchInv'
  <2>1. UNCHANGED <<queue, counter, increment, ticked>> /\ Buffered' = Buffered
    BY <1>4 DEF files, inotify, eventFile, timerFD, Buffered
  <2>2. \A s \in Source : Readable(s)' => Readable(s)
    BY <2>1, ReadableIs DEF Source
  <2> QED BY <1>1, <1>4, <2>1, <2>2, ReadKeeps
<1>5. CASE Create
  <2>1. [i \in 1 .. config.max_events |-> "none"] \in Seq(Source \union {"none"})
    <3>1. config.max_events \in Nat
      BY <1>1, EventsAssumption
    <3> QED BY <3>1
  <2>2. m_events' \in Seq(Source \union {"none"})
    BY <1>1, <1>5, <2>1 DEF Create
  <2> QED BY <1>4, <1>5, <2>2 DEF Create, loop
<1>6. CASE OpenTimer \/ RenewTimer
  <2>1. PICK ok \in BOOLEAN : CreateTimer(ok)
    BY <1>6 DEF OpenTimer, RenewTimer
  <2>2. /\ Forget("timer") /\ UNCHANGED <<config, files, inotify, eventFile, m_events, loop>>
        /\ UNCHANGED <<queue, counter>>
    BY <2>1 DEF CreateTimer, files, eventFile
  <2> QED BY <1>1, <1>3, <2>2, ForgetKeeps
<1>7. CASE SetupDone \/ NextRound \/ WaitInterrupted
  <2>1. batch = <<>> /\ UNCHANGED <<config, files, inotify, eventFile, timerFD, poller, batch>>
        /\ pc' \in {"setup", "wait", "handle"}
    BY <1>1, <1>7 DEF SetupDone, NextRound, WaitInterrupted, WatchTyped
  <2> QED BY <1>1, <1>4, <2>1 DEF poller
<1>8. ASSUME NEW s \in Source, addFD(s) PROVE WatchInv'
  <2>1. CASE Monitor(s, config.mode[s])
    BY <1>2, <1>8, <2>1, MonitorKeeps DEF addFD
  <2>2. CASE UNCHANGED poller
    BY <1>1, <1>4, <1>8, <2>2 DEF addFD, poller, loop
  <2> QED BY <1>8, <2>1, <2>2 DEF addFD
<1>9. ASSUME NEW s \in Source, modFD(s) PROVE WatchInv'
  BY <1>9, MonitorKeeps DEF modFD
<1>10. ASSUME NEW s \in Source, delFD(s) PROVE WatchInv'
  <2>1. UNCHANGED <<queue, counter, ticked>>
    BY <1>10 DEF delFD, files, eventFile, timerFD
  <2>2. \A x \in Source \ {s} : Readable(x)' => Readable(x)
    BY <2>1, ReadableIs DEF Source
  <2> QED BY <1>10, <2>2, ForgetKeeps DEF delFD
<1>11. CASE close
  BY <1>11, CloseKeeps DEF close
<1>12. CASE ReadTimer
  <2>1. /\ Handles("timer") /\ Finish("timer") /\ ticked' = FALSE
        /\ UNCHANGED <<config, queue, counter, increment>> /\ Buffered' = Buffered
    BY <1>12 DEF ReadTimer, files, inotify, eventFile, Buffered
  <2>2. (\A s \in Source : Readable(s)' => Readable(s)) /\ ~Readable("timer")'
    BY <2>1, ReadableIs DEF Source
  <2> QED BY <1>1, <2>1, <2>2, FinishKeeps
<1> QED BY <1>5, <1>6, <1>7, <1>8, <1>9, <1>10, <1>11, <1>12, WaitKeepsWatch, INotifyKeepsWatch,
           EventFileKeepsWatch DEF LoopStep, Change

\* No step puts a source out of sight.
LEMMA NextKeepsWatch == WatchInv /\ [Next]_vars => WatchInv'
<1> SUFFICES ASSUME WatchInv, [Next]_vars PROVE WatchInv'
  OBVIOUS
<1>1. OrderInv'
  BY NextKeepsOrder DEF WatchInv
<1>2. CASE UNCHANGED vars
  <2>1. UNCHANGED <<config, interest, ready, m_events, batch, pc, counter, increment, ticked, queue>>
        /\ Buffered' = Buffered
    BY <1>2 DEF vars, files, inotify, eventFile, timerFD, poller, loop, Buffered
  <2>2. \A s \in Source : Readable(s)' => Readable(s)
    BY <2>1, ReadableIs DEF Source
  <2>3. m_events \in Seq(Source \union {"none"}) /\ counter \in 0 .. CounterMax
    BY DEF WatchInv, WatchTyped
  <2> QED BY <1>1, <2>1, <2>2, <2>3, ReadKeeps
<1> QED BY <1>1, <1>2, OthersKeepWatch, LoopKeepsWatch, TimeoutKeepsWatch DEF Next

\* No source that has something to read is out of sight of the kernel and of the
\* loop, no event is left in a buffer that nobody looks at, and no reading call
\* hangs, for any modes, limits and errors and any changes of the monitoring
\* (Poller, INotify::readEvent(), EventFile, TimerFD).
THEOREM SourcesStayInSight == Spec => []NothingUnnoticed
<1>1. Spec => []WatchInv
  BY InitIsWatched, NextKeepsWatch, PTL DEF Spec
<1> QED BY <1>1, WatchedIsNoticed, PTL
=============================================================================
