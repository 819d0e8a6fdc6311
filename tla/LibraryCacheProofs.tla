------------------------- MODULE LibraryCacheProofs -------------------------
(***************************************************************************)
(* The rows of the libraries are those a new database would have, unless a *)
(* directory or a link has moved; and what a package is found to require,  *)
(* it is found to need.                                                    *)
(***************************************************************************)
EXTENDS LibraryCache, FileSystemLemmas, FiniteSetTheorems

-----------------------------------------------------------------------------
(* Two file systems with the same directories and links.                   *)

IsPlace(world, p) == p \in DOMAIN world /\ world[p].type \in {"ISDIR", "ISLNK"}

SamePlaces(f, g) ==
  \A p : (IsPlace(f, p) <=> IsPlace(g, p)) /\ (IsPlace(f, p) => f[p] = g[p])

\* Links are the same, and lead to the same.
LEMMA SameLinks ==
  ASSUME NEW f, NEW g, SamePlaces(f, g)
  PROVE  /\ \A q : IsLinkAt(f, q) <=> IsLinkAt(g, q)
         /\ \A q : LinksOn(f, q) = LinksOn(g, q)
         /\ \A q \in Seq(NodeNames) : Redirect(f, q) = Redirect(g, q)
<1>1. \A q : (IsLinkAt(f, q) <=> IsLinkAt(g, q)) /\ (IsLinkAt(f, q) => f[q] = g[q])
  BY DEF SamePlaces, IsPlace, IsLinkAt
<1>2. \A q : LinksOn(f, q) = LinksOn(g, q)
  BY <1>1 DEF LinksOn
<1>3. ASSUME NEW q \in Seq(NodeNames) PROVE Redirect(f, q) = Redirect(g, q)
  <2>1. CASE LinksOn(f, q) = {}
    BY <1>2, <2>1 DEF Redirect
  <2>2. CASE LinksOn(f, q) # {}
    <3> DEFINE k == FirstLink(f, q)
    <3>1. k \in LinksOn(f, q) /\ FirstLink(g, q) = k
      BY <1>2, <2>2, FirstLinkIs DEF FirstLink
    <3>2. IsLinkAt(f, SubSeq(q, 1, k))
      <4> HIDE DEF k
      <4> QED BY <3>1 DEF LinksOn
    <3>3. Redirect(f, q) = f[SubSeq(q, 1, k)].to \o SubSeq(q, k + 1, Len(q))
      BY <2>2 DEF Redirect, FirstLink
    <3>4. Redirect(g, q) = g[SubSeq(q, 1, FirstLink(g, q))].to \o SubSeq(q, FirstLink(g, q) + 1, Len(q))
      BY <1>2, <2>2 DEF Redirect, FirstLink
    <3>5. f[SubSeq(q, 1, k)] = g[SubSeq(q, 1, k)]
      BY <1>1, <3>2
    <3> HIDE DEF k
    <3> QED BY <3>1, <3>3, <3>4, <3>5
  <2> QED BY <2>1, <2>2
<1> QED BY <1>1, <1>2, <1>3

\* A path leads to the same.
LEMMA SameChase ==
  ASSUME NEW f, NEW g, IsFileSystem(f), IsFileSystem(g), SamePlaces(f, g),
         NEW p \in Seq(PathNames)
  PROVE  Chased(f, p) = Chased(g, p)
<1>1. PICK a \in [0..MaxLinks -> Seq(NodeNames)] :
        /\ a[0] = Clean(p) /\ Chased(f, p) = a[MaxLinks]
        /\ \A i \in 1..MaxLinks : a[i] = Redirect(f, a[i - 1])
  BY ChaseIs
<1>2. PICK b \in [0..MaxLinks -> Seq(NodeNames)] :
        /\ b[0] = Clean(p) /\ Chased(g, p) = b[MaxLinks]
        /\ \A i \in 1..MaxLinks : b[i] = Redirect(g, b[i - 1])
  BY ChaseIs
<1> DEFINE T == {n \in Nat : n <= MaxLinks => a[n] = b[n]}
<1>3. 0 \in T
  BY <1>1, <1>2
<1>4. ASSUME NEW n \in T PROVE n + 1 \in T
  <2> SUFFICES ASSUME n + 1 <= MaxLinks PROVE a[n + 1] = b[n + 1]
    OBVIOUS
  <2>1. n + 1 \in 1..MaxLinks /\ (n + 1) - 1 = n /\ n \in 0..MaxLinks
    BY MaxLinksAssumption
  <2>2. a[n] = b[n] /\ a[n] \in Seq(NodeNames)
    BY <2>1
  <2>3. Redirect(f, a[n]) = Redirect(g, b[n])
    BY <2>2, SameLinks
  <2> QED BY <1>1, <1>2, <2>1, <2>3
<1>5. T \in SUBSET Nat
  OBVIOUS
<1> HIDE DEF T
<1>6. MaxLinks \in T
  BY <1>3, <1>4, <1>5, CountedUp, MaxLinksAssumption
<1> QED BY <1>1, <1>2, <1>6 DEF T

\* What a directory or a link is on the way to, or is, is the same.
LEMMA SameStay ==
  ASSUME NEW f, NEW g, IsFileSystem(g), SamePlaces(f, g), NEW q \in Seq(NodeNames),
         NEW type \in {"ISDIR", "ISLNK"}
  PROVE  /\ Landed(f, q) /\ TypeAt(f, q) = type => Landed(g, q) /\ TypeAt(g, q) = type
         /\ \A name \in NodeNames : TypeIn(f, q, name) = type => TypeIn(g, q, name) = type
<1>1. LinksOn(f, q) = LinksOn(g, q)
  BY SameLinks
<1>2. \A r : r # <<>> /\ TypeAt(f, r) = type => r \in DOMAIN g /\ TypeAt(g, r) = type
  <2> SUFFICES ASSUME NEW r, r # <<>>, TypeAt(f, r) = type
               PROVE  r \in DOMAIN g /\ TypeAt(g, r) = type
    OBVIOUS
  <2>1. r \in DOMAIN f /\ f[r].type = type
    BY DEF TypeAt
  <2>2. IsPlace(f, r)
    BY <2>1 DEF IsPlace
  <2>3. IsPlace(g, r) /\ f[r] = g[r]
    BY <2>2 DEF SamePlaces
  <2> QED BY <2>1, <2>3 DEF TypeAt, IsPlace
<1>3. ASSUME Landed(f, q), TypeAt(f, q) = type PROVE Landed(g, q) /\ TypeAt(g, q) = type
  <2>1. CASE q = <<>>
    BY <1>1, <1>3, <2>1 DEF Landed, TypeAt
  <2>2. CASE q # <<>>
    BY <1>1, <1>2, <1>3, <2>2 DEF Landed
  <2> QED BY <2>1, <2>2
<1>4. ASSUME NEW name \in NodeNames, TypeIn(f, q, name) = type PROVE TypeIn(g, q, name) = type
  <2> DEFINE r == Append(q, name)
  <2>1. Landed(f, q) /\ TypeAt(f, r) = type
    BY <1>4 DEF TypeIn
  <2>2. r # <<>> /\ r \in Seq(NodeNames) /\ Len(r) = Len(q) + 1 /\ SubSeq(r, 1, Len(q)) = q
    OBVIOUS
  <2> HIDE DEF r
  <2>3. r \in DOMAIN g /\ TypeAt(g, r) = type
    BY <1>2, <2>1, <2>2
  <2>4. q = <<>> \/ q \in DOMAIN g
    <3>1. CASE q = <<>>
      BY <3>1
    <3>2. CASE q # <<>>
      <4>1. Len(q) \in 1..(Len(r) - 1)
        BY <2>2, <3>2
      <4> QED BY <2>2, <2>3, <4>1 DEF IsFileSystem
    <3> QED BY <3>1, <3>2
  <2>5. Landed(g, q)
    BY <1>1, <2>1, <2>4 DEF Landed
  <2> QED BY <2>3, <2>5 DEF TypeIn, r
<1> QED BY <1>3, <1>4

\* What lstat calls a directory or a link is the same.
LEMMA SameLstat ==
  ASSUME NEW f, NEW g, IsFileSystem(f), IsFileSystem(g), SamePlaces(f, g),
         NEW p \in Seq(PathNames), NEW type \in {"ISDIR", "ISLNK"}, Lstat(f, p) = type
  PROVE  Lstat(g, p) = type
<1>1. CASE Clean(p) = <<>>
  BY <1>1 DEF Lstat
<1>2. CASE p # <<>> /\ Clean(p) = p
  <2> DEFINE q == Dirname(p)
             name == Basename(p)
             x == Chased(f, q)
  <2>1. p \in Seq(NodeNames) \ {<<>>}
    BY <1>2, CleanPath
  <2>2. q \in Seq(NodeNames) /\ name \in NodeNames
    BY <2>1, NodePath
  <2>3. q \in Seq(PathNames)
    BY <2>2, Nodes
  <2> HIDE DEF q, name
  <2>4. x \in Seq(NodeNames) /\ Chased(g, q) = x
    BY <2>3, ChasedIs, SameChase
  <2>5. Lstat(f, p) = TypeIn(f, x, name) /\ Lstat(g, p) = TypeIn(g, Chased(g, q), name)
    BY <1>2 DEF Lstat, q, name
  <2> HIDE DEF x
  <2> QED BY <2>2, <2>4, <2>5, SameStay
<1>3. CASE Clean(p) # <<>> /\ ~(p # <<>> /\ Clean(p) = p)
  <2> DEFINE x == Chased(f, p)
  <2>1. x \in Seq(NodeNames) /\ Chased(g, p) = x
    BY ChasedIs, SameChase
  <2>2. /\ Lstat(f, p) = IF IsDirAt(f, x) THEN "ISDIR" ELSE "INVALID"
        /\ Lstat(g, p) = IF IsDirAt(g, Chased(g, p)) THEN "ISDIR" ELSE "INVALID"
    BY <1>3 DEF Lstat
  <2> HIDE DEF x
  <2>3. IsDirAt(f, x) /\ type = "ISDIR"
    BY <2>2
  <2>4. IsDirAt(g, x)
    BY <2>1, <2>3, SameStay DEF IsDirAt
  <2> QED BY <2>1, <2>2, <2>3, <2>4
<1> QED BY <1>1, <1>2, <1>3

\* The path of a file of a file system has no links, and lstat says what it is.
LEMMA FilesPath ==
  ASSUME NEW f, IsFileSystem(f), NEW p \in DOMAIN f, f[p].type = "ISREG"
  PROVE  /\ LinksOn(f, p) = {} /\ Chased(f, p) = p /\ Landed(f, p)
         /\ IsFileAt(f, p) /\ Lstat(f, p) = "ISREG"
<1>1. /\ p \in Seq(NodeNames) \ {<<>>}
      /\ \A k \in 1..Len(p) - 1 : f[SubSeq(p, 1, k)].type = "ISDIR"
  BY DEF IsFileSystem
<1>2. p \in Seq(PathNames) /\ Clean(p) = p /\ SubSeq(p, 1, Len(p)) = p
  BY <1>1, Nodes, CleanPath
<1>3. \A k \in 1..Len(p) : ~IsLinkAt(f, SubSeq(p, 1, k))
  <2> SUFFICES ASSUME NEW k \in 1..Len(p) PROVE ~IsLinkAt(f, SubSeq(p, 1, k))
    OBVIOUS
  <2>1. CASE k = Len(p)
    BY <1>2, <2>1 DEF IsLinkAt
  <2>2. CASE k # Len(p)
    <3>1. k \in 1..Len(p) - 1
      BY <1>1, <2>2
    <3> QED BY <1>1, <3>1 DEF IsLinkAt
  <2> QED BY <2>1, <2>2
<1>4. LinksOn(f, p) = {} /\ Chased(f, p) = p
  BY <1>2, <1>3, FixedChase DEF LinksOn
<1>5. Landed(f, p) /\ IsFileAt(f, p)
  BY <1>1, <1>4 DEF Landed, IsFileAt, TypeAt
<1>6. Lstat(f, p) = "ISREG"
  <2> DEFINE q == Dirname(p)
             name == Basename(p)
  <2>1. q \in Seq(NodeNames) /\ name \in NodeNames /\ p = Append(q, name)
    BY <1>1, NodePath
  <2>2. p # <<>> /\ Clean(p) # <<>>
    BY <1>1, <1>2
  <2>3. Lstat(f, p) = TypeIn(f, Chased(f, q), name)
    BY <1>2, <2>2 DEF Lstat
  <2> HIDE DEF q, name
  <2>4. \A k \in 1..Len(q) :
          SubSeq(q, 1, k) = SubSeq(p, 1, k) /\ k \in 1..Len(p) - 1 /\ k \in 1..Len(p)
    BY <2>1
  <2>5. \A k \in 1..Len(q) : ~IsLinkAt(f, SubSeq(q, 1, k))
    BY <1>3, <2>4
  <2>6. LinksOn(f, q) = {}
    BY <2>5 DEF LinksOn
  <2>7. q \in Seq(PathNames) /\ Clean(q) = q
    BY <2>1, Nodes, CleanPath
  <2>8. Chased(f, q) = q
    BY <2>6, <2>7, FixedChase
  <2>9. q = <<>> \/ q \in DOMAIN f
    <3>1. CASE q = <<>>
      BY <3>1
    <3>2. CASE q # <<>>
      <4>1. Len(q) \in 1..Len(q) /\ SubSeq(q, 1, Len(q)) = q
        BY <2>1, <3>2
      <4>2. Len(q) \in 1..Len(p) - 1 /\ SubSeq(p, 1, Len(q)) = q
        BY <2>4, <4>1
      <4> QED BY <4>2 DEF IsFileSystem
    <3> QED BY <3>1, <3>2
  <2>10. TypeIn(f, q, name) = TypeAt(f, p)
    BY <2>1, <2>6, <2>9 DEF TypeIn, Landed
  <2> QED BY <2>2, <2>3, <2>8, <2>10 DEF TypeAt
<1> QED BY <1>4, <1>5, <1>6

\* Where a path leads that is no file and leads to none.
LEMMA SameRealPath ==
  ASSUME NEW f, NEW g, IsFileSystem(f), IsFileSystem(g), SamePlaces(f, g),
         NEW q \in Seq(PathNames),
         \A w \in {f, g} : {Lstat(w, q), MakeRealPath(w, PathOf(w, q)).type}
                            \cap {"ISREG", "ISFIFO"} = {}
  PROVE  MakeRealPath(f, PathOf(f, q)) = MakeRealPath(g, PathOf(g, q))
<1> DEFINE z == Chased(f, q)
           Real(w) == MakeRealPath(w, PathOf(w, q))
<1>1. z \in Seq(NodeNames) /\ Chased(g, q) = z
  BY ChasedIs, SameChase
<1>2. /\ Real(f) = IF Landed(f, z) THEN [url |-> z, type |-> TypeAt(f, z)] ELSE PathOf(f, q)
      /\ Real(g) = IF Landed(g, z) THEN [url |-> z, type |-> TypeAt(g, z)] ELSE PathOf(g, q)
  BY <1>1 DEF MakeRealPath, PathOf
<1> HIDE DEF z
<1>3. /\ PathOf(f, q) = [url |-> q, type |-> Lstat(f, q)]
      /\ PathOf(g, q) = [url |-> q, type |-> Lstat(g, q)]
  BY DEF PathOf
<1>4. /\ Lstat(f, q) \notin {"ISREG", "ISFIFO"} /\ Real(f).type \notin {"ISREG", "ISFIFO"}
      /\ Lstat(g, q) \notin {"ISREG", "ISFIFO"} /\ Real(g).type \notin {"ISREG", "ISFIFO"}
  OBVIOUS
<1> HIDE DEF Real
<1>5. Landed(f, z) \/ Landed(g, z) =>
        Landed(f, z) /\ Landed(g, z) /\ TypeAt(f, z) = TypeAt(g, z)
  <2>1. \A w \in {f, g} : Landed(w, z) => TypeAt(w, z) \in PathTypes \ {"INVALID"}
    BY DEF Landed, TypeAt, IsFileSystem, PathTypes
  <2>2. \A w \in {f, g} : Landed(w, z) => TypeAt(w, z) \in {"ISDIR", "ISLNK"}
    BY <1>2, <1>4, <2>1 DEF PathTypes
  <2>3. SamePlaces(g, f)
    BY DEF SamePlaces
  <2> QED BY <1>1, <2>2, <2>3, SameStay
<1>6. Lstat(f, q) = Lstat(g, q)
  <2>1. Lstat(f, q) \in PathTypes /\ Lstat(g, q) \in PathTypes
    BY TypesAre
  <2>2. SamePlaces(g, f)
    BY DEF SamePlaces
  <2>3. \A type \in {"ISDIR", "ISLNK"} : Lstat(f, q) = type <=> Lstat(g, q) = type
    BY <2>2, SameLstat
  <2> QED BY <1>4, <2>1, <2>3 DEF PathTypes
<1>7. Real(f) = Real(g)
  BY <1>2, <1>3, <1>5, <1>6
<1> QED BY <1>7 DEF Real

\* A link to a file that is in both file systems.
LEMMA SameLinkedFrom ==
  ASSUME NEW f, NEW g, IsFileSystem(f), IsFileSystem(g), SamePlaces(f, g),
         NEW d \in Seq(PathNames), NEW elf, elf.soName \in PathNames,
         elf.name \in DOMAIN f \cap DOMAIN g, f[elf.name].type = "ISREG",
         LinkedFrom(f, d, elf)
  PROVE  LinkedFrom(g, d, elf)
<1> DEFINE p == Append(d, elf.soName)
           z == Chased(f, p)
<1>1. p \in Seq(PathNames)
  OBVIOUS
<1> HIDE DEF p
<1>2. z \in Seq(NodeNames) /\ Chased(g, p) = z
  BY <1>1, ChasedIs, SameChase
<1> HIDE DEF z
<1>3. PathOf(f, p) = [url |-> p, type |-> Lstat(f, p)] /\ PathOf(g, p) = [url |-> p, type |-> Lstat(g, p)]
  BY DEF PathOf
<1>4. IsLink(PathOf(f, p)) /\ MakeRealPath(f, PathOf(f, p)).url = elf.name
  BY DEF LinkedFrom, p
<1>5. Lstat(f, p) = "ISLNK" /\ Lstat(g, p) = "ISLNK"
  <2>1. Lstat(f, p) = "ISLNK"
    BY <1>3, <1>4 DEF IsLink
  <2> QED BY <1>1, <2>1, SameLstat
<1>6. p # elf.name
  <2> SUFFICES ASSUME p = elf.name PROVE FALSE
    OBVIOUS
  <2>1. p \in DOMAIN f /\ f[p].type = "ISREG" /\ p \in Seq(NodeNames)
    BY DEF IsFileSystem
  <2> QED BY <1>5, <2>1, FilesPath
<1>7. z = elf.name
  BY <1>3, <1>4, <1>6 DEF MakeRealPath, z
<1>8. Landed(g, z)
  BY <1>7, FilesPath, SameLinks DEF Landed
<1>9. MakeRealPath(g, PathOf(g, p)).url = elf.name
  BY <1>2, <1>3, <1>7, <1>8 DEF MakeRealPath
<1>10. IsLink(PathOf(g, p))
  BY <1>3, <1>5 DEF IsLink
<1> QED BY <1>9, <1>10 DEF LinkedFrom, p

-----------------------------------------------------------------------------
(* What a package puts into the file system, and what is read of it.       *)

Insts == [Names -> {0} \cup Versions]

\* A package's nodes are in the file system as they are in the package.
LEMMA FilesAreThere ==
  ASSUME NEW inst \in Insts, NEW lines \in Confs, NEW p \in Names, inst[p] # 0
  PROVE  /\ inst[p] \in Versions
         /\ IsFileSystem(FilesOf(inst, lines))
         /\ \A at \in DOMAIN Files(p, inst[p]) :
              /\ at \in DOMAIN FilesOf(inst, lines)
              /\ FilesOf(inst, lines)[at] = Files(p, inst[p])[at]
<1>1. inst[p] \in Versions
  BY DEF Insts
<1>2. IsFileSystem(FilesOf(inst, lines))
  BY WorldAssumption DEF Insts
<1>3. ASSUME NEW at \in DOMAIN Files(p, inst[p])
      PROVE  at \in DOMAIN FilesOf(inst, lines) /\ FilesOf(inst, lines)[at] = Files(p, inst[p])[at]
  <2> DEFINE parts == Parts(inst, lines)
             mine == Files(p, inst[p])
             partOf == CHOOSE part \in parts : at \in DOMAIN part
  <2>1. mine \in parts
    BY DEF Parts
  <2>2. \A a, b \in parts : \A x \in DOMAIN a \cap DOMAIN b : a[x] = b[x]
    BY WorldAssumption DEF Insts
  <2> HIDE DEF parts, mine
  <2>3. partOf \in parts /\ at \in DOMAIN partOf
    BY <2>1 DEF mine
  <2>4. partOf[at] = mine[at]
    BY <2>1, <2>2, <2>3 DEF mine
  <2>5. at \in UNION {DOMAIN part : part \in parts}
    BY <2>3
  <2>6. FilesOf(inst, lines) =
          [x \in UNION {DOMAIN part : part \in parts} |-> (CHOOSE part \in parts : x \in DOMAIN part)[x]]
    BY DEF FilesOf, parts
  <2> QED BY <2>4, <2>5, <2>6 DEF mine
<1> QED BY <1>1, <1>2, <1>3

\* A finite set is laid out in a sequence of its elements.
LEMMA SetToSeqIs ==
  ASSUME NEW S, IsFiniteSet(S)
  PROVE  Range(SetToSeq(S)) \subseteq S
<1>1. ExistsBijection(1..Cardinality(S), S)
  BY FS_CardinalityType
<1>2. \E f \in [1..Cardinality(S) -> S] : IsInjective(f)
  BY <1>1 DEF ExistsBijection, Bijection, Injection
<1>3. SetToSeq(S) \in [1..Cardinality(S) -> S]
  BY <1>2 DEF SetToSeq
<1> QED BY <1>3 DEF Range

Regular(p, v) == {f \in DOMAIN Files(p, v) : Files(p, v)[f].type = "ISREG"}

\* What is kept of a file of the package.
IsElfOf(p, v, e) == \E f \in Regular(p, v) : e = ElfIn(p, v, f) /\ e.name = f

\* The ELF files of a package are those of its own files, whatever else is there.
LEMMA ElfFilesAre ==
  ASSUME NEW inst \in Insts, NEW lines \in Confs, NEW p \in Names, NEW v, v = inst[p], v # 0,
         NEW nodes, nodes = FilesOf(inst, lines)
  PROVE  /\ ElfFilesOf(nodes, p, v) =
              SetToSeq({e \in {ElfIn(p, v, f) : f \in Regular(p, v)} : IsElf(e)})
         /\ \A e \in Range(ElfFilesOf(nodes, p, v)) : IsElfOf(p, v, e)
<1> DEFINE F == Regular(p, v)
           S == {e \in {ElfIn(p, v, f) : f \in F} : IsElf(e)}
<1>1. /\ v \in Versions /\ IsFileSystem(nodes)
      /\ \A f \in DOMAIN Files(p, v) : f \in DOMAIN nodes /\ nodes[f] = Files(p, v)[f]
  BY FilesAreThere
<1>2. \A f \in F : ElfAt(nodes, f) = ElfIn(p, v, f)
  <2> SUFFICES ASSUME NEW f \in F PROVE ElfAt(nodes, f) = ElfIn(p, v, f)
    OBVIOUS
  <2>1. f \in DOMAIN nodes /\ nodes[f] = Files(p, v)[f] /\ nodes[f].type = "ISREG"
    BY <1>1 DEF Regular
  <2>2. Chased(nodes, f) = f /\ IsFileAt(nodes, f)
    BY <1>1, <2>1, FilesPath
  <2>3. ElfAt(nodes, f) = ElfOf(f, nodes[f].image)
    BY <2>2 DEF ElfAt
  <2> QED BY <2>1, <2>3 DEF ElfIn
<1>3. {g \in DOMAIN Files(p, v) : nodes[g].type = "ISREG"} = F
  BY <1>1 DEF Regular
<1>4. {ElfAt(nodes, f) : f \in F} = {ElfIn(p, v, f) : f \in F}
  BY <1>2
<1>5. ElfFilesOf(nodes, p, v) = SetToSeq(S)
  BY <1>3, <1>4 DEF ElfFilesOf
<1>6. IsFiniteSet(S)
  <2>1. IsFiniteSet(F)
    BY <1>1, FilesAssumption, FS_Subset DEF Regular
  <2> DEFINE T == {ElfIn(p, v, f) : f \in F}
             h == [f \in F |-> ElfIn(p, v, f)]
  <2>2. h \in Surjection(F, T)
    BY DEF Surjection
  <2>3. IsFiniteSet(T)
    <3> HIDE DEF h, T, F
    <3> QED BY <2>1, <2>2, FS_Surjection DEF ExistsSurjection
  <2>4. S \subseteq T
    OBVIOUS
  <2> HIDE DEF S, T
  <2> QED BY <2>3, <2>4, FS_Subset
<1>7. \A e \in Range(SetToSeq(S)) : e \in S
  <2> HIDE DEF S
  <2> QED BY <1>6, SetToSeqIs
<1>8. \A f \in F : ElfIn(p, v, f).name = f
  <2> SUFFICES ASSUME NEW f \in F PROVE ElfIn(p, v, f).name = f
    OBVIOUS
  <2>1. HasSizes(Files(p, v)[f].image)
    BY <1>1, FilesAssumption DEF Regular
  <2> QED BY <2>1, ElfOfHasName DEF ElfIn
<1>9. \A e \in S : \E f \in F : e = ElfIn(p, v, f) /\ e.name = f
  BY <1>8
<1>10. \A e \in Range(ElfFilesOf(nodes, p, v)) : IsElfOf(p, v, e)
  <2>1. \A e \in S : IsElfOf(p, v, e)
    BY <1>9 DEF IsElfOf
  <2> HIDE DEF S
  <2> QED BY <1>5, <1>7, <2>1
<1> QED BY <1>5, <1>10

-----------------------------------------------------------------------------
(* The rows that are made of a package.                                    *)

MadeRows(ldirs, nodes, pkg) ==
  [dynlinked |-> {DynLinkedRow(ldirs, nodes, pkg.fullname, e) : e \in Range(pkg.elfFiles)},
   required |-> UNION {RequiredRows(pkg.fullname, e) : e \in Range(pkg.elfFiles)},
   rrunpath |-> UNION {RRunPathRows(nodes, pkg.fullname, e) : e \in Range(pkg.elfFiles)}]

\* The directory a library belongs to, where those are known that link to it.
DirAmong(linking, dir, ldirs) ==
  IF dir \in ldirs \/ linking = {} THEN dir
  ELSE DirOrder[CHOOSE i \in linking : \A j \in linking : i <= j]

\* A file system there may be, with a version of a package in it.
InstalledIn(nodes, p, v) ==
  \E inst \in Insts, lines \in Confs : v = inst[p] /\ v # 0 /\ nodes = FilesOf(inst, lines)

\* A version of a package has the same ELF files and rows wherever directories, links and
\* the linker's directories are the same.
LEMMA SameRows ==
  ASSUME NEW p \in Names, NEW v, NEW f, NEW g, InstalledIn(f, p, v), InstalledIn(g, p, v),
         SamePlaces(f, g), NEW ldirs
  PROVE  MadeRows(ldirs, f, PkgOf(f, p, v)) = MadeRows(ldirs, g, PkgOf(g, p, v))
<1>0. PICK inst1 \in Insts, lines1 \in Confs, inst2 \in Insts, lines2 \in Confs :
        /\ v = inst1[p] /\ v = inst2[p] /\ v # 0
        /\ f = FilesOf(inst1, lines1) /\ g = FilesOf(inst2, lines2)
  BY DEF InstalledIn
<1>1. /\ v \in Versions /\ IsFileSystem(f) /\ IsFileSystem(g)
      /\ \A at \in DOMAIN Files(p, v) : /\ at \in DOMAIN f /\ f[at] = Files(p, v)[at]
                                        /\ at \in DOMAIN g /\ g[at] = Files(p, v)[at]
  <2>1. /\ inst1[p] \in Versions /\ IsFileSystem(f)
        /\ \A at \in DOMAIN Files(p, inst1[p]) : at \in DOMAIN f /\ f[at] = Files(p, inst1[p])[at]
    BY <1>0, FilesAreThere
  <2>2. /\ IsFileSystem(g)
        /\ \A at \in DOMAIN Files(p, inst2[p]) : at \in DOMAIN g /\ g[at] = Files(p, inst2[p])[at]
    BY <1>0, FilesAreThere
  <2> QED BY <1>0, <2>1, <2>2
<1>2. /\ ElfFilesOf(f, p, v) = ElfFilesOf(g, p, v)
      /\ \A e \in Range(ElfFilesOf(f, p, v)) : IsElfOf(p, v, e)
  <2>1. /\ inst1 \in Insts /\ lines1 \in Confs /\ p \in Names /\ v = inst1[p] /\ v # 0
        /\ f = FilesOf(inst1, lines1)
    BY <1>0
  <2>2. /\ inst2 \in Insts /\ lines2 \in Confs /\ p \in Names /\ v = inst2[p] /\ v # 0
        /\ g = FilesOf(inst2, lines2)
    BY <1>0
  <2>3. ElfFilesOf(f, p, v) = SetToSeq({e \in {ElfIn(p, v, at) : at \in Regular(p, v)} : IsElf(e)})
    BY ONLY <2>1, ElfFilesAre
  <2>4. ElfFilesOf(g, p, v) = SetToSeq({e \in {ElfIn(p, v, at) : at \in Regular(p, v)} : IsElf(e)})
    BY ONLY <2>2, ElfFilesAre
  <2>5. \A e \in Range(ElfFilesOf(f, p, v)) : IsElfOf(p, v, e)
    BY ONLY <2>1, ElfFilesAre
  <2> QED BY <2>3, <2>4, <2>5
<1>3. PkgOf(f, p, v) = PkgOf(g, p, v)
  BY <1>2 DEF PkgOf
<1> DEFINE elfs == ElfFilesOf(f, p, v)
<1>4. PkgOf(f, p, v).fullname = p /\ PkgOf(f, p, v).elfFiles = elfs
  BY DEF PkgOf
<1>5. SamePlaces(g, f)
  BY DEF SamePlaces
<1>6. ASSUME NEW e \in Range(elfs) PROVE DynLinkedRow(ldirs, f, p, e) = DynLinkedRow(ldirs, g, p, e)
  <2>1. PICK at \in Regular(p, v) : e = ElfIn(p, v, at) /\ e.name = at
    BY <1>2 DEF IsElfOf
  <2>2. /\ e.name \in DOMAIN f \cap DOMAIN g
        /\ f[e.name].type = "ISREG" /\ g[e.name].type = "ISREG"
    BY <1>1, <2>1 DEF Regular
  <2>3. e.soName \in PathNames
    BY <1>1, <2>1, FilesAssumption DEF Regular
  <2>4. \A d \in Seq(PathNames) : LinkedFrom(f, d, e) <=> LinkedFrom(g, d, e)
    <3>1. \A d \in Seq(PathNames) : LinkedFrom(f, d, e) => LinkedFrom(g, d, e)
      BY <1>1, <2>2, <2>3, SameLinkedFrom
    <3>2. \A d \in Seq(PathNames) : LinkedFrom(g, d, e) => LinkedFrom(f, d, e)
      BY <1>1, <1>5, <2>2, <2>3, SameLinkedFrom
    <3> QED BY <3>1, <3>2
  <2>5. \A i \in DOMAIN DirOrder : DirOrder[i] \in Seq(PathNames)
    BY DirOrderAssumption, Nodes
  <2>6. {i \in DOMAIN DirOrder : DirOrder[i] \in ldirs /\ LinkedFrom(f, DirOrder[i], e)}
          = {i \in DOMAIN DirOrder : DirOrder[i] \in ldirs /\ LinkedFrom(g, DirOrder[i], e)}
    BY <2>4, <2>5
  <2>7. FindDirWithLink(f, e, ldirs) = FindDirWithLink(g, e, ldirs)
    <3>1. \A w : FindDirWithLink(w, e, ldirs) =
                   DirAmong({i \in DOMAIN DirOrder : DirOrder[i] \in ldirs /\ LinkedFrom(w, DirOrder[i], e)},
                            Dirname(e.name), ldirs)
      BY DEF FindDirWithLink, DirAmong
    <3> QED BY <2>6, <3>1
  <2> QED BY <2>7, Zenon DEF DynLinkedRow
<1>7. ASSUME NEW e \in Range(elfs) PROVE RRunPathRows(f, p, e) = RRunPathRows(g, p, e)
  <2>1. PICK at \in Regular(p, v) : e = ElfIn(p, v, at) /\ e.name = at
    BY <1>2 DEF IsElfOf
  <2>2. ASSUME NEW r \in Range(e.rrunpaths)
        PROVE  RRunPathDir(f, r, Dirname(e.name)) = RRunPathDir(g, r, Dirname(e.name))
    <3> DEFINE path == ReplaceORIGIN(r, Dirname(e.name))
    <3>1. /\ path \in Seq(PathNames)
          /\ \A inst \in Insts, lines \in Confs :
               {PathOf(FilesOf(inst, lines), path).type,
                MakeRealPath(FilesOf(inst, lines), PathOf(FilesOf(inst, lines), path)).type}
                 \cap {"ISREG", "ISFIFO"} = {}
      BY <1>1, <2>1, RunPathAssumption DEF Regular, Insts
    <3>2. \A w : PathOf(w, path).type = Lstat(w, path)
      BY DEF PathOf
    <3> HIDE DEF path
    <3>3. \A w \in {f, g} : {Lstat(w, path), MakeRealPath(w, PathOf(w, path)).type}
                               \cap {"ISREG", "ISFIFO"} = {}
      BY <1>0, <3>1, <3>2
    <3>4. MakeRealPath(f, PathOf(f, path)) = MakeRealPath(g, PathOf(g, path))
      BY <1>1, <3>1, <3>3, SameRealPath
    <3> QED BY <3>4 DEF RRunPathDir, path
  <2> QED BY <2>2 DEF RRunPathRows
<1> HIDE DEF elfs
<1>8. /\ {DynLinkedRow(ldirs, f, p, e) : e \in Range(elfs)} = {DynLinkedRow(ldirs, g, p, e) : e \in Range(elfs)}
      /\ {RRunPathRows(f, p, e) : e \in Range(elfs)} = {RRunPathRows(g, p, e) : e \in Range(elfs)}
  BY <1>6, <1>7
<1>9. MadeRows(ldirs, f, PkgOf(f, p, v)) = MadeRows(ldirs, g, PkgOf(f, p, v))
  <2> DEFINE pkg == PkgOf(f, p, v)
  <2> HIDE DEF pkg
  <2> DEFINE D(w) == {DynLinkedRow(ldirs, w, p, e) : e \in Range(elfs)}
             R(w) == {RRunPathRows(w, p, e) : e \in Range(elfs)}
  <2>1. \A w : MadeRows(ldirs, w, pkg) =
                 [dynlinked |-> D(w), required |-> UNION {RequiredRows(p, e) : e \in Range(elfs)},
                  rrunpath |-> UNION R(w)]
    BY <1>4 DEF MadeRows, pkg
  <2>2. D(f) = D(g) /\ R(f) = R(g)
    BY <1>8
  <2> HIDE DEF D, R
  <2>3. MadeRows(ldirs, f, pkg) = MadeRows(ldirs, g, pkg)
    BY <2>1, <2>2
  <2> QED BY <2>3 DEF pkg
<1> QED BY <1>3, <1>9

-----------------------------------------------------------------------------
(* The tables.                                                             *)

\* A package has one row, and a row below it belongs to one that is there.
Keyed(d) ==
  /\ \A r, s \in d.pkgs : r.fullname = s.fullname => r = s
  /\ \A x \in d.dynlinked :
       x.id = <<x.pkg_id, x.filename>> /\ \E r \in d.pkgs : r.fullname = x.pkg_id
  /\ \A r \in d.required \cup d.rrunpath : \E x \in d.dynlinked : x.id = r.dynlinked_id

\* The rows of packages, and below them, that do not belong to some.
Without(d, fulls) ==
  [d EXCEPT !.pkgs = {r \in @ : r.fullname \notin fulls},
            !.dynlinked = {x \in @ : x.pkg_id \notin fulls},
            !.required = {r \in @ : r.dynlinked_id[1] \notin fulls},
            !.rrunpath = {r \in @ : r.dynlinked_id[1] \notin fulls}]

\* An insertion adds to its table.
LEMMA InsertIs ==
  ASSUME NEW d, NEW id \in DOMAIN TableOf, TableOf[id] \in DOMAIN d, NEW rows
  PROVE  /\ DOMAIN Insert(d, id, rows) = DOMAIN d
         /\ Insert(d, id, rows)[TableOf[id]] = d[TableOf[id]] \cup rows
         /\ \A t \in DOMAIN d \ {TableOf[id]} : Insert(d, id, rows)[t] = d[t]
BY DEF Insert

\* What IndexPkg() adds.
LEMMA IndexAdds ==
  ASSUME NEW d, DOMAIN d = Tables, NEW nodes, NEW pkgs
  PROVE  LET e == IndexPkg(d, nodes, pkgs)
             owned == OwnedElfs(pkgs)
         IN /\ DOMAIN e = Tables
            /\ e.lddirs = d.lddirs /\ e.ldlnkdirs = d.ldlnkdirs
            /\ e.pkgs = d.pkgs \cup {PkgRow(p) : p \in pkgs}
            /\ e.dynlinked = d.dynlinked
                 \cup {DynLinkedRow(LinkerDirsIn(d), nodes, o[1], o[2]) : o \in owned}
            /\ e.required = d.required \cup UNION {RequiredRows(o[1], o[2]) : o \in owned}
            /\ e.rrunpath = d.rrunpath \cup UNION {RRunPathRows(nodes, o[1], o[2]) : o \in owned}
<1> DEFINE owned == OwnedElfs(pkgs)
           A == {PkgRow(p) : p \in pkgs}
           a == Insert(d, "insert_pkg", A)
           B == {DynLinkedRow(LinkerDirsIn(a), nodes, o[1], o[2]) : o \in owned}
           b == Insert(a, "insert_dynlinked", B)
           C == UNION {RequiredRows(o[1], o[2]) : o \in owned}
           c == Insert(b, "insert_required", C)
           D == UNION {RRunPathRows(nodes, o[1], o[2]) : o \in owned}
           e == Insert(c, "insert_rrunpath", D)
<1>1. IndexPkg(d, nodes, pkgs) = e
  BY DEF IndexPkg, InsertElfs
<1>2. LinkerDirsIn(a) = LinkerDirsIn(d)
  BY InsertIs DEF LinkerDirsIn, TableOf, Tables
<1>3. B = {DynLinkedRow(LinkerDirsIn(d), nodes, o[1], o[2]) : o \in owned}
  BY <1>2
<1>4. /\ TableOf["insert_pkg"] = "pkgs" /\ TableOf["insert_dynlinked"] = "dynlinked"
      /\ TableOf["insert_required"] = "required" /\ TableOf["insert_rrunpath"] = "rrunpath"
      /\ {"insert_pkg", "insert_dynlinked", "insert_required", "insert_rrunpath"} \subseteq DOMAIN TableOf
      /\ Tables = {"pkgs", "dynlinked", "required", "rrunpath", "lddirs", "ldlnkdirs", "version"}
  BY DEF TableOf, Tables
<1> HIDE DEF A, B, C, D, owned
<1>5. /\ DOMAIN a = Tables /\ a["pkgs"] = d["pkgs"] \cup A
      /\ \A t \in Tables \ {"pkgs"} : a[t] = d[t]
  BY <1>4, InsertIs
<1> HIDE DEF a
<1>6. /\ DOMAIN b = Tables /\ b["dynlinked"] = a["dynlinked"] \cup B
      /\ \A t \in Tables \ {"dynlinked"} : b[t] = a[t]
  BY <1>4, <1>5, InsertIs
<1> HIDE DEF b
<1>7. /\ DOMAIN c = Tables /\ c["required"] = b["required"] \cup C
      /\ \A t \in Tables \ {"required"} : c[t] = b[t]
  BY <1>4, <1>6, InsertIs
<1> HIDE DEF c
<1>8. /\ DOMAIN e = Tables /\ e["rrunpath"] = c["rrunpath"] \cup D
      /\ \A t \in Tables \ {"rrunpath"} : e[t] = c[t]
  BY <1>4, <1>7, InsertIs
<1> HIDE DEF e
<1>9. /\ e.lddirs = d.lddirs /\ e.ldlnkdirs = d.ldlnkdirs
      /\ e.pkgs = d.pkgs \cup A /\ e.dynlinked = d.dynlinked \cup B
      /\ e.required = d.required \cup C /\ e.rrunpath = d.rrunpath \cup D
  BY <1>4, <1>5, <1>6, <1>7, <1>8
<1> QED BY <1>1, <1>3, <1>8, <1>9 DEF A, C, D, owned

\* What DelByFullName() leaves.
LEMMA DelLeaves ==
  ASSUME NEW d, DOMAIN d = Tables, Keyed(d), NEW fulls
  PROVE  DelByFullName(d, fulls) = Without(d, fulls)
<1> DEFINE rows == {r \in d.pkgs : r.fullname \in fulls}
           names == {r.fullname : r \in rows}
           below == {r \in d.dynlinked : r.pkg_id \in names}
           ids == {x.id : x \in below}
<1>1. DelByFullName(d, fulls) =
        [[d EXCEPT !.dynlinked = @ \ below, !.required = {r \in @ : r.dynlinked_id \notin ids},
                   !.rrunpath = {r \in @ : r.dynlinked_id \notin ids}] EXCEPT !.pkgs = @ \ rows]
  BY DEF DelByFullName, DeletePkgs, DeleteDynLinked
<1>2. below = {x \in d.dynlinked : x.pkg_id \in fulls}
  BY DEF Keyed
<1>3. \A r \in d.required \cup d.rrunpath : r.dynlinked_id \in ids <=> r.dynlinked_id[1] \in fulls
  <2> SUFFICES ASSUME NEW r \in d.required \cup d.rrunpath
               PROVE  r.dynlinked_id \in ids <=> r.dynlinked_id[1] \in fulls
    OBVIOUS
  <2>1. PICK x \in d.dynlinked : x.id = r.dynlinked_id
    BY DEF Keyed
  <2>2. \A y \in d.dynlinked : y.id = <<y.pkg_id, y.filename>>
    BY DEF Keyed
  <2>3. \A y \in d.dynlinked : y.id[1] = y.pkg_id
    BY <2>2
  <2> QED BY <1>2, <2>1, <2>3
<1>4. /\ d.pkgs \ rows = {r \in d.pkgs : r.fullname \notin fulls}
      /\ d.dynlinked \ below = {x \in d.dynlinked : x.pkg_id \notin fulls}
      /\ {r \in d.required : r.dynlinked_id \notin ids} =
           {r \in d.required : r.dynlinked_id[1] \notin fulls}
      /\ {r \in d.rrunpath : r.dynlinked_id \notin ids} =
           {r \in d.rrunpath : r.dynlinked_id[1] \notin fulls}
  BY <1>2, <1>3
<1> HIDE DEF rows, below, ids
<1> QED BY <1>1, <1>4 DEF Without, Tables

\* Tables without some packages are tables still, and the others' rows are all there.
LEMMA WithoutKeeps ==
  ASSUME NEW d, DOMAIN d = Tables, Keyed(d), NEW fulls
  PROVE  LET e == Without(d, fulls)
         IN /\ DOMAIN e = Tables /\ Keyed(e)
            /\ e.lddirs = d.lddirs /\ e.ldlnkdirs = d.ldlnkdirs
            /\ e.pkgs = {r \in d.pkgs : r.fullname \notin fulls}
            /\ \A p : p \notin fulls => RowsOf(e, p) = RowsOf(d, p)
            /\ \A p \in fulls : RowsOf(e, p) = [dynlinked |-> {}, required |-> {}, rrunpath |-> {}]
<1> DEFINE e == Without(d, fulls)
<1>1. /\ DOMAIN e = Tables /\ e.lddirs = d.lddirs /\ e.ldlnkdirs = d.ldlnkdirs
      /\ e.pkgs = {r \in d.pkgs : r.fullname \notin fulls}
      /\ e.dynlinked = {x \in d.dynlinked : x.pkg_id \notin fulls}
      /\ e.required = {r \in d.required : r.dynlinked_id[1] \notin fulls}
      /\ e.rrunpath = {r \in d.rrunpath : r.dynlinked_id[1] \notin fulls}
  BY DEF Without, Tables
<1> HIDE DEF e
<1>2. Keyed(e)
  <2>1. \A r, s \in e.pkgs : r.fullname = s.fullname => r = s
    BY <1>1 DEF Keyed
  <2>2. ASSUME NEW x \in e.dynlinked
        PROVE  x.id = <<x.pkg_id, x.filename>> /\ \E r \in e.pkgs : r.fullname = x.pkg_id
    <3>1. x \in d.dynlinked /\ x.pkg_id \notin fulls
      BY <1>1
    <3>2. PICK r \in d.pkgs : r.fullname = x.pkg_id
      BY <3>1 DEF Keyed
    <3>3. r \in e.pkgs
      BY <1>1, <3>1, <3>2
    <3> QED BY <3>1, <3>2, <3>3 DEF Keyed
  <2>3. ASSUME NEW r \in e.required \cup e.rrunpath PROVE \E x \in e.dynlinked : x.id = r.dynlinked_id
    <3>1. r \in d.required \cup d.rrunpath /\ r.dynlinked_id[1] \notin fulls
      BY <1>1
    <3>2. PICK x \in d.dynlinked : x.id = r.dynlinked_id
      BY <3>1 DEF Keyed
    <3>3. x.id = <<x.pkg_id, x.filename>>
      BY <3>2 DEF Keyed
    <3>4. x.id[1] = x.pkg_id
      BY <3>3
    <3> QED BY <1>1, <3>1, <3>2, <3>4
  <2> QED BY <2>1, <2>2, <2>3 DEF Keyed
<1>3. \A p : p \notin fulls => RowsOf(e, p) = RowsOf(d, p)
  <2> SUFFICES ASSUME NEW p, p \notin fulls PROVE RowsOf(e, p) = RowsOf(d, p)
    OBVIOUS
  <2>1. /\ {r \in e.dynlinked : r.pkg_id = p} = {r \in d.dynlinked : r.pkg_id = p}
        /\ {r \in e.required : r.dynlinked_id[1] = p} = {r \in d.required : r.dynlinked_id[1] = p}
        /\ {r \in e.rrunpath : r.dynlinked_id[1] = p} = {r \in d.rrunpath : r.dynlinked_id[1] = p}
    BY <1>1
  <2> QED BY <2>1 DEF RowsOf
<1>4. ASSUME NEW p \in fulls
      PROVE  RowsOf(e, p) = [dynlinked |-> {}, required |-> {}, rrunpath |-> {}]
  <2>1. /\ {r \in e.dynlinked : r.pkg_id = p} = {}
        /\ {r \in e.required : r.dynlinked_id[1] = p} = {}
        /\ {r \in e.rrunpath : r.dynlinked_id[1] = p} = {}
    BY <1>1
  <2> QED BY <2>1 DEF RowsOf
<1> QED BY <1>1, <1>2, <1>3, <1>4 DEF e

\* Whose a row of dynlinked is.
LEMMA DynLinkedRowIs ==
  \A ldirs, nodes, full, e :
    /\ DynLinkedRow(ldirs, nodes, full, e).id = IdOf(full, e)
    /\ DynLinkedRow(ldirs, nodes, full, e).pkg_id = full
    /\ DynLinkedRow(ldirs, nodes, full, e).filename = e.name
    /\ DynLinkedRow(ldirs, nodes, full, e).arch = e.arch
BY DEF DynLinkedRow

\* Whose a row of required is.
LEMMA RequiredRowIs ==
  \A full, e : \A r \in RequiredRows(full, e) : r.dynlinked_id = IdOf(full, e)
BY DEF RequiredRows

\* Whose a row of rrunpath is.
LEMMA RRunPathRowIs ==
  \A nodes, full, e : \A r \in RRunPathRows(nodes, full, e) : r.dynlinked_id = IdOf(full, e)
BY DEF RRunPathRows

\* A key says whose row it is of.
LEMMA IdIs == \A full, e : IdOf(full, e) = <<full, e.name>> /\ IdOf(full, e)[1] = full
BY DEF IdOf

\* The ELF files of packages are those of each of them.
LEMMA OwnedElfsAre ==
  ASSUME NEW pkgs
  PROVE  /\ \A o \in OwnedElfs(pkgs) : \E q \in pkgs : o[1] = q.fullname /\ o[2] \in Range(q.elfFiles)
         /\ \A q \in pkgs : \A f \in Range(q.elfFiles) :
              \E o \in OwnedElfs(pkgs) : o[1] = q.fullname /\ o[2] = f
<1>1. ASSUME NEW o \in OwnedElfs(pkgs)
      PROVE  \E q \in pkgs : o[1] = q.fullname /\ o[2] \in Range(q.elfFiles)
  <2>1. PICK q \in pkgs : o \in {<<q.fullname, e>> : e \in Range(q.elfFiles)}
    BY DEF OwnedElfs
  <2>2. PICK e \in Range(q.elfFiles) : o = <<q.fullname, e>>
    BY <2>1
  <2>3. o[1] = q.fullname /\ o[2] = e
    BY <2>2
  <2> QED BY <2>3
<1>2. ASSUME NEW q \in pkgs, NEW f \in Range(q.elfFiles)
      PROVE  \E o \in OwnedElfs(pkgs) : o[1] = q.fullname /\ o[2] = f
  <2>1. <<q.fullname, f>> \in OwnedElfs(pkgs)
    BY DEF OwnedElfs
  <2>2. <<q.fullname, f>>[1] = q.fullname /\ <<q.fullname, f>>[2] = f
    OBVIOUS
  <2> QED BY <2>1, <2>2
<1> QED BY <1>1, <1>2

\* Packages that have no rows yet get those that are made of them.
LEMMA IndexGives ==
  ASSUME NEW d, DOMAIN d = Tables, Keyed(d), NEW nodes, NEW pkgs,
         \A q \in pkgs : /\ \A r \in d.pkgs : r.fullname # q.fullname
                         /\ RowsOf(d, q.fullname) = [dynlinked |-> {}, required |-> {}, rrunpath |-> {}]
                         /\ \A o \in pkgs : o.fullname = q.fullname => o = q
  PROVE  LET e == IndexPkg(d, nodes, pkgs)
         IN /\ DOMAIN e = Tables /\ Keyed(e)
            /\ e.lddirs = d.lddirs /\ e.ldlnkdirs = d.ldlnkdirs
            /\ e.pkgs = d.pkgs \cup {PkgRow(q) : q \in pkgs}
            /\ \A q \in pkgs : RowsOf(e, q.fullname) = MadeRows(LinkerDirsIn(d), nodes, q)
            /\ \A p : (\A q \in pkgs : q.fullname # p) => RowsOf(e, p) = RowsOf(d, p)
<1> DEFINE e == IndexPkg(d, nodes, pkgs)
           owned == OwnedElfs(pkgs)
           B == {DynLinkedRow(LinkerDirsIn(d), nodes, o[1], o[2]) : o \in owned}
           C == UNION {RequiredRows(o[1], o[2]) : o \in owned}
           D == UNION {RRunPathRows(nodes, o[1], o[2]) : o \in owned}
<1>1. /\ DOMAIN e = Tables /\ e.lddirs = d.lddirs /\ e.ldlnkdirs = d.ldlnkdirs
      /\ e.pkgs = d.pkgs \cup {PkgRow(p) : p \in pkgs}
      /\ e.dynlinked = d.dynlinked \cup B /\ e.required = d.required \cup C
      /\ e.rrunpath = d.rrunpath \cup D
  BY IndexAdds
<1> HIDE DEF e
<1>2. /\ \A o \in owned : \E q \in pkgs : o[1] = q.fullname /\ o[2] \in Range(q.elfFiles)
      /\ \A q \in pkgs : \A f \in Range(q.elfFiles) :
           \E o \in owned : o[1] = q.fullname /\ o[2] = f
  BY OwnedElfsAre
<1> HIDE DEF owned
<1>3. \A x : x \in B <=> \E q \in pkgs : \E f \in Range(q.elfFiles) :
                           x = DynLinkedRow(LinkerDirsIn(d), nodes, q.fullname, f)
  BY <1>2
<1>4. \A x : x \in C <=> \E q \in pkgs : \E f \in Range(q.elfFiles) : x \in RequiredRows(q.fullname, f)
  BY <1>2
<1>5. \A x : x \in D <=> \E q \in pkgs : \E f \in Range(q.elfFiles) : x \in RRunPathRows(nodes, q.fullname, f)
  BY <1>2
<1> HIDE DEF B, C, D
<1>6. \A q \in pkgs : PkgRow(q).fullname = q.fullname
  BY DEF PkgRow
<1>7. Keyed(e)
  <2>1. \A r, s \in e.pkgs : r.fullname = s.fullname => r = s
    BY <1>1, <1>6 DEF Keyed
  <2>2. ASSUME NEW x \in e.dynlinked
        PROVE  x.id = <<x.pkg_id, x.filename>> /\ \E r \in e.pkgs : r.fullname = x.pkg_id
    <3>1. CASE x \in d.dynlinked
      BY <1>1, <3>1 DEF Keyed
    <3>2. CASE x \in B
      <4>0. PICK q \in pkgs : \E f \in Range(q.elfFiles) :
              x = DynLinkedRow(LinkerDirsIn(d), nodes, q.fullname, f)
        BY <1>3, <3>2
      <4>1. PICK f \in Range(q.elfFiles) : x = DynLinkedRow(LinkerDirsIn(d), nodes, q.fullname, f)
        BY <4>0
      <4>2. x.id = <<x.pkg_id, x.filename>> /\ x.pkg_id = q.fullname
        BY <4>1, DynLinkedRowIs, IdIs
      <4> QED BY <1>1, <1>6, <4>2
    <3> QED BY <1>1, <3>1, <3>2
  <2>3. ASSUME NEW r \in e.required \cup e.rrunpath PROVE \E x \in e.dynlinked : x.id = r.dynlinked_id
    <3>1. CASE r \in d.required \cup d.rrunpath
      BY <1>1, <3>1 DEF Keyed
    <3>2. CASE r \in C \cup D
      <4>0. PICK q \in pkgs : \E f \in Range(q.elfFiles) :
              r \in RequiredRows(q.fullname, f) \cup RRunPathRows(nodes, q.fullname, f)
        BY <1>4, <1>5, <3>2
      <4>1. PICK f \in Range(q.elfFiles) :
              r \in RequiredRows(q.fullname, f) \cup RRunPathRows(nodes, q.fullname, f)
        BY <4>0
      <4>2. r.dynlinked_id = IdOf(q.fullname, f)
        BY <4>1, RequiredRowIs, RRunPathRowIs
      <4> DEFINE x == DynLinkedRow(LinkerDirsIn(d), nodes, q.fullname, f)
      <4>3. x \in B
        BY <1>3
      <4>4. x.id = IdOf(q.fullname, f)
        BY DynLinkedRowIs
      <4> HIDE DEF x
      <4> QED BY <1>1, <4>2, <4>3, <4>4
    <3> QED BY <1>1, <3>1, <3>2
  <2> QED BY <2>1, <2>2, <2>3 DEF Keyed
<1>8. ASSUME NEW q \in pkgs PROVE RowsOf(e, q.fullname) = MadeRows(LinkerDirsIn(d), nodes, q)
  <2> DEFINE p == q.fullname
             E == Range(q.elfFiles)
  <2>1. \A o \in pkgs : o.fullname = p => o = q
    OBVIOUS
  <2>2. /\ {r \in d.dynlinked : r.pkg_id = p} = {}
        /\ {r \in d.required : r.dynlinked_id[1] = p} = {}
        /\ {r \in d.rrunpath : r.dynlinked_id[1] = p} = {}
    BY DEF RowsOf
  <2>3. {r \in B : r.pkg_id = p} = {DynLinkedRow(LinkerDirsIn(d), nodes, p, f) : f \in E}
    <3>1. ASSUME NEW r PROVE r \in B /\ r.pkg_id = p <=>
            \E f \in E : r = DynLinkedRow(LinkerDirsIn(d), nodes, p, f)
      BY <1>3, <2>1, DynLinkedRowIs
    <3> QED BY <3>1
  <2>4. {r \in C : r.dynlinked_id[1] = p} = UNION {RequiredRows(p, f) : f \in E}
    <3>1. ASSUME NEW r PROVE r \in C /\ r.dynlinked_id[1] = p <=> \E f \in E : r \in RequiredRows(p, f)
      <4>1. \A o, f : r \in RequiredRows(o, f) => r.dynlinked_id[1] = o
        BY RequiredRowIs, IdIs
      <4> QED BY <1>4, <2>1, <4>1
    <3> QED BY <3>1
  <2>5. {r \in D : r.dynlinked_id[1] = p} = UNION {RRunPathRows(nodes, p, f) : f \in E}
    <3>1. ASSUME NEW r PROVE r \in D /\ r.dynlinked_id[1] = p <=> \E f \in E : r \in RRunPathRows(nodes, p, f)
      <4>1. \A o, f : r \in RRunPathRows(nodes, o, f) => r.dynlinked_id[1] = o
        BY RRunPathRowIs, IdIs
      <4> QED BY <1>5, <2>1, <4>1
    <3> QED BY <3>1
  <2>6. /\ {r \in e.dynlinked : r.pkg_id = p} = {DynLinkedRow(LinkerDirsIn(d), nodes, p, f) : f \in E}
        /\ {r \in e.required : r.dynlinked_id[1] = p} = UNION {RequiredRows(p, f) : f \in E}
        /\ {r \in e.rrunpath : r.dynlinked_id[1] = p} = UNION {RRunPathRows(nodes, p, f) : f \in E}
    <3> HIDE DEF p, E
    <3> QED BY <1>1, <2>2, <2>3, <2>4, <2>5
  <2> QED BY <2>6 DEF RowsOf, MadeRows
<1>9. ASSUME NEW p, \A q \in pkgs : q.fullname # p PROVE RowsOf(e, p) = RowsOf(d, p)
  <2>1. \A r \in B : r.pkg_id # p
    BY <1>3, <1>9, DynLinkedRowIs
  <2>2. \A r \in C : r.dynlinked_id[1] # p
    <3>1. \A r, o, f : r \in RequiredRows(o, f) => r.dynlinked_id[1] = o
      BY RequiredRowIs, IdIs
    <3> QED BY <1>4, <1>9, <3>1
  <2>3. \A r \in D : r.dynlinked_id[1] # p
    <3>1. \A r, o, f : r \in RRunPathRows(nodes, o, f) => r.dynlinked_id[1] = o
      BY RRunPathRowIs, IdIs
    <3> QED BY <1>5, <1>9, <3>1
  <2>4. /\ {r \in e.dynlinked : r.pkg_id = p} = {r \in d.dynlinked : r.pkg_id = p}
        /\ {r \in e.required : r.dynlinked_id[1] = p} = {r \in d.required : r.dynlinked_id[1] = p}
        /\ {r \in e.rrunpath : r.dynlinked_id[1] = p} = {r \in d.rrunpath : r.dynlinked_id[1] = p}
    BY <1>1, <2>1, <2>2, <2>3
  <2> QED BY <2>4 DEF RowsOf
<1> QED BY <1>1, <1>7, <1>8, <1>9 DEF e

\* What a package that was loaded says of itself.
LEMMA PkgIs ==
  \A nodes, p, v : /\ PkgOf(nodes, p, v).fullname = p
                  /\ PkgRow(PkgOf(nodes, p, v)).fullname = p
                  /\ PkgRow(PkgOf(nodes, p, v)).timestamp = v
BY DEF PkgOf, PkgRow

\* Clearing and indexing: some packages have the rows they are given, the others the
\* rows they had.
LEMMA ReindexedIs ==
  ASSUME NEW d, DOMAIN d = Tables, Keyed(d), NEW nodes, NEW inst, NEW names
  PROVE  LET there == names \cap {p \in Names : inst[p] # 0}
             e == IndexPkg(DelByFullName(d, names), nodes, {PkgOf(nodes, p, inst[p]) : p \in there})
         IN /\ DOMAIN e = Tables /\ Keyed(e)
            /\ e.lddirs = d.lddirs /\ e.ldlnkdirs = d.ldlnkdirs
            /\ \A r : r \in e.pkgs <=>
                 \/ r \in d.pkgs /\ r.fullname \notin names
                 \/ \E p \in there : r = PkgRow(PkgOf(nodes, p, inst[p]))
            /\ \A p \in there :
                 RowsOf(e, p) = MadeRows(LinkerDirsIn(d), nodes, PkgOf(nodes, p, inst[p]))
            /\ \A p : p \notin names => RowsOf(e, p) = RowsOf(d, p)
<1> DEFINE there == names \cap {p \in Names : inst[p] # 0}
           pkgs == {PkgOf(nodes, p, inst[p]) : p \in there}
           c == Without(d, names)
           e == IndexPkg(c, nodes, pkgs)
<1>1. DelByFullName(d, names) = c
  BY DelLeaves
<1>2. /\ DOMAIN c = Tables /\ Keyed(c)
      /\ c.lddirs = d.lddirs /\ c.ldlnkdirs = d.ldlnkdirs
      /\ c.pkgs = {r \in d.pkgs : r.fullname \notin names}
      /\ \A p : p \notin names => RowsOf(c, p) = RowsOf(d, p)
      /\ \A p \in names : RowsOf(c, p) = [dynlinked |-> {}, required |-> {}, rrunpath |-> {}]
  BY WithoutKeeps
<1> HIDE DEF c
<1>3. LinkerDirsIn(c) = LinkerDirsIn(d)
  BY <1>2 DEF LinkerDirsIn
<1>4. \A q \in pkgs : /\ \A r \in c.pkgs : r.fullname # q.fullname
                     /\ RowsOf(c, q.fullname) = [dynlinked |-> {}, required |-> {}, rrunpath |-> {}]
                     /\ \A o \in pkgs : o.fullname = q.fullname => o = q
  <2> SUFFICES ASSUME NEW q \in pkgs
               PROVE  /\ \A r \in c.pkgs : r.fullname # q.fullname
                      /\ RowsOf(c, q.fullname) = [dynlinked |-> {}, required |-> {}, rrunpath |-> {}]
                      /\ \A o \in pkgs : o.fullname = q.fullname => o = q
    OBVIOUS
  <2>1. PICK p \in there : q = PkgOf(nodes, p, inst[p])
    OBVIOUS
  <2>2. q.fullname = p /\ p \in names
    BY <2>1, PkgIs
  <2>3. \A o \in pkgs : o.fullname = p => o = q
    <3> SUFFICES ASSUME NEW o \in pkgs, o.fullname = p PROVE o = q
      OBVIOUS
    <3>1. PICK x \in there : o = PkgOf(nodes, x, inst[x])
      OBVIOUS
    <3>2. x = p
      BY <3>1, PkgIs
    <3> QED BY <2>1, <3>1, <3>2
  <2> HIDE DEF pkgs
  <2> QED BY <1>2, <2>2, <2>3
<1>5. \A p \in there : PkgOf(nodes, p, inst[p]) \in pkgs /\ PkgOf(nodes, p, inst[p]).fullname = p
  BY PkgIs
<1>6. \A q \in pkgs : \E p \in there : q = PkgOf(nodes, p, inst[p]) /\ q.fullname = p
  BY PkgIs
<1>7. \A p \in there : p \in names
  OBVIOUS
<1> HIDE DEF pkgs, there
<1>8. /\ DOMAIN e = Tables /\ Keyed(e)
      /\ e.lddirs = c.lddirs /\ e.ldlnkdirs = c.ldlnkdirs
      /\ e.pkgs = c.pkgs \cup {PkgRow(q) : q \in pkgs}
      /\ \A q \in pkgs : RowsOf(e, q.fullname) = MadeRows(LinkerDirsIn(c), nodes, q)
      /\ \A p : (\A q \in pkgs : q.fullname # p) => RowsOf(e, p) = RowsOf(c, p)
  BY <1>2, <1>4, IndexGives
<1> HIDE DEF e
<1>9. \A r : r \in e.pkgs <=> \/ r \in d.pkgs /\ r.fullname \notin names
                             \/ \E p \in there : r = PkgRow(PkgOf(nodes, p, inst[p]))
  BY <1>2, <1>5, <1>6, <1>8
<1>10. \A p \in there :
         RowsOf(e, p) = MadeRows(LinkerDirsIn(d), nodes, PkgOf(nodes, p, inst[p]))
  BY <1>3, <1>5, <1>8
<1>11. \A p : p \notin names => RowsOf(e, p) = RowsOf(d, p)
  BY <1>2, <1>6, <1>7, <1>8
<1>12. DOMAIN e = Tables /\ Keyed(e) /\ e.lddirs = d.lddirs /\ e.ldlnkdirs = d.ldlnkdirs
  BY <1>2, <1>8
<1> QED BY <1>1, <1>9, <1>10, <1>11, <1>12 DEF e, pkgs, there

\* Tables in which the packages have the same rows.
SamePkgs(d, e) ==
  /\ DOMAIN e = Tables /\ e.pkgs = d.pkgs /\ e.dynlinked = d.dynlinked
  /\ e.required = d.required /\ e.rrunpath = d.rrunpath

\* The schema and the directories are not the packages'.
LEMMA PkgsAreLeft ==
  ASSUME NEW d, DOMAIN d = Tables
  PROVE  /\ SamePkgs(d, CreateSchema(d))
         /\ CreateSchema(d).lddirs = d.lddirs /\ CreateSchema(d).ldlnkdirs = d.ldlnkdirs
         /\ \A l : LET e == UpdateLdDirInfo(d, l)
                  IN SamePkgs(d, e) /\ e.lddirs = l.lddirs /\ e.ldlnkdirs = l.ldlnkdirs
<1>1. /\ SamePkgs(d, CreateSchema(d))
      /\ CreateSchema(d).lddirs = d.lddirs /\ CreateSchema(d).ldlnkdirs = d.ldlnkdirs
  BY DEF SamePkgs, CreateSchema, Tables
<1>2. ASSUME NEW l
      PROVE  LET e == UpdateLdDirInfo(d, l)
             IN SamePkgs(d, e) /\ e.lddirs = l.lddirs /\ e.ldlnkdirs = l.ldlnkdirs
  <2> DEFINE a == [d EXCEPT !.lddirs = {}, !.ldlnkdirs = {}]
             b == Insert(a, "insert_ldDir", l.lddirs)
             e == Insert(b, "insert_ldLnkDir", l.ldlnkdirs)
  <2>1. UpdateLdDirInfo(d, l) = e
    BY DEF UpdateLdDirInfo
  <2>2. /\ TableOf["insert_ldDir"] = "lddirs" /\ TableOf["insert_ldLnkDir"] = "ldlnkdirs"
        /\ {"insert_ldDir", "insert_ldLnkDir"} \subseteq DOMAIN TableOf
        /\ Tables = {"pkgs", "dynlinked", "required", "rrunpath", "lddirs", "ldlnkdirs", "version"}
    BY DEF TableOf, Tables
  <2>3. /\ DOMAIN a = Tables /\ a["lddirs"] = {} /\ a["ldlnkdirs"] = {}
        /\ \A t \in Tables \ {"lddirs", "ldlnkdirs"} : a[t] = d[t]
    BY <2>2
  <2> HIDE DEF a
  <2>4. /\ DOMAIN b = Tables /\ b["lddirs"] = l.lddirs
        /\ \A t \in Tables \ {"lddirs"} : b[t] = a[t]
    <3> DEFINE id == "insert_ldDir"
               rows == l.lddirs
    <3>0. id \in DOMAIN TableOf /\ TableOf[id] = "lddirs" /\ DOMAIN a = Tables /\ TableOf[id] \in DOMAIN a
      BY <2>2, <2>3
    <3> HIDE DEF id, rows
    <3>1. /\ DOMAIN Insert(a, id, rows) = Tables
          /\ Insert(a, id, rows)["lddirs"] = a["lddirs"] \cup rows
          /\ \A t \in Tables \ {"lddirs"} : Insert(a, id, rows)[t] = a[t]
      BY ONLY <3>0, InsertIs
    <3> USE DEF id, rows
    <3> QED BY <2>3, <3>1
  <2> HIDE DEF b
  <2>5. /\ DOMAIN e = Tables /\ e["ldlnkdirs"] = l.ldlnkdirs
        /\ \A t \in Tables \ {"ldlnkdirs"} : e[t] = b[t]
    <3>1. /\ DOMAIN e = Tables /\ e["ldlnkdirs"] = b["ldlnkdirs"] \cup l.ldlnkdirs
          /\ \A t \in Tables \ {"ldlnkdirs"} : e[t] = b[t]
      BY <2>2, <2>4, InsertIs
    <3>2. b["ldlnkdirs"] = {}
      BY <2>2, <2>3, <2>4
    <3> QED BY <3>1, <3>2
  <2> HIDE DEF e
  <2>6. SamePkgs(d, e) /\ e.lddirs = l.lddirs /\ e.ldlnkdirs = l.ldlnkdirs
    BY <2>2, <2>3, <2>4, <2>5 DEF SamePkgs
  <2> QED BY <2>1, <2>6
<1> QED BY <1>1, <1>2

\* What depends on the packages' rows alone.
LEMMA SamePkgsKeep ==
  ASSUME NEW d, NEW e, SamePkgs(d, e)
  PROVE  /\ Keyed(d) => Keyed(e)
         /\ \A p : RowsOf(e, p) = RowsOf(d, p)
         /\ IndexedAs(e) = IndexedAs(d)
<1>1. Keyed(d) => Keyed(e)
  BY DEF SamePkgs, Keyed
<1>2. \A p : RowsOf(e, p) = RowsOf(d, p)
  BY DEF SamePkgs, RowsOf
<1>3. IndexedAs(e) = IndexedAs(d)
  BY DEF SamePkgs, IndexedAs
<1> QED BY <1>1, <1>2, <1>3

\* What a package is indexed as.
LEMMA IndexedAsIs ==
  ASSUME NEW d, Keyed(d), NEW p \in Names
  PROVE  /\ \A r \in d.pkgs : r.fullname = p => IndexedAs(d)[p] = r.timestamp
         /\ (\A r \in d.pkgs : r.fullname # p) => IndexedAs(d)[p] = 0
<1>1. IndexedAs(d)[p] = IF \E r \in d.pkgs : r.fullname = p
                        THEN (CHOOSE r \in d.pkgs : r.fullname = p).timestamp ELSE 0
  BY DEF IndexedAs
<1>2. ASSUME NEW r \in d.pkgs, r.fullname = p PROVE IndexedAs(d)[p] = r.timestamp
  <2> DEFINE s == CHOOSE x \in d.pkgs : x.fullname = p
  <2>1. s \in d.pkgs /\ s.fullname = p
    BY <1>2
  <2>2. s = r
    <3> HIDE DEF s
    <3> QED BY <1>2, <2>1 DEF Keyed
  <2>3. IndexedAs(d)[p] = s.timestamp
    BY <1>1, <1>2
  <2> HIDE DEF s
  <2> QED BY <2>2, <2>3
<1> QED BY <1>1, <1>2

-----------------------------------------------------------------------------
(* Types.                                                                  *)

TypeInv ==
  /\ TypeOK /\ Keyed(db)
  /\ fs = FilesOf(installed, conf) /\ ldlines = Ldconfig(fs)

\* A set of one element has one.
LEMMA AtMostOne ==
  \A nodes, lines : Cardinality(LinkerView(nodes, lines)) <= 1
<1> SUFFICES ASSUME NEW nodes, NEW lines PROVE Cardinality(LinkerView(nodes, lines)) <= 1
  OBVIOUS
<1>1. CASE Throws(nodes)
  BY <1>1, FS_EmptySet DEF LinkerView
<1>2. CASE ~Throws(nodes)
  BY <1>2, FS_Singleton DEF LinkerView
<1> QED BY <1>1, <1>2

\* It holds at the beginning.
LEMMA TypeInit == Init => TypeInv
<1> SUFFICES ASSUME Init PROVE TypeInv
  OBVIOUS
<1>1. /\ DOMAIN NoTables = Tables /\ NoTables.pkgs = {} /\ NoTables.dynlinked = {}
      /\ NoTables.required = {} /\ NoTables.rrunpath = {}
  BY DEF NoTables, Tables
<1>2. Keyed(db)
  BY <1>1 DEF Init, Keyed
<1>3. Cardinality(ld) <= 1
  BY FS_EmptySet DEF Init
<1>4. /\ DOMAIN db = Tables /\ db.pkgs = {} /\ db.dynlinked = {}
      /\ db.required \cup db.rrunpath = {}
  BY <1>1 DEF Init
<1>5. /\ installed \in [Names -> {0} \cup Versions] /\ conf \in Confs
      /\ pc \in {"idle", "diff", "dirs", "index"} /\ todo \subseteq Names
      /\ changes \in 0..MaxChanges /\ crashes \in 0..MaxCrashes
      /\ moved \subseteq Names
  BY LibraryAssumption DEF Init
<1>6. calm \in BOOLEAN /\ quiet \in BOOLEAN
  BY Zenon DEF Init
<1>7. TypeOK
  BY <1>3, <1>4, <1>5, <1>6 DEF TypeOK
<1> QED BY <1>2, <1>7 DEF Init, TypeInv

\* A change of the system keeps it.
LEMMA TypeChanged ==
  TypeInv /\ installed' \in Insts /\ conf' \in Confs /\ Changed => TypeInv'
<1> SUFFICES ASSUME TypeInv, installed' \in Insts, conf' \in Confs, Changed PROVE TypeInv'
  OBVIOUS
<1>1. TypeOK /\ Keyed(db)
  BY DEF TypeInv
<1>2. /\ changes' \in 0..MaxChanges /\ db' = db /\ pc' = pc /\ ld' = ld /\ todo' = todo
      /\ crashes' = crashes /\ calm' = FALSE /\ quiet' = FALSE
      /\ fs' = FilesOf(installed', conf') /\ ldlines' = Ldconfig(fs')
  BY <1>1, LibraryAssumption DEF Changed, TypeOK, procVars
<1>3. moved' \subseteq Names
  BY <1>1 DEF Changed, TypeOK
<1>4. TypeOK'
  BY <1>1, <1>2, <1>3 DEF TypeOK, Insts
<1> QED BY <1>1, <1>2, <1>4 DEF TypeInv

\* A step that leaves the packages' rows keeps it.
LEMMA TypeSamePkgs ==
  /\ TypeInv /\ UNCHANGED <<worldVars, changes, moved>> /\ SamePkgs(db, db')
  /\ pc' \in {"idle", "diff", "dirs", "index"} /\ Cardinality(ld') <= 1 /\ todo' \subseteq Names
  /\ crashes' \in 0..MaxCrashes /\ calm' \in BOOLEAN /\ quiet' \in BOOLEAN
  => TypeInv'
<1> SUFFICES ASSUME TypeInv, UNCHANGED <<worldVars, changes, moved>>, SamePkgs(db, db'),
                    pc' \in {"idle", "diff", "dirs", "index"}, Cardinality(ld') <= 1,
                    todo' \subseteq Names, crashes' \in 0..MaxCrashes,
                    calm' \in BOOLEAN, quiet' \in BOOLEAN
             PROVE  TypeInv'
  OBVIOUS
<1>1. TypeOK /\ Keyed(db) /\ fs = FilesOf(installed, conf) /\ ldlines = Ldconfig(fs)
  BY DEF TypeInv
<1>2. /\ installed' = installed /\ conf' = conf /\ fs' = fs /\ ldlines' = ldlines
      /\ changes' = changes /\ moved' = moved
  BY DEF worldVars
<1>3. Keyed(db')
  BY <1>1, SamePkgsKeep
<1>4. TypeOK'
  BY <1>1, <1>2 DEF TypeOK, SamePkgs
<1> QED BY <1>1, <1>2, <1>3, <1>4 DEF TypeInv

\* Indexing keeps it.
LEMMA TypeIndex == TypeInv /\ Index => TypeInv'
<1> SUFFICES ASSUME TypeInv, Index PROVE TypeInv'
  OBVIOUS
<1>1. TypeOK /\ Keyed(db) /\ fs = FilesOf(installed, conf) /\ ldlines = Ldconfig(fs)
  BY DEF TypeInv
<1>2. /\ installed' = installed /\ conf' = conf /\ fs' = fs /\ ldlines' = ldlines
      /\ changes' = changes /\ crashes' = crashes /\ calm' = calm /\ quiet' = calm
      /\ db' = Reindexed(db, todo) /\ pc' = "idle" /\ ld' = {} /\ todo' = {}
  BY DEF Index, worldVars
<1>3. /\ DOMAIN db' = Tables /\ Keyed(db')
      /\ \A r : r \in db'.pkgs <=>
           \/ r \in db.pkgs /\ r.fullname \notin todo
           \/ \E p \in todo \cap Installed : r = PkgRow(PkgOf(fs, p, installed[p]))
  BY <1>1, <1>2, ReindexedIs DEF Reindexed, Installed, TypeOK
<1>4. \A r \in db'.pkgs : r.fullname \in Names /\ r.timestamp \in Versions
  <2> SUFFICES ASSUME NEW r \in db'.pkgs PROVE r.fullname \in Names /\ r.timestamp \in Versions
    OBVIOUS
  <2>1. CASE r \in db.pkgs
    BY <1>1, <2>1 DEF TypeOK
  <2>2. ASSUME NEW p \in todo \cap Installed, r = PkgRow(PkgOf(fs, p, installed[p]))
        PROVE  r.fullname \in Names /\ r.timestamp \in Versions
    <3>1. r.fullname = p /\ r.timestamp = installed[p]
      BY <2>2, PkgIs
    <3>2. p \in Names /\ installed[p] # 0
      BY DEF Installed
    <3>3. installed[p] \in Versions
      BY <1>1, <3>2 DEF TypeOK
    <3> QED BY <3>1, <3>2, <3>3
  <2> QED BY <1>3, <2>1, <2>2
<1>5. /\ \A r \in db'.required \cup db'.rrunpath : \E d \in db'.dynlinked : d.id = r.dynlinked_id
      /\ \A d \in db'.dynlinked : \E r \in db'.pkgs : r.fullname = d.pkg_id
  BY <1>3 DEF Keyed
<1>6. Cardinality(ld') <= 1
  BY <1>2, FS_EmptySet
<1>7. moved' \subseteq Names
  BY <1>1 DEF Index, TypeOK
<1>8. TypeOK'
  BY <1>1, <1>2, <1>3, <1>4, <1>5, <1>6, <1>7 DEF TypeOK
<1> QED BY <1>1, <1>2, <1>3, <1>8 DEF TypeInv

\* Every step keeps it.
LEMMA TypeStep == TypeInv /\ [Next]_vars => TypeInv'
<1> SUFFICES ASSUME TypeInv, [Next]_vars PROVE TypeInv'
  OBVIOUS
<1>1. TypeOK /\ DOMAIN db = Tables
  BY DEF TypeInv, TypeOK
<1>2. SamePkgs(db, db)
  BY <1>1 DEF SamePkgs
<1>3. CASE ChangePackage
  <2>1. installed' \in Insts /\ conf' \in Confs /\ Changed
    BY <1>1, <1>3 DEF ChangePackage, TypeOK, Insts
  <2> QED BY <2>1, TypeChanged
<1>4. CASE ChangeConf
  <2>1. installed' \in Insts /\ conf' \in Confs /\ Changed
    BY <1>1, <1>4 DEF ChangeConf, TypeOK, Insts
  <2> QED BY <2>1, TypeChanged
<1>5. CASE Open
  <2>1. SamePkgs(db, db')
    BY <1>1, <1>2, <1>5, PkgsAreLeft DEF Open
  <2> QED BY <1>1, <1>5, <2>1, TypeSamePkgs DEF Open, TypeOK
<1>6. CASE GetLDDirs
  <2>1. SamePkgs(db, db') /\ ld' = LinkerView(fs, ldlines)
    BY <1>2, <1>6 DEF GetLDDirs
  <2>2. Cardinality(ld') <= 1
    BY <2>1, AtMostOne
  <2> QED BY <1>1, <1>6, <2>1, <2>2, TypeSamePkgs DEF GetLDDirs, TypeOK, histVars
<1>7. CASE Compare
  <2>1. SamePkgs(db, db')
    BY <1>2, <1>7 DEF Compare
  <2> QED BY <1>1, <1>7, <2>1, TypeSamePkgs DEF Compare, TypeOK, histVars
<1>8. CASE UpdateDirs
  <2>1. SamePkgs(db, db')
    BY <1>1, <1>8, PkgsAreLeft DEF UpdateDirs
  <2> QED BY <1>1, <1>8, <2>1, TypeSamePkgs DEF UpdateDirs, TypeOK, histVars
<1>9. CASE Index
  BY <1>9, TypeIndex
<1>10. CASE Crash
  <2>1. SamePkgs(db, db')
    BY <1>2, <1>10 DEF Crash
  <2>2. crashes' \in 0..MaxCrashes
    BY <1>1, <1>10, LibraryAssumption DEF Crash, TypeOK
  <2>3. Cardinality(ld') <= 1
    BY <1>10, FS_EmptySet DEF Crash
  <2> QED BY <1>1, <1>10, <2>1, <2>2, <2>3, TypeSamePkgs DEF Crash, TypeOK
<1>11. CASE UNCHANGED vars
  BY <1>11 DEF vars, worldVars, procVars, histVars, TypeInv, TypeOK
<1> QED BY <1>3, <1>4, <1>5, <1>6, <1>7, <1>8, <1>9, <1>10, <1>11 DEF Next

\* The tables have the rows of packages that are there, and no row below another is
\* left behind, whatever is interrupted.
THEOREM LibraryTypes == Spec => []TypeOK
<1>1. TypeInv => TypeOK
  BY DEF TypeInv
<1> QED BY <1>1, TypeInit, TypeStep, PTL DEF Spec

-----------------------------------------------------------------------------
(* What a sync has found and done, as long as nothing changes.             *)

\* The directories in the database are those Ldconf finds.
DirsRight(d, nodes, lines) ==
  \E v \in LinkerView(nodes, lines) : d.lddirs = v.lddirs /\ d.ldlnkdirs = v.ldlnkdirs

SyncInv ==
  /\ pc = "idle" => ld = {}
  /\ calm => ld \subseteq LinkerView(fs, ldlines)
  /\ calm /\ pc = "index" => DirsRight(db, fs, ldlines)
  /\ calm /\ pc \in {"dirs", "index"} => todo = {p \in Names : IndexedAs(db)[p] # installed[p]}
  /\ quiet => /\ DirsRight(db, fs, ldlines)
              /\ \A p \in Names : IndexedAs(db)[p] = installed[p]
              /\ pc # "idle" => calm

\* Indexing brings the packages up to date.
LEMMA SyncIndex == TypeInv /\ SyncInv /\ Index => SyncInv'
<1> SUFFICES ASSUME TypeInv, SyncInv, Index PROVE SyncInv'
  OBVIOUS
<1>1. DOMAIN db = Tables /\ Keyed(db)
  BY DEF TypeInv, TypeOK
<1>2. /\ installed' = installed /\ fs' = fs /\ ldlines' = ldlines /\ pc = "index"
      /\ calm' = calm /\ quiet' = calm
      /\ db' = Reindexed(db, todo) /\ pc' = "idle" /\ ld' = {}
  BY DEF Index, worldVars
<1>3. /\ Keyed(db') /\ db'.lddirs = db.lddirs /\ db'.ldlnkdirs = db.ldlnkdirs
      /\ \A r : r \in db'.pkgs <=>
           \/ r \in db.pkgs /\ r.fullname \notin todo
           \/ \E p \in todo \cap Installed : r = PkgRow(PkgOf(fs, p, installed[p]))
  BY <1>1, <1>2, ReindexedIs DEF Reindexed, Installed
<1>4. ASSUME calm PROVE DirsRight(db', fs, ldlines)
  BY <1>2, <1>3, <1>4 DEF SyncInv, DirsRight
<1>5. ASSUME calm, NEW p \in Names PROVE IndexedAs(db')[p] = installed[p]
  <2>1. todo = {q \in Names : IndexedAs(db)[q] # installed[q]}
    BY <1>2, <1>5 DEF SyncInv
  <2>2. CASE p \in todo /\ installed[p] # 0
    <3> DEFINE r == PkgRow(PkgOf(fs, p, installed[p]))
    <3>1. r \in db'.pkgs
      BY <1>3, <2>2 DEF Installed
    <3>2. r.fullname = p /\ r.timestamp = installed[p]
      BY PkgIs
    <3> HIDE DEF r
    <3> QED BY <1>3, <3>1, <3>2, IndexedAsIs
  <2>3. CASE p \in todo /\ installed[p] = 0
    <3>1. \A r \in db'.pkgs : r.fullname # p
      <4> SUFFICES ASSUME NEW r \in db'.pkgs, r.fullname = p PROVE FALSE
        OBVIOUS
      <4>1. PICK q \in todo \cap Installed : r = PkgRow(PkgOf(fs, q, installed[q]))
        BY <1>3, <2>3
      <4>2. q = p
        BY <4>1, PkgIs
      <4> QED BY <2>3, <4>2 DEF Installed
    <3> QED BY <1>3, <2>3, <3>1, IndexedAsIs
  <2>4. CASE p \notin todo
    <3>1. IndexedAs(db)[p] = installed[p]
      BY <2>1, <2>4
    <3>2. CASE \E r \in db.pkgs : r.fullname = p
      <4>1. PICK r \in db.pkgs : r.fullname = p
        BY <3>2
      <4>2. r \in db'.pkgs
        BY <1>3, <2>4, <4>1
      <4> QED BY <1>1, <1>3, <3>1, <4>1, <4>2, IndexedAsIs
    <3>3. CASE \A r \in db.pkgs : r.fullname # p
      <4>1. \A r \in db'.pkgs : r.fullname # p
        <5> SUFFICES ASSUME NEW r \in db'.pkgs, r.fullname = p PROVE FALSE
          OBVIOUS
        <5>1. PICK q \in todo \cap Installed : r = PkgRow(PkgOf(fs, q, installed[q]))
          BY <1>3, <3>3
        <5>2. q = p
          BY <5>1, PkgIs
        <5> QED BY <2>4, <5>2
      <4> QED BY <1>1, <1>3, <3>1, <3>3, <4>1, IndexedAsIs
    <3> QED BY <3>2, <3>3
  <2> QED BY <2>2, <2>3, <2>4
<1>6. calm => /\ DirsRight(db', fs, ldlines)
              /\ \A p \in Names : IndexedAs(db')[p] = installed[p]
  BY <1>4, <1>5
<1> QED BY <1>2, <1>6 DEF SyncInv

\* Every other step keeps it.
LEMMA SyncStep == TypeInv /\ SyncInv /\ [Next]_vars => SyncInv'
<1> SUFFICES ASSUME TypeInv, SyncInv, [Next]_vars PROVE SyncInv'
  OBVIOUS
<1>1. DOMAIN db = Tables
  BY DEF TypeInv, TypeOK
<1>2. CASE ChangePackage \/ ChangeConf
  <2>1. Changed
    BY <1>2 DEF ChangePackage, ChangeConf
  <2>2. pc' = pc /\ ld' = ld /\ ~calm' /\ ~quiet'
    BY <2>1 DEF Changed, procVars
  <2> QED BY <2>2 DEF SyncInv
<1>3. CASE Open
  <2>1. /\ pc = "idle" /\ pc' = "diff" /\ ld' = ld /\ calm' /\ quiet' = quiet
        /\ installed' = installed /\ fs' = fs /\ ldlines' = ldlines
    BY <1>3, Zenon DEF Open, worldVars
  <2>2. IndexedAs(db') = IndexedAs(db) /\ db'.lddirs = db.lddirs /\ db'.ldlnkdirs = db.ldlnkdirs
    BY <1>1, <1>3, PkgsAreLeft, SamePkgsKeep DEF Open
  <2>3. DirsRight(db, fs, ldlines) => DirsRight(db', fs, ldlines)
    BY <2>2 DEF DirsRight
  <2>4. ld' = {}
    BY <2>1 DEF SyncInv
  <2> QED BY <2>1, <2>2, <2>3, <2>4 DEF SyncInv
<1>4. CASE GetLDDirs
  <2>1. /\ ld' = LinkerView(fs, ldlines) /\ pc \in {"diff", "dirs"}
        /\ ld' = {} => pc' = "idle"
        /\ ld' # {} => pc' = pc /\ todo' = todo
        /\ db' = db /\ calm' = calm /\ quiet' = quiet
        /\ installed' = installed /\ fs' = fs /\ ldlines' = ldlines
    BY <1>4 DEF GetLDDirs, worldVars, histVars
  <2> QED BY <2>1 DEF SyncInv
<1>5. CASE Compare
  <2>1. /\ pc = "diff" /\ pc' = "dirs" /\ ld' = ld /\ db' = db /\ calm' = calm /\ quiet' = quiet
        /\ todo' = {p \in Names : IndexedAs(db)[p] # installed[p]}
        /\ installed' = installed /\ fs' = fs /\ ldlines' = ldlines
    BY <1>5 DEF Compare, worldVars, histVars
  <2> QED BY <2>1 DEF SyncInv
<1>6. CASE UpdateDirs
  <2>1. /\ pc = "dirs" /\ pc' = "index" /\ ld' = ld /\ todo' = todo
        /\ calm' = calm /\ quiet' = quiet
        /\ installed' = installed /\ fs' = fs /\ ldlines' = ldlines
    BY <1>6 DEF UpdateDirs, worldVars, histVars
  <2>2. PICK l \in ld : db' = UpdateLdDirInfo(db, l)
    BY <1>6 DEF UpdateDirs
  <2>3. IndexedAs(db') = IndexedAs(db) /\ db'.lddirs = l.lddirs /\ db'.ldlnkdirs = l.ldlnkdirs
    BY <1>1, <2>2, PkgsAreLeft, SamePkgsKeep
  <2>4. calm => DirsRight(db', fs, ldlines)
    BY <2>2, <2>3 DEF SyncInv, DirsRight
  <2> QED BY <2>1, <2>3, <2>4 DEF SyncInv
<1>7. CASE Index
  BY <1>7, SyncIndex
<1>8. CASE Crash
  <2>1. /\ pc' = "idle" /\ ld' = {} /\ db' = db /\ calm' = calm /\ quiet' = quiet
        /\ installed' = installed /\ fs' = fs /\ ldlines' = ldlines
    BY <1>8 DEF Crash, worldVars
  <2> QED BY <2>1 DEF SyncInv
<1>9. CASE UNCHANGED vars
  BY <1>9 DEF vars, worldVars, procVars, histVars, SyncInv
<1> QED BY <1>2, <1>3, <1>4, <1>5, <1>6, <1>7, <1>8, <1>9 DEF Next

-----------------------------------------------------------------------------
(* The rows of what has not moved.                                         *)

\* The rows of a package were made of its version in a system with the same directories
\* and links.
MadeAt(d, p, nodes, lines) ==
  \E inst \in Insts, text \in Confs :
    LET then == FilesOf(inst, text)
    IN /\ inst[p] # 0
       /\ \E r \in d.pkgs : r.fullname = p /\ r.timestamp = inst[p]
       /\ Places(then, Ldconfig(then)) = Places(nodes, lines)
       /\ \E v \in LinkerView(then, Ldconfig(then)) :
            RowsOf(d, p) = MadeRows(v.lddirs \cup v.ldlnkdirs, then, PkgOf(then, p, inst[p]))

RowsInv ==
  \A r \in db.pkgs : r.fullname \notin moved => MadeAt(db, r.fullname, fs, ldlines)

\* What it depends on.
LEMMA MadeStays ==
  ASSUME NEW d, NEW e, NEW p, NEW f, NEW l, NEW g, NEW m,
         \A r \in d.pkgs : r.fullname = p => r \in e.pkgs,
         RowsOf(e, p) = RowsOf(d, p), Places(f, l) = Places(g, m), MadeAt(d, p, f, l)
  PROVE  MadeAt(e, p, g, m)
<1>1. PICK inst \in Insts, text \in Confs :
        LET then == FilesOf(inst, text)
        IN /\ inst[p] # 0
           /\ \E r \in d.pkgs : r.fullname = p /\ r.timestamp = inst[p]
           /\ Places(then, Ldconfig(then)) = Places(f, l)
           /\ \E v \in LinkerView(then, Ldconfig(then)) :
                RowsOf(d, p) = MadeRows(v.lddirs \cup v.ldlnkdirs, then, PkgOf(then, p, inst[p]))
  BY DEF MadeAt
<1> DEFINE then == FilesOf(inst, text)
<1>2. \E r \in e.pkgs : r.fullname = p /\ r.timestamp = inst[p]
  BY <1>1
<1>3. inst[p] # 0 /\ Places(then, Ldconfig(then)) = Places(g, m)
  BY <1>1
<1>4. \E v \in LinkerView(then, Ldconfig(then)) :
         RowsOf(e, p) = MadeRows(v.lddirs \cup v.ldlnkdirs, then, PkgOf(then, p, inst[p]))
  BY <1>1
<1> HIDE DEF then
<1> QED BY <1>2, <1>3, <1>4 DEF MadeAt, then

\* Indexing keeps it.
LEMMA RowsIndex == TypeInv /\ SyncInv /\ RowsInv /\ Index => RowsInv'
<1> SUFFICES ASSUME TypeInv, SyncInv, RowsInv, Index,
                    NEW r \in db'.pkgs, r.fullname \notin moved'
             PROVE  MadeAt(db', r.fullname, fs', ldlines')
  BY DEF RowsInv
<1> DEFINE p == r.fullname
<1>1. /\ DOMAIN db = Tables /\ Keyed(db) /\ installed \in Insts /\ conf \in Confs
      /\ fs = FilesOf(installed, conf) /\ ldlines = Ldconfig(fs)
  BY DEF TypeInv, TypeOK, Insts
<1>2. /\ fs' = fs /\ ldlines' = ldlines /\ pc = "index" /\ db' = Reindexed(db, todo)
      /\ moved' = IF calm THEN moved \ todo ELSE moved \cup todo
  BY DEF Index, worldVars
<1>3. /\ \A x : x \in db'.pkgs <=>
           \/ x \in db.pkgs /\ x.fullname \notin todo
           \/ \E q \in todo \cap Installed : x = PkgRow(PkgOf(fs, q, installed[q]))
      /\ \A q \in todo \cap Installed :
           RowsOf(db', q) = MadeRows(LinkerDirsIn(db), fs, PkgOf(fs, q, installed[q]))
      /\ \A q : q \notin todo => RowsOf(db', q) = RowsOf(db, q)
  BY <1>1, <1>2, ReindexedIs DEF Reindexed, Installed
<1>4. CASE p \in todo
  <2>1. calm
    BY <1>2, <1>4
  <2>2. PICK q \in todo \cap Installed : r = PkgRow(PkgOf(fs, q, installed[q]))
    BY <1>3, <1>4
  <2>3. q = p /\ r.timestamp = installed[p] /\ installed[p] # 0
    BY <2>2, PkgIs DEF Installed
  <2>4. PICK v \in LinkerView(fs, ldlines) : db.lddirs = v.lddirs /\ db.ldlnkdirs = v.ldlnkdirs
    BY <1>2, <2>1 DEF SyncInv, DirsRight
  <2>5. LinkerDirsIn(db) = v.lddirs \cup v.ldlnkdirs
    BY <2>4 DEF LinkerDirsIn
  <2>6. RowsOf(db', p) = MadeRows(v.lddirs \cup v.ldlnkdirs, fs, PkgOf(fs, p, installed[p]))
    BY <1>3, <2>2, <2>3, <2>5
  <2> HIDE DEF p
  <2>7. \E x \in db'.pkgs : x.fullname = p /\ x.timestamp = installed[p]
    BY <2>3 DEF p
  <2>8. MadeAt(db', p, fs, ldlines)
    BY <1>1, <2>3, <2>4, <2>6, <2>7 DEF MadeAt
  <2> QED BY <1>2, <2>8 DEF p
<1>5. CASE p \notin todo
  <2>1. p \notin moved
    BY <1>2, <1>5
  <2>2. r \in db.pkgs
    <3> SUFFICES ASSUME NEW q \in todo \cap Installed, r = PkgRow(PkgOf(fs, q, installed[q])) PROVE FALSE
      BY <1>3
    <3>1. q = p
      BY PkgIs
    <3> QED BY <1>5, <3>1
  <2>3. MadeAt(db, p, fs, ldlines)
    BY <2>1, <2>2 DEF RowsInv
  <2>4. \A x \in db.pkgs : x.fullname = p => x \in db'.pkgs
    BY <1>3, <1>5
  <2> HIDE DEF p
  <2>5. RowsOf(db', p) = RowsOf(db, p)
    BY <1>3, <1>5
  <2>6. MadeAt(db', p, fs, ldlines)
    BY <2>3, <2>4, <2>5, MadeStays
  <2> QED BY <1>2, <2>6 DEF p
<1> QED BY <1>4, <1>5

\* Every step keeps it.
LEMMA RowsStep == TypeInv /\ SyncInv /\ RowsInv /\ [Next]_vars => RowsInv'
<1> SUFFICES ASSUME TypeInv, SyncInv, RowsInv, [Next]_vars PROVE RowsInv'
  OBVIOUS
<1>1. DOMAIN db = Tables /\ SamePkgs(db, db)
  BY DEF TypeInv, TypeOK, SamePkgs
<1>2. ASSUME SamePkgs(db, db'), fs' = fs, ldlines' = ldlines, moved' = moved PROVE RowsInv'
  <2> SUFFICES ASSUME NEW r \in db'.pkgs, r.fullname \notin moved
               PROVE  MadeAt(db', r.fullname, fs, ldlines)
    BY <1>2 DEF RowsInv
  <2>1. db'.pkgs = db.pkgs /\ \A p : RowsOf(db', p) = RowsOf(db, p)
    BY <1>2, SamePkgsKeep DEF SamePkgs
  <2>2. MadeAt(db, r.fullname, fs, ldlines)
    BY <2>1 DEF RowsInv
  <2> QED BY <2>1, <2>2, MadeStays
<1>3. CASE ChangePackage \/ ChangeConf
  <2>1. Changed
    BY <1>3 DEF ChangePackage, ChangeConf
  <2>2. db' = db
    BY <2>1 DEF Changed
  <2>3. CASE Places(fs', ldlines') = Places(fs, ldlines)
    <3>1. moved' = moved
      BY <2>1, <2>3 DEF Changed
    <3> SUFFICES ASSUME NEW r \in db.pkgs, r.fullname \notin moved
                 PROVE  MadeAt(db, r.fullname, fs', ldlines')
      BY <2>2, <3>1 DEF RowsInv
    <3>2. MadeAt(db, r.fullname, fs, ldlines)
      BY DEF RowsInv
    <3> QED BY <2>3, <3>2, MadeStays
  <2>4. CASE Places(fs', ldlines') # Places(fs, ldlines)
    <3>1. moved' = moved \cup {r.fullname : r \in db.pkgs}
      BY <2>1, <2>4 DEF Changed
    <3> QED BY <2>2, <3>1 DEF RowsInv
  <2> QED BY <2>3, <2>4
<1>4. CASE Open
  <2>1. SamePkgs(db, db')
    BY <1>1, <1>4, PkgsAreLeft DEF Open
  <2> QED BY <1>2, <1>4, <2>1 DEF Open, worldVars
<1>5. CASE GetLDDirs
  BY <1>1, <1>2, <1>5 DEF GetLDDirs, worldVars, histVars
<1>6. CASE Compare
  BY <1>1, <1>2, <1>6 DEF Compare, worldVars, histVars
<1>7. CASE UpdateDirs
  <2>1. SamePkgs(db, db')
    BY <1>1, <1>7, PkgsAreLeft DEF UpdateDirs
  <2> QED BY <1>2, <1>7, <2>1 DEF UpdateDirs, worldVars, histVars
<1>8. CASE Index
  BY <1>8, RowsIndex
<1>9. CASE Crash
  BY <1>1, <1>2, <1>9 DEF Crash, worldVars
<1>10. CASE UNCHANGED vars
  BY <1>1, <1>2, <1>10 DEF vars, worldVars, histVars
<1> QED BY <1>3, <1>4, <1>5, <1>6, <1>7, <1>8, <1>9, <1>10 DEF Next

LibraryInv == TypeInv /\ SyncInv /\ RowsInv

\* The invariant holds.
LEMMA LibraryInvIs == Spec => []LibraryInv
<1>1. Init => LibraryInv
  <2> SUFFICES ASSUME Init PROVE LibraryInv
    OBVIOUS
  <2>1. db.pkgs = {}
    BY DEF Init, NoTables, Tables
  <2>2. RowsInv
    BY <2>1 DEF RowsInv
  <2>3. ld = {} /\ pc = "idle" /\ ~calm /\ ~quiet
    BY Zenon DEF Init
  <2> QED BY <2>2, <2>3, TypeInit DEF LibraryInv, SyncInv
<1>2. LibraryInv /\ [Next]_vars => LibraryInv'
  BY TypeStep, SyncStep, RowsStep DEF LibraryInv
<1> QED BY <1>1, <1>2, PTL DEF Spec

\* What is the same when places are.
LEMMA PlacesSame ==
  ASSUME NEW f, NEW l, NEW g, NEW m, Places(f, l) = Places(g, m)
  PROVE  LinkerView(f, l) = LinkerView(g, m) /\ SamePlaces(f, g)
<1> DEFINE At(w) == [p \in {q \in DOMAIN w : w[q].type \in {"ISDIR", "ISLNK"}} |-> w[p]]
<1>1. Places(f, l).ld = LinkerView(f, l) /\ Places(g, m).ld = LinkerView(g, m)
  BY DEF Places
<1>2. Places(f, l).at = At(f) /\ Places(g, m).at = At(g)
  BY DEF Places
<1>3. At(f) = At(g)
  BY <1>2
<1>4. \A w, p : /\ IsPlace(w, p) <=> p \in DOMAIN At(w)
                /\ IsPlace(w, p) => At(w)[p] = w[p]
  BY DEF IsPlace
<1> HIDE DEF At
<1> QED BY <1>1, <1>3, <1>4 DEF SamePlaces

\* After a complete sync: what has not moved has the rows that are made of it now.
LEMMA RowsAreMade ==
  LibraryInv /\ quiet =>
    \A p \in Installed \ moved :
      RowsOf(db, p) = MadeRows(LinkerDirsIn(db), fs, PkgOf(fs, p, installed[p]))
<1> SUFFICES ASSUME LibraryInv, quiet, NEW p \in Installed \ moved
             PROVE  RowsOf(db, p) = MadeRows(LinkerDirsIn(db), fs, PkgOf(fs, p, installed[p]))
  OBVIOUS
<1>1. /\ Keyed(db) /\ installed \in Insts /\ conf \in Confs
      /\ fs = FilesOf(installed, conf) /\ ldlines = Ldconfig(fs)
  BY DEF LibraryInv, TypeInv, TypeOK, Insts
<1>2. p \in Names /\ installed[p] # 0 /\ IndexedAs(db)[p] = installed[p]
  BY DEF Installed, LibraryInv, SyncInv
<1>3. PICK r \in db.pkgs : r.fullname = p
  BY <1>1, <1>2, IndexedAsIs
<1>4. r.timestamp = installed[p]
  BY <1>1, <1>2, <1>3, IndexedAsIs
<1>5. MadeAt(db, p, fs, ldlines)
  BY <1>3 DEF LibraryInv, RowsInv
<1>6. PICK inst \in Insts, text \in Confs :
        LET then == FilesOf(inst, text)
        IN /\ inst[p] # 0
           /\ \E x \in db.pkgs : x.fullname = p /\ x.timestamp = inst[p]
           /\ Places(then, Ldconfig(then)) = Places(fs, ldlines)
           /\ \E v \in LinkerView(then, Ldconfig(then)) :
                RowsOf(db, p) = MadeRows(v.lddirs \cup v.ldlnkdirs, then, PkgOf(then, p, inst[p]))
  BY <1>5 DEF MadeAt
<1> DEFINE then == FilesOf(inst, text)
<1>7. inst[p] = installed[p]
  BY <1>1, <1>3, <1>4, <1>6 DEF Keyed
<1>8. LinkerView(then, Ldconfig(then)) = LinkerView(fs, ldlines) /\ SamePlaces(then, fs)
  BY <1>6, PlacesSame
<1>9. PICK v \in LinkerView(then, Ldconfig(then)) :
        RowsOf(db, p) = MadeRows(v.lddirs \cup v.ldlnkdirs, then, PkgOf(then, p, inst[p]))
  BY <1>6
<1>10. LinkerDirsIn(db) = v.lddirs \cup v.ldlnkdirs
  <2>1. PICK u \in LinkerView(fs, ldlines) : db.lddirs = u.lddirs /\ db.ldlnkdirs = u.ldlnkdirs
    BY DEF LibraryInv, SyncInv, DirsRight
  <2>2. v \in LinkerView(fs, ldlines)
    BY <1>8
  <2>3. u = v
    BY <2>1, <2>2 DEF LinkerView
  <2> QED BY <2>1, <2>3 DEF LinkerDirsIn
<1> DEFINE n == installed[p]
           ldirs == LinkerDirsIn(db)
<1>11. n = inst[p] /\ n = installed[p] /\ n # 0 /\ p \in Names
  BY <1>2, <1>7
<1>12. RowsOf(db, p) = MadeRows(ldirs, then, PkgOf(then, p, n))
  BY <1>9, <1>10, <1>11
<1>13. then = FilesOf(inst, text)
  OBVIOUS
<1> HIDE DEF n, then, ldirs
<1>14. MadeRows(ldirs, then, PkgOf(then, p, n)) = MadeRows(ldirs, fs, PkgOf(fs, p, n))
  <2>1. InstalledIn(then, p, n) /\ InstalledIn(fs, p, n)
    BY <1>1, <1>6, <1>11, <1>13 DEF InstalledIn
  <2> QED BY <1>8, <1>11, <2>1, SameRows
<1> QED BY <1>12, <1>14 DEF n, ldirs

\* After a complete sync the directories are the linker's, and the rows of a package
\* that has not moved are those a new database would have, whatever changed, was
\* interrupted or came in between.
THEOREM StaleOnlyIfMoved == Spec => []RowsStaleOnlyIfMoved
<1>1. LibraryInv => RowsStaleOnlyIfMoved
  <2> SUFFICES ASSUME LibraryInv, quiet
               PROVE  /\ db.lddirs = Fresh.lddirs /\ db.ldlnkdirs = Fresh.ldlnkdirs
                      /\ \A p \in Installed \ moved : RowsOf(db, p) = RowsOf(Fresh, p)
    BY DEF RowsStaleOnlyIfMoved
  <2> DEFINE v == Ldconf(fs, ldlines)
             c == CreateSchema(NoTables)
             d == UpdateLdDirInfo(c, v)
             pkgs == {PkgOf(fs, p, installed[p]) : p \in Installed}
  <2>1. Fresh = IndexPkg(d, fs, pkgs)
    BY DEF Fresh
  <2>2. db.lddirs = v.lddirs /\ db.ldlnkdirs = v.ldlnkdirs
    BY DEF LibraryInv, SyncInv, DirsRight, LinkerView
  <2> HIDE DEF v
  <2>3. /\ DOMAIN NoTables = Tables /\ NoTables.pkgs = {} /\ NoTables.dynlinked = {}
        /\ NoTables.required = {} /\ NoTables.rrunpath = {}
    BY DEF NoTables, Tables
  <2>4. SamePkgs(NoTables, c)
    BY <2>3, PkgsAreLeft
  <2>5. SamePkgs(c, d) /\ d.lddirs = v.lddirs /\ d.ldlnkdirs = v.ldlnkdirs
    <3>1. DOMAIN c = Tables
      BY <2>4 DEF SamePkgs
    <3> HIDE DEF c
    <3> QED BY <3>1, PkgsAreLeft
  <2> HIDE DEF c, d
  <2>6. /\ DOMAIN d = Tables /\ d.pkgs = {} /\ d.dynlinked = {}
        /\ d.required = {} /\ d.rrunpath = {}
    BY <2>3, <2>4, <2>5 DEF SamePkgs
  <2>7. Keyed(d) /\ \A p : RowsOf(d, p) = [dynlinked |-> {}, required |-> {}, rrunpath |-> {}]
    BY <2>6 DEF Keyed, RowsOf
  <2>8. \A q \in pkgs : \A o \in pkgs : o.fullname = q.fullname => o = q
    BY PkgIs
  <2>9. \A p \in Installed : PkgOf(fs, p, installed[p]) \in pkgs /\ PkgOf(fs, p, installed[p]).fullname = p
    BY PkgIs
  <2> HIDE DEF pkgs
  <2>10. /\ Fresh.lddirs = d.lddirs /\ Fresh.ldlnkdirs = d.ldlnkdirs
         /\ \A q \in pkgs : RowsOf(Fresh, q.fullname) = MadeRows(LinkerDirsIn(d), fs, q)
    <3>1. \A q \in pkgs : /\ \A r \in d.pkgs : r.fullname # q.fullname
                         /\ RowsOf(d, q.fullname) = [dynlinked |-> {}, required |-> {}, rrunpath |-> {}]
                         /\ \A o \in pkgs : o.fullname = q.fullname => o = q
      BY <2>6, <2>7, <2>8
    <3>2. /\ IndexPkg(d, fs, pkgs).lddirs = d.lddirs /\ IndexPkg(d, fs, pkgs).ldlnkdirs = d.ldlnkdirs
          /\ \A q \in pkgs : RowsOf(IndexPkg(d, fs, pkgs), q.fullname) = MadeRows(LinkerDirsIn(d), fs, q)
      BY <2>6, <2>7, <3>1, IndexGives
    <3> QED BY <2>1, <3>2
  <2>11. LinkerDirsIn(d) = LinkerDirsIn(db)
    BY <2>2, <2>5 DEF LinkerDirsIn
  <2>12. \A p \in Installed \ moved : RowsOf(db, p) = RowsOf(Fresh, p)
    BY <2>9, <2>10, <2>11, RowsAreMade
  <2> QED BY <2>2, <2>5, <2>10, <2>12
<1> QED BY <1>1, LibraryInvIs, PTL

-----------------------------------------------------------------------------
(* The two queries agree.                                                  *)

\* An ELF file whose rows are in the tables, and that is found to require a file, is found
\* to need it, whether it is asked for the file or for its package.
LEMMA RequiredNeeds ==
  ASSUME NEW d, NEW nodes, NEW e, NEW x \in d.dynlinked,
         x.filename = e.name, x.arch = e.arch,
         \A so \in Range(e.needed) : [dynlinked_id |-> x.id, needed |-> so] \in d.required,
         \A path \in Range(e.rrunpaths) :
           \E row \in d.rrunpath : /\ row.dynlinked_id = x.id
                                   /\ row.lddir = RRunPathDir(nodes, path, Dirname(e.name)),
         NEW r \in ElfDeps(d, nodes, e)
  PROVE  /\ \E w \in WhoNeedsFile(d, r.file) : w.pkg = x.pkg_id /\ w.file = r.requiredby
         /\ \E w \in WhoNeedsPkg(d, r.pkg) : w.pkg = x.pkg_id /\ w.fromfile = r.file
<1>1. PICK lib \in d.dynlinked :
        /\ lib.arch = e.arch /\ lib.dirname \in SearchDirs(d, nodes, e)
        /\ \E so \in Range(e.needed) \cap lib.soname :
             r = [pkg |-> lib.pkg_id, file |-> lib.filename, so |-> so, requiredby |-> e.name]
  BY DEF ElfDeps, DepRows
<1>2. PICK so \in Range(e.needed) \cap lib.soname :
        r = [pkg |-> lib.pkg_id, file |-> lib.filename, so |-> so, requiredby |-> e.name]
  BY <1>1
<1>3. r.pkg = lib.pkg_id /\ r.file = lib.filename /\ r.requiredby = e.name
  BY <1>2
<1>4. \E lddir \in RunPathsOf(d, x.id) : NeedsFrom(d, lddir, lib)
  <2> DEFINE rows == {row \in d.rrunpath : row.dynlinked_id = x.id}
  <2>1. /\ rows = {} => {} \in RunPathsOf(d, x.id)
        /\ \A row \in rows : row.lddir \in RunPathsOf(d, x.id)
    BY DEF RunPathsOf
  <2>2. CASE lib.dirname \in LinkerDirsIn(d)
    <3>1. \E lddir : lddir \in RunPathsOf(d, x.id)
      BY <2>1
    <3> QED BY <2>2, <3>1 DEF NeedsFrom
  <2>3. CASE lib.dirname \notin LinkerDirsIn(d)
    <3>1. lib.dirname \in QueryDirs(nodes, e)
      BY <1>1, <2>3 DEF SearchDirs
    <3>2. PICK path \in Range(e.rrunpaths) :
            lib.dirname = MakeRealPath(nodes, PathOf(nodes, ReplaceORIGIN(path, Dirname(e.name)))).url
      BY <3>1 DEF QueryDirs
    <3>3. PICK row \in d.rrunpath :
            row.dynlinked_id = x.id /\ row.lddir = RRunPathDir(nodes, path, Dirname(e.name))
      OBVIOUS
    <3>4. row.lddir \in {{}, {lib.dirname}}
      BY <3>2, <3>3 DEF RRunPathDir
    <3>5. row.lddir \in RunPathsOf(d, x.id)
      BY <2>1, <3>3
    <3>6. NeedsFrom(d, row.lddir, lib)
      BY <2>3, <3>4 DEF NeedsFrom
    <3> QED BY <3>5, <3>6
  <2> QED BY <2>2, <2>3
<1>5. so \in NeededOf(d, x, lib)
  BY <1>1, <1>2, <1>4 DEF NeededOf
<1> DEFINE w == [pkg |-> x.pkg_id, file |-> x.filename, so |-> so, fromfile |-> lib.filename]
<1>6. ASSUME NEW libs, lib \in libs PROVE w \in WhoNeeds(d, libs)
  <2> DEFINE Of(y, l) == {[pkg |-> y.pkg_id, file |-> y.filename, so |-> s, fromfile |-> l.filename] :
                            s \in NeededOf(d, y, l)}
  <2>1. w \in Of(x, lib)
    BY <1>5
  <2>2. WhoNeeds(d, libs) = UNION {Of(y, l) : y \in d.dynlinked, l \in libs}
    BY DEF WhoNeeds
  <2> HIDE DEF Of, w
  <2> QED BY <1>6, <2>1, <2>2
<1>7. w.pkg = x.pkg_id /\ w.file = e.name /\ w.fromfile = lib.filename
  OBVIOUS
<1> HIDE DEF w
<1>8. w \in WhoNeedsFile(d, r.file) /\ w \in WhoNeedsPkg(d, r.pkg)
  BY <1>3, <1>6 DEF WhoNeedsFile, WhoNeedsPkg
<1> QED BY <1>3, <1>7, <1>8

\* The answers of whoneeds include those of require: elfdeps() goes by the directories a
\* file's own run paths lead to now, whoneeds by the rows that were made of them when the
\* package was indexed, and for what has not moved they come to the same.
THEOREM NeededIfRequired == Spec => []RequiredIsNeeded
<1>1. LibraryInv => RequiredIsNeeded
  <2> SUFFICES ASSUME LibraryInv, quiet, NEW p \in Installed \ moved, NEW r \in Answer(db, p).rows
               PROVE  /\ \E w \in WhoNeedsFile(db, r.file) : w.pkg = p /\ w.file = r.requiredby
                      /\ \E w \in WhoNeedsPkg(db, r.pkg) : w.pkg = p /\ w.fromfile = r.file
    BY DEF RequiredIsNeeded
  <2> DEFINE pkg == PkgOf(fs, p, installed[p])
             ldirs == LinkerDirsIn(db)
  <2>1. RowsOf(db, p) = MadeRows(ldirs, fs, pkg)
    BY RowsAreMade
  <2>2. pkg.fullname = p
    BY PkgIs
  <2>3. PICK e \in Range(pkg.elfFiles) : r \in ElfDeps(db, fs, e)
    BY DEF Answer, RequiredInfos
  <2> HIDE DEF pkg, ldirs
  <2>4. /\ {DynLinkedRow(ldirs, fs, p, f) : f \in Range(pkg.elfFiles)} \subseteq db.dynlinked
        /\ UNION {RequiredRows(p, f) : f \in Range(pkg.elfFiles)} \subseteq db.required
        /\ UNION {RRunPathRows(fs, p, f) : f \in Range(pkg.elfFiles)} \subseteq db.rrunpath
    BY <2>1, <2>2 DEF RowsOf, MadeRows
  <2> DEFINE x == DynLinkedRow(ldirs, fs, p, e)
  <2>5. /\ x \in db.dynlinked
        /\ RequiredRows(p, e) \subseteq db.required
        /\ RRunPathRows(fs, p, e) \subseteq db.rrunpath
    BY <2>4
  <2>6. x.id = IdOf(p, e) /\ x.pkg_id = p /\ x.filename = e.name /\ x.arch = e.arch
    BY DynLinkedRowIs
  <2> HIDE DEF x
  <2>7. \A so \in Range(e.needed) : [dynlinked_id |-> x.id, needed |-> so] \in db.required
    BY <2>5, <2>6 DEF RequiredRows
  <2>8. \A path \in Range(e.rrunpaths) :
          \E row \in db.rrunpath : /\ row.dynlinked_id = x.id
                                   /\ row.lddir = RRunPathDir(fs, path, Dirname(e.name))
    <3> SUFFICES ASSUME NEW path \in Range(e.rrunpaths)
                 PROVE  \E row \in db.rrunpath : /\ row.dynlinked_id = x.id
                                                 /\ row.lddir = RRunPathDir(fs, path, Dirname(e.name))
      OBVIOUS
    <3> DEFINE row == [dynlinked_id |-> IdOf(p, e), ldpath |-> path,
                       lddir |-> RRunPathDir(fs, path, Dirname(e.name))]
    <3>1. row \in db.rrunpath
      BY <2>5 DEF RRunPathRows
    <3>2. row.dynlinked_id = IdOf(p, e) /\ row.lddir = RRunPathDir(fs, path, Dirname(e.name))
      OBVIOUS
    <3> HIDE DEF row
    <3> QED BY <2>6, <3>1, <3>2
  <2>9. /\ \E w \in WhoNeedsFile(db, r.file) : w.pkg = x.pkg_id /\ w.file = r.requiredby
        /\ \E w \in WhoNeedsPkg(db, r.pkg) : w.pkg = x.pkg_id /\ w.fromfile = r.file
    BY <2>3, <2>5, <2>6, <2>7, <2>8, RequiredNeeds
  <2> QED BY <2>6, <2>9
<1> QED BY <1>1, LibraryInvIs, PTL

\* A row of the ELF file in any of the three tables is made of that file.
LEMMA RowsOfElf ==
  ASSUME LibraryInv, quiet, NEW p \in Installed \ moved, NEW x \in db.dynlinked, x.pkg_id = p
  PROVE  \E e \in Range(ElfFilesOf(fs, p, installed[p])) :
           /\ x.filename = e.name /\ x.arch = e.arch
           /\ \A so : [dynlinked_id |-> x.id, needed |-> so] \in db.required => so \in Range(e.needed)
           /\ RRunPathRows(fs, p, e) \subseteq db.rrunpath
           /\ \A row \in RRunPathRows(fs, p, e) : row.dynlinked_id = x.id
           /\ \A row \in db.rrunpath : row.dynlinked_id = x.id => row \in RRunPathRows(fs, p, e)
<1> DEFINE elfs == Range(ElfFilesOf(fs, p, installed[p]))
           ldirs == LinkerDirsIn(db)
           pkg == PkgOf(fs, p, installed[p])
<1>1. RowsOf(db, p) = MadeRows(ldirs, fs, pkg)
  BY RowsAreMade
<1>2. pkg.fullname = p /\ Range(pkg.elfFiles) = elfs
  BY DEF PkgOf
<1>3. \A e \in elfs : \A f \in elfs : e.name = f.name => e = f
  <2>1. /\ installed \in Insts /\ conf \in Confs /\ fs = FilesOf(installed, conf)
        /\ p \in Names /\ installed[p] # 0
    BY DEF LibraryInv, TypeInv, TypeOK, Insts, Installed
  <2>2. \A e \in elfs : IsElfOf(p, installed[p], e)
    BY <2>1, ElfFilesAre
  <2> QED BY <2>2 DEF IsElfOf
<1> HIDE DEF elfs, pkg, ldirs
<1>4. /\ {DynLinkedRow(ldirs, fs, p, e) : e \in elfs} = {r \in db.dynlinked : r.pkg_id = p}
      /\ UNION {RequiredRows(p, e) : e \in elfs} = {r \in db.required : r.dynlinked_id[1] = p}
      /\ UNION {RRunPathRows(fs, p, e) : e \in elfs} = {r \in db.rrunpath : r.dynlinked_id[1] = p}
  BY <1>1, <1>2 DEF RowsOf, MadeRows
<1>5. PICK e \in elfs : x = DynLinkedRow(ldirs, fs, p, e)
  BY <1>4
<1>6. x.id = IdOf(p, e) /\ x.filename = e.name /\ x.arch = e.arch
  BY <1>5, DynLinkedRowIs
<1>7. \A f \in elfs : IdOf(p, f) = x.id => f = e
  BY <1>3, <1>6, IdIs
<1>8. x.id[1] = p
  BY <1>6, IdIs
<1>9. ASSUME NEW so, [dynlinked_id |-> x.id, needed |-> so] \in db.required
      PROVE  so \in Range(e.needed)
  <2> DEFINE row == [dynlinked_id |-> x.id, needed |-> so]
  <2>1. row.dynlinked_id = x.id /\ row.needed = so
    OBVIOUS
  <2>2. row \in db.required
    BY <1>9
  <2> HIDE DEF row
  <2>3. PICK f \in elfs : row \in RequiredRows(p, f)
    BY <1>4, <1>8, <2>1, <2>2
  <2>4. f = e
    BY <1>7, <2>1, <2>3, RequiredRowIs
  <2> QED BY <2>1, <2>3, <2>4 DEF RequiredRows
<1>10. ASSUME NEW row \in db.rrunpath, row.dynlinked_id = x.id
       PROVE  row \in RRunPathRows(fs, p, e)
  <2>1. PICK f \in elfs : row \in RRunPathRows(fs, p, f)
    BY <1>4, <1>8, <1>10
  <2>2. f = e
    BY <1>7, <1>10, <2>1, RRunPathRowIs
  <2> QED BY <2>1, <2>2
<1>11. RRunPathRows(fs, p, e) \subseteq db.rrunpath
  BY <1>4
<1>12. \A row \in RRunPathRows(fs, p, e) : row.dynlinked_id = x.id
  BY <1>6, RRunPathRowIs
<1> QED BY <1>6, <1>9, <1>10, <1>11, <1>12 DEF elfs

\* What whoneeds finds of a package that has not moved, require finds too, but for the
\* libraries it takes wherever they are.
THEOREM RequiredIfNeeded == Spec => []NeededIsRequired
<1>1. LibraryInv => NeededIsRequired
  <2> SUFFICES ASSUME LibraryInv, quiet, NEW p \in Installed \ moved, NEW lib \in db.dynlinked,
                      NEW w \in WhoNeeds(db, {lib}), w.pkg = p
               PROVE  \/ \E r \in Answer(db, p).rows :
                           r.file = lib.filename /\ r.so = w.so /\ r.requiredby = w.file
                      \/ /\ lib.dirname \notin LinkerDirsIn(db)
                         /\ \E e \in Range(ElfFilesOf(fs, p, installed[p])) :
                              e.name = w.file /\ AnyDirectory(e)
    BY DEF NeededIsRequired
  <2>1. PICK x \in db.dynlinked : \E so \in NeededOf(db, x, lib) :
          w = [pkg |-> x.pkg_id, file |-> x.filename, so |-> so, fromfile |-> lib.filename]
    BY DEF WhoNeeds
  <2>2. x.pkg_id = p /\ w.file = x.filename /\ w.so \in NeededOf(db, x, lib)
    BY <2>1
  <2>3. PICK e \in Range(ElfFilesOf(fs, p, installed[p])) :
          /\ x.filename = e.name /\ x.arch = e.arch
          /\ \A so : [dynlinked_id |-> x.id, needed |-> so] \in db.required => so \in Range(e.needed)
          /\ RRunPathRows(fs, p, e) \subseteq db.rrunpath
          /\ \A row \in RRunPathRows(fs, p, e) : row.dynlinked_id = x.id
          /\ \A row \in db.rrunpath : row.dynlinked_id = x.id => row \in RRunPathRows(fs, p, e)
    BY <2>2, RowsOfElf
  <2>4. /\ w.so \in lib.soname /\ w.so \in Range(e.needed) /\ lib.arch = e.arch
        /\ \E lddir \in RunPathsOf(db, x.id) : NeedsFrom(db, lddir, lib)
    BY <2>2, <2>3 DEF NeededOf
  <2>5. PICK lddir \in RunPathsOf(db, x.id) : NeedsFrom(db, lddir, lib)
    BY <2>4
  <2>6. \/ lddir = {} /\ Range(e.rrunpaths) = {}
        \/ \E path \in Range(e.rrunpaths) : /\ lddir = RRunPathDir(fs, path, Dirname(e.name))
                                            /\ \E row \in db.rrunpath : row.lddir = lddir
    <3> DEFINE rows == {row \in db.rrunpath : row.dynlinked_id = x.id}
    <3>1. rows = RRunPathRows(fs, p, e)
      BY <2>3
    <3>2. CASE rows = {}
      <4>1. Range(e.rrunpaths) = {}
        BY <3>1, <3>2 DEF RRunPathRows
      <4> QED BY <2>5, <3>2, <4>1 DEF RunPathsOf
    <3>3. CASE rows # {}
      <4>1. PICK row \in rows : lddir = row.lddir
        BY <2>5, <3>3 DEF RunPathsOf
      <4> QED BY <3>1, <4>1 DEF RRunPathRows
    <3> QED BY <3>2, <3>3
  <2>7. CASE lib.dirname \in SearchDirs(db, fs, e)
    <3> DEFINE r == [pkg |-> lib.pkg_id, file |-> lib.filename, so |-> w.so, requiredby |-> e.name]
    <3>1. r \in ElfDeps(db, fs, e)
      BY <2>4, <2>7 DEF ElfDeps, DepRows
    <3>2. e.needed # <<>>
      BY <2>4 DEF Range
    <3>3. PkgOf(fs, p, installed[p]).elfFiles = ElfFilesOf(fs, p, installed[p])
      BY DEF PkgOf
    <3>4. r.file = lib.filename /\ r.so = w.so /\ r.requiredby = w.file
      BY <2>2, <2>3
    <3> HIDE DEF r
    <3>5. r \in Answer(db, p).rows
      BY <3>1, <3>2, <3>3 DEF Answer, RequiredInfos
    <3> QED BY <3>4, <3>5
  <2>8. CASE lib.dirname \notin SearchDirs(db, fs, e)
    <3>1. lib.dirname \notin LinkerDirsIn(db)
      BY <2>8 DEF SearchDirs
    <3>2. lddir # {lib.dirname}
      <4> SUFFICES ASSUME lddir = {lib.dirname} PROVE FALSE
        OBVIOUS
      <4>1. PICK path \in Range(e.rrunpaths) : /\ lddir = RRunPathDir(fs, path, Dirname(e.name))
                                               /\ \E row \in db.rrunpath : row.lddir = lddir
        BY <2>6
      <4>2. lib.dirname = MakeRealPath(fs, PathOf(fs, ReplaceORIGIN(path, Dirname(e.name)))).url
        BY <4>1 DEF RRunPathDir
      <4>3. lib.dirname \in QueryDirs(fs, e)
        BY <4>2 DEF QueryDirs
      <4>4. lib.dirname \in UNION {row.lddir : row \in db.rrunpath}
        BY <4>1
      <4> QED BY <2>8, <4>3, <4>4 DEF SearchDirs
    <3>3. lddir \subseteq LinkerDirsIn(db)
      BY <2>5, <3>1, <3>2 DEF NeedsFrom
    <3>4. AnyDirectory(e)
      BY <2>6, <3>3 DEF AnyDirectory
    <3> QED BY <2>2, <2>3, <3>1, <3>4
  <2> QED BY <2>7, <2>8
<1> QED BY <1>1, LibraryInvIs, PTL

\* require and whoneeds agree with each other on every package that has not moved.
THEOREM RequireAgreesWithWhoNeeds == Spec => []RequirementsAgree
<1>1. RequiredIsNeeded /\ NeededIsRequired => RequirementsAgree
  BY DEF RequirementsAgree
<1> QED BY <1>1, NeededIfRequired, RequiredIfNeeded, PTL
=============================================================================
