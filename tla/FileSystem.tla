----------------------------- MODULE FileSystem -----------------------------
(***************************************************************************)
(* What the program asks of the file system, as path.cpp, pathname.cpp and *)
(* dircontent.cpp ask it: lstat, realpath, opendir and readdir.            *)
(*                                                                         *)
(* An absolute path is the sequence of its names, <<>> is "/".  A name     *)
(* that ends a path in "" stands for a trailing slash.  A file system is a *)
(* function from the paths that exist to their nodes: a node has a type, a *)
(* link also the path it points to, a file that can be read its image.     *)
(***************************************************************************)
EXTENDS Naturals, Sequences, SequencesExt

CONSTANTS
  MaxLinks,   \* links realpath follows before it fails with ELOOP
  Starts,     \* pairs <<a, b>>: the name b begins with the name a
  Ignored     \* names a listing skips: hidden files, editors' backups

ASSUME MaxLinksAssumption == MaxLinks \in Nat \ {0}
ASSUME StartsAssumption == \A s \in Starts : s = <<s[1], s[2]>>

PathTypes == {"INVALID", "ISDIR", "ISREG", "ISLNK", "ISFIFO"}

\* A path may have empty names, what a directory holds has none, and a link points
\* to some path.  What a path leads through is a directory; "/" is always there.
NoName == ""
PathNames == STRING
NodeNames == PathNames \ {NoName}

IsFileSystem(fs) ==
  \A p \in DOMAIN fs :
    /\ p \in Seq(NodeNames) \ {<<>>} /\ fs[p].type \in PathTypes \ {"INVALID"}
    /\ fs[p].type = "ISLNK" => fs[p].to \in Seq(NodeNames)
    /\ \A k \in 1..Len(p) - 1 : SubSeq(p, 1, k) \in DOMAIN fs /\ fs[SubSeq(p, 1, k)].type = "ISDIR"

-----------------------------------------------------------------------------
(* Names.                                                                  *)

\* The path without its empty names.
Clean(p) ==
  LET clean[i \in 0..Len(p)] ==
        IF i = 0 THEN <<>>
        ELSE IF p[i] = NoName THEN clean[i - 1] ELSE Append(clean[i - 1], p[i])
  IN clean[Len(p)]

\* The path without the slashes at its end.
Unslashed(p) ==
  LET ends == {k \in 0..Len(p) : \A j \in k + 1..Len(p) : p[j] = NoName}
  IN SubSeq(p, 1, CHOOSE k \in ends : \A j \in ends : k <= j)

\* dirname and basename of libgen.h, as PathName::dir and PathName::base call them.
Dirname(p) ==
  LET q == Unslashed(p) IN IF q = <<>> THEN <<>> ELSE Unslashed(Front(q))

Basename(p) ==
  LET q == Unslashed(p) IN IF q = <<>> THEN "/" ELSE Last(q)

\* str ().compare (0, s.size (), s) == 0: the text of d begins the text of p.
Leads(d, p) ==
  \/ d = <<>>
  \/ /\ Len(d) <= Len(p)
     /\ \A i \in 1..Len(d) - 1 : d[i] = p[i]
     /\ LET a == Last(d)
            b == p[Len(d)]
        IN a \in {NoName, b} \/ <<a, b>> \in Starts

-----------------------------------------------------------------------------
(* lstat and realpath.                                                     *)

IsLinkAt(fs, p) == p \in DOMAIN fs /\ fs[p].type = "ISLNK"

LinksOn(fs, p) == {k \in 1..Len(p) : IsLinkAt(fs, SubSeq(p, 1, k))}

\* The first link on the way is replaced by what it points to.
Redirect(fs, p) ==
  IF LinksOn(fs, p) = {} THEN p
  ELSE LET k == CHOOSE k \in LinksOn(fs, p) : \A j \in LinksOn(fs, p) : k <= j
       IN fs[SubSeq(p, 1, k)].to \o SubSeq(p, k + 1, Len(p))

Chased(fs, p) ==
  LET chase[i \in 0..MaxLinks] == IF i = 0 THEN Clean(p) ELSE Redirect(fs, chase[i - 1])
  IN chase[MaxLinks]

\* Nothing on the way to q is a link, and q is there.
Landed(fs, q) == LinksOn(fs, q) = {} /\ (q = <<>> \/ q \in DOMAIN fs)

TypeAt(fs, q) ==
  IF q = <<>> THEN "ISDIR" ELSE IF q \in DOMAIN fs THEN fs[q].type ELSE "INVALID"

IsDirAt(fs, q) == Landed(fs, q) /\ TypeAt(fs, q) = "ISDIR"
IsFileAt(fs, q) == Landed(fs, q) /\ TypeAt(fs, q) = "ISREG"

TypeIn(fs, d, name) ==
  IF Landed(fs, d) THEN TypeAt(fs, Append(d, name)) ELSE "INVALID"

\* Path::doStat: the type is that of the link, not of what it points to, unless
\* a slash follows its name.
Lstat(fs, p) ==
  CASE Clean(p) = <<>> -> "ISDIR"
    [] p # <<>> /\ Clean(p) = p -> TypeIn(fs, Chased(fs, Dirname(p)), Basename(p))
    [] OTHER -> IF IsDirAt(fs, Chased(fs, p)) THEN "ISDIR" ELSE "INVALID"

\* Every way a Path is made from a name, or from another Path but by a move,
\* asks lstat again.
PathOf(fs, url) == [url |-> url, type |-> Lstat(fs, url)]

IsValid(path) == path.type # "INVALID"
IsRegularFile(path) == path.type = "ISREG"
IsFolder(path) == path.type = "ISDIR"
IsLink(path) == path.type = "ISLNK"

\* A path that does not resolve stays what it is, and so does its type.
MakeRealPath(fs, path) ==
  LET at(q) == IF Landed(fs, q) THEN [url |-> q, type |-> TypeAt(fs, q)] ELSE path
  IN at(Chased(fs, path.url))

-----------------------------------------------------------------------------
(* opendir and readdir.                                                    *)

CanOpenDir(fs, d) == IsDirAt(fs, Chased(fs, d))

\* The names Dir::getContent returns, in an order that is readdir's.
Content(fs, d) ==
  {Basename(p) : p \in {q \in DOMAIN fs : Dirname(q) = Chased(fs, d)}} \ Ignored
=============================================================================
