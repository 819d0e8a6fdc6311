----------------------------- MODULE LinkerDirs -----------------------------
(***************************************************************************)
(* Ldconf of src/sbbdep/ldconf.cpp: the directories of the dynamic linker, *)
(* from /etc/ld.so.conf and the output of ldconfig -p, and the output of   *)
(* ldd.                                                                    *)
(*                                                                         *)
(* A line of ldconfig -p is a record: its first word, its length, where in *)
(* it the arrow is (0 without one) and the path after the arrow.  A line   *)
(* of /etc/ld.so.conf is the sequence of its names, "#" where a comment    *)
(* begins.                                                                 *)
(***************************************************************************)
EXTENDS FileSystem, Functions

LibDirs == <<<<"lib">>, <<"usr", "lib">>, <<"usr", "local", "lib">>>>
Lib64Dirs == <<<<"lib64">>, <<"usr", "lib64">>, <<"usr", "local", "lib64">>>>
ProgramDirs ==
  {<<"bin">>, <<"usr", "bin">>, <<"usr", "local", "bin">>, <<"sbin">>, <<"usr", "sbin">>,
   <<"usr", "local", "sbin">>, <<"usr", "games", "">>, <<"usr", "local", "games", "">>}

Conf == <<"etc", "ld.so.conf">>

Folders(fs, dirs) == {d \in dirs : IsFolder(PathOf(fs, d))}

-----------------------------------------------------------------------------
(* ldconfig -p.                                                            *)

\* The arrows the buffer holds once fgets has stored a line in it: what lies behind
\* the line and its NUL is still that of earlier lines.
Arrows(left, line) ==
  {a \in left : a.at > line.len + 1}
    \cup (IF line.at = 0 THEN {} ELSE {[at |-> line.at, path |-> line.path]})

\* The arrow is searched for in the whole buffer, and the path behind the first
\* one is taken, whatever line it came with.  The length of the arrow is added to the
\* end of the buffer too when there is none, and the test for it misses that; the search
\* that then begins behind the buffer is taken to find nothing, as the library's does.
ReadLine(read, line) ==
  LET arrows == Arrows(read.left, line)
      first == CHOOSE a \in arrows : \A b \in arrows : a.at <= b.at
  IN [left |-> arrows,
      found |-> IF arrows = {} THEN read.found
                ELSE Append(read.found, [so |-> line.so, path |-> first.path])]

\* The buffer is taken to hold no arrow before the first line.
Listed(lines) == FoldLeft(ReadLine, [left |-> {}, found |-> <<>>], lines).found

\* fillFromLdSoCache.
LdSoCacheDirs(fs, lines) ==
  {Dirname(MakeRealPath(fs, PathOf(fs, e.path)).url) : e \in Range(Listed(lines))}

\* Ldconf::cache: the files of a name, in the order of the lines.
CacheOf(lines, soname) ==
  LET of == SelectSeq(Listed(lines), LAMBDA e : e.so = soname)
  IN [i \in DOMAIN of |-> of[i].path]

-----------------------------------------------------------------------------
(* ldd.  A line is a record: the name, whether there is " => ", and what   *)
(* follows it, <<>> for a text without a slash ("not found").              *)

LddMap(lines) ==
  LET split == SelectSeq(lines, LAMBDA l : l.arrow)
      first(so) == CHOOSE i \in DOMAIN split :
                     split[i].so = so /\ \A j \in 1..i - 1 : split[j].so # so
  IN [so \in {split[i].so : i \in DOMAIN split} |-> split[first(so)].to]

-----------------------------------------------------------------------------
(* The constructor.                                                        *)

Text(line) ==
  LET marks == {i \in DOMAIN line : line[i] = "#"}
  IN IF marks = {} THEN line
     ELSE SubSeq(line, 1, (CHOOSE i \in marks : \A j \in marks : i <= j) - 1)

CanReadConf(fs) == IsFileAt(fs, Chased(fs, Conf))

\* It throws if there is no /etc/ld.so.conf, or if that cannot be opened.
Throws(fs) == ~IsValid(PathOf(fs, Conf)) \/ ~CanReadConf(fs)

ConfDirs(fs) ==
  LET texts == {Text(l) : l \in Range(fs[Chased(fs, Conf)].lines)} \ {<<>>}
      paths == {MakeRealPath(fs, PathOf(fs, t)) : t \in texts}
  IN {p.url : p \in {q \in paths : IsFolder(q)}}

\* The library directories, those of them that ldconfig -p has no library of, and
\* the directories of programs.
LdDirsOf(fs) == Folders(fs, Range(LibDirs \o Lib64Dirs)) \cup ConfDirs(fs)
LdLnkDirsOf(fs, lines) == LdDirsOf(fs) \ LdSoCacheDirs(fs, lines)
BinDirsOf(fs) == Folders(fs, ProgramDirs)

Ldconf(fs, lines) ==
  [lddirs |-> LdDirsOf(fs), ldlnkdirs |-> LdLnkDirsOf(fs, lines), bindirs |-> BinDirsOf(fs)]
=============================================================================
