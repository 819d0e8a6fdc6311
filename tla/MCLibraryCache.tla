--------------------------- MODULE MCLibraryCache ---------------------------
(***************************************************************************)
(* LibraryCache with three packages in two versions each: a library in     *)
(* /lib, or in /opt/l with a link in /lib; a library in a directory of its *)
(* own, or one of the other width in /lib; and a program with a run path,  *)
(* or two programs, one with run paths that begin with $ORIGIN, one with a *)
(* path that leads to neither.                                             *)
(***************************************************************************)
EXTENDS LibraryCache, MCImages

LibA == <<"liba", "1", "x86", "1">>
LibP == <<"libp", "1", "x86", "1">>
App == <<"app", "1", "x86", "1">>

MCNames == {LibA, LibP, App}

\* Strings of the images: names, and lists of paths.
Strings == <<"liba", "libp", <<<<"opt", "p">>>>, <<<<"$ORIGIN", "..", "l">>, <<"$ORIGIN", "..", "p">>>>,
             <<<<"opt", "a">>>>>>

ElfNode(class, t, dyn) ==
  [type |-> "ISREG",
   image |-> ImageOfWidth(class, Strings, t, Append(dyn, Dyn("NULL", 0)), 1, 0)]

Library(class, name) == ElfNode(class, "DYN", <<Dyn("SONAME", name)>>)
Program(path) ==
  ElfNode(64, "EXEC", <<Dyn("NEEDED", 1), Dyn("NEEDED", 2), Dyn("RUNPATH", path)>>)

MCFiles(p, v) ==
  CASE p = LibA /\ v = 1 -> <<"lib", "liba">> :> Library(64, 1)
    [] p = LibA /\ v = 2 -> <<"opt", "l">> :> Dir @@ <<"opt", "l", "liba">> :> Library(64, 1)
                              @@ <<"lib", "liba">> :> LinkTo(<<"opt", "l", "liba">>)
    [] p = LibP /\ v = 1 -> <<"opt", "p">> :> Dir @@ <<"opt", "p", "libp">> :> Library(64, 2)
    [] p = LibP /\ v = 2 -> <<"lib", "libp">> :> Library(32, 2)
    [] p = App /\ v = 1 -> <<"bin", "app">> :> Program(3)
    [] OTHER -> <<"opt", "a">> :> Dir @@ <<"opt", "a", "app">> :> Program(4)
                  @@ <<"opt", "a", "tool">> :> Program(5)

MCBaseFiles ==
  <<"etc">> :> Dir @@ <<"lib">> :> Dir @@ <<"bin">> :> Dir @@ <<"opt">> :> Dir
    @@ <<"p">> :> LinkTo(<<"opt", "p">>)

\* No file, an empty one, and one with a comment and a directory that is a link.
MCConfs == {{}, {<<>>}, {<<<<"#", "p">>, <<"p", "#">>>>}}

MCFirstConf == {<<>>}

MCDirOrder == <<<<"lib">>, <<"opt", "l">>, <<"opt", "p">>>>

\* The libraries of the linker's directories under their sonames, between a first
\* line without a library and a last one that is shorter and has no arrow either.
Cached(nodes) ==
  LET dirs == LdDirsOf(nodes)
      elf == [f \in {g \in DOMAIN nodes : Dirname(g) \in dirs} |-> ElfAt(nodes, f)]
  IN {[so |-> elf[f].soName, len |-> 40, at |-> 25, path |-> f] :
        f \in {g \in DOMAIN elf : elf[g].type = "Library"}}

NoArrow(word, len) == [so |-> word, len |-> len, at |-> 0, path |-> <<>>]

MCLdconfig(nodes) ==
  <<NoArrow("2", 30)>>
    \o (IF Throws(nodes) THEN <<>> ELSE SetToSeq(Cached(nodes)))
    \o <<NoArrow("Cache", 10)>>
=============================================================================
