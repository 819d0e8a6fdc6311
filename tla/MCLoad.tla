-------------------------------- MODULE MCLoad ------------------------------
(***************************************************************************)
(* Small worlds for PkgLoad: package lists over a handful of paths, a      *)
(* DESTDIR with links and nested library directories, and ELF files that   *)
(* end inside each of their parts.                                         *)
(***************************************************************************)
EXTENDS PkgLoad, MCImages

CONSTANTS MaxListed   \* bound: lines after "FILE LIST:"

MCAdmDir == <<"adm">>
MCBinDirs == <<<<"bin">>>>
MCLdDirs == <<<<"lib">>, <<"lib", "sub">>>>
MCStarts == {<<"lib", "libexec">>}
MCIgnored == {".git", "app~"}
MCDotNew == {"conf.new"}

-----------------------------------------------------------------------------
(* Images.  The string section holds "liba" at 1, "me" at 2, and lists of  *)
(* paths at 3 to 5; the list at 5 has an empty path in its middle.         *)

Strings == <<"liba", "me", <<<<"p">>>>, <<<<"q">>, <<"r">>>>, <<<<"q">>, <<>>, <<"r">>>>>>

Image(t, dyn, link, cut) == ImageOfWidth(64, Strings, t, dyn, link, cut)

Plain == [Image("DYN", <<Dyn("NEEDED", 1), Dyn("NULL", 0)>>, 1, 0) EXCEPT !.ident = FALSE]
Lib == Image("DYN", <<Dyn("NEEDED", 1), Dyn("NULL", 0)>>, 1, 0)
App == Image("EXEC", <<Dyn("NEEDED", 1), Dyn("NULL", 0)>>, 1, 0)

\* Every order of up to three entries that a linker could write.
DynEntries == {Dyn("NEEDED", 1), Dyn("SONAME", 2), Dyn("RPATH", 3), Dyn("RUNPATH", 4),
               Dyn("RUNPATH", 5)}
Dynamics == {Append(dyn, Dyn("NULL", 0)) : dyn \in SeqOf(DynEntries, 3)}

Images ==
  {Image(t, dyn, 1, 0) : t \in {"DYN", "EXEC", "REL"}, dyn \in Dynamics} \union
  {Image("DYN", Lib.sections[3].data, link, cut) : link \in {1, 9, 65537}, cut \in 0..12}

-----------------------------------------------------------------------------
(* Worlds.                                                                 *)

Header(n) == [i \in 1..n |-> <<"header">>]
File(image) == [type |-> "ISREG", image |-> image, lines |-> Header(7)]
List(lines) == [type |-> "ISREG", image |-> Plain, lines |-> lines]

Base ==
  <<"adm">> :> LinkTo(<<"var">>) @@ <<"var">> :> Dir @@ <<"bin">> :> Dir
  @@ <<"lib">> :> Dir @@ <<"opt">> :> Dir @@ <<"libexec">> :> Dir
  @@ <<"lib64">> :> LinkTo(<<"lib">>)
  @@ <<"bin", "app">> :> File(App) @@ <<"bin", "conf">> :> File(Plain)
  @@ <<"bin", "conf.new">> :> File(App)
  @@ <<"lib", "liba">> :> File(Lib) @@ <<"lib", "a">> :> LinkTo(<<"lib", "liba">>)
  @@ <<"opt", "app">> :> File(App) @@ <<"libexec", "app">> :> File(App)

Listed == {<<"bin", "">>, <<"bin", "app">>, <<"bin", "incoming", "app">>, <<"bin", "conf.new">>,
           <<"bin", "incoming", "conf.new">>,
           <<"lib", "liba">>, <<"lib", "a">>, <<"lib64", "liba">>, <<"opt", "app">>,
           <<"libexec", "app">>, <<"FILE LIST:">>}

InstalledInit ==
  \E files \in SeqOf(Listed, MaxListed), n \in {4, 5, 6} :
    PkgInit(<<"var", "p-1-x-1">> :> List(Append(Header(n), <<"FILE LIST:">>) \o files)
              @@ Base, <<"adm", "p-1-x-1">>, "Unknown")

\* What createIndex() asks for if the packages' directory has one of its own.
ListDirInit ==
  PkgInit(<<"var", "old-1-x-1">> :> Dir @@ Base, <<"adm", "old-1-x-1">>, "Installed")

Dest ==
  <<"d">> :> Dir @@ <<"d", "lib">> :> Dir @@ <<"d", "lib", "sub">> :> Dir
  @@ <<"d", "lib", "liba">> :> File(Lib) @@ <<"d", "lib", "sub", "liba">> :> File(Lib)
  @@ <<"d", "lib", "sub", "up">> :> LinkTo(<<"d", "lib">>)
  @@ <<"d", "lib", ".git">> :> File(Lib) @@ <<"d", "share">> :> File(Lib)

DestInit ==
  \E bin \in {Dir, LinkTo(<<"d", "lib">>), LinkTo(<<"d", "bin">>)}, w \in {Base, <<>>} :
    PkgInit((IF bin = Dir THEN <<"d", "bin", "app">> :> File(App) ELSE <<>>)
              @@ <<"d", "bin">> :> bin @@ Dest @@ w, <<"d">>, "Unknown")

FileInit ==
  \E image \in Images, hint \in {"Unknown", "BinLib", "DestDir", "Installed"} :
    PkgInit(<<"x">> :> File(image) @@ <<"adm">> :> Dir, <<"x">>, hint)

Init == InstalledInit \/ ListDirInit \/ DestInit \/ FileInit

Ends == {"loaded", "failed", "threw", "endless"}
Ended == phase \in Ends /\ UNCHANGED pkgVars

\* Loading goes on until it has ended.  This is WF_pkgVars(Work) written out:
\* that Work is enabled until then is what the deadlock check shows.
Work == PkgNext /\ UNCHANGED removed
Spec == /\ Init /\ [][PkgNext \/ Ended]_pkgVars
        /\ []<>(phase \in Ends) \/ []<><<Work>>_pkgVars

-----------------------------------------------------------------------------
(* What the reader promises of the images above.                           *)

ImageOf(e) == fs[Chased(fs, e.name)].image
DynOf(image) == image.sections[3].data
Values(image, tag) ==
  [i \in 1..Len(SelectSeq(DynOf(image), LAMBDA d : d.tag = tag)) |->
     Strings[SelectSeq(DynOf(image), LAMBDA d : d.tag = tag)[i].value]]

\* A file that ends early is no ELF file, and one that does not has exactly
\* the libraries of its DT_NEEDED entries, if its dynamic section is linked to
\* its strings (elfio::load; the link is 16 bits wide): nothing half read is
\* indexed.
ReadWhole ==
  removed = {} => \A e \in ToSet(elfFiles) :
    /\ ImageOf(e).cut = 0
    /\ ImageOf(e).sections[3].link = 1 => e.needed = Values(ImageOf(e), "NEEDED")

\* The linker takes the paths of a DT_RUNPATH, and those of a DT_RPATH only
\* without one.
LinkerPaths(image) ==
  FlattenSeq(IF Values(image, "RUNPATH") # <<>> THEN Values(image, "RUNPATH")
             ELSE Values(image, "RPATH"))

OneOfEach(image) ==
  /\ Len(Values(image, "RPATH")) <= 1
  /\ Len(Values(image, "RUNPATH")) <= 1
  /\ <<>> \notin ToSet(LinkerPaths(image))
  /\ image.sections[3].link = 1

\* An ELF file's search paths are the linker's (ElfFile::load), if no path is empty: in
\* whatever order its DT_RPATH and its DT_RUNPATH come, the linker's paths are the first
\* ones, and there are no others unless the DT_RPATH comes after the DT_RUNPATH.
PathsAreTheLinkers ==
  removed = {} => \A e \in {f \in ToSet(elfFiles) : OneOfEach(ImageOf(f))} :
    LET dyn == DynOf(ImageOf(e))
        inOrder == \A i, j \in 1..Len(dyn) :
                     dyn[i].tag = "RUNPATH" /\ dyn[j].tag = "RPATH" => j < i
    IN /\ IsPrefix(LinkerPaths(ImageOf(e)), e.rrunpaths)
       /\ inOrder => e.rrunpaths = LinkerPaths(ImageOf(e))
=============================================================================
