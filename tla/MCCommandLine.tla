---------------------------- MODULE MCCommandLine ---------------------------
(***************************************************************************)
(* Executions of sbbdep over small systems of three packages: a program,   *)
(* libraries that need each other, and documents with one more library.    *)
(***************************************************************************)
EXTENDS CommandLine, MCImages

CONSTANTS me, other

AppName == <<"app", "1", "x", "1">>
LibsName == <<"libs", "1", "x", "1">>
DocName == <<"doc">>

Adm(name) == <<"adm", name>>
MCAdmDir == <<"adm">>
MCLists == <<Adm("app-1-x-1"), Adm("libs-1-x-1"), Adm("doc")>>
MCFullNames == "app-1-x-1" :> AppName @@ "libs-1-x-1" :> LibsName @@ "doc" :> DocName
MCAppVersion == <<0, 3>>
MCBinDirs == <<<<"bin">>>>
MCLdDirs == <<<<"lib64">>>>
MCDirOrder == <<<<"lib64">>>>
MCStarts == {<<"libc.so.", "libc.so.6">>, <<"conf", "conf.new">>}
MCDotNew == {<<"conf", "conf.new">>}
MCDefaultDb == <<"cache", "sbbdep.db">>
MCBadFiles == {<<"unwritable">>}
MCNone == <<>>
MCProcs == {me, other}
MCLoggers == {"main", "other"}
MCRemovable == {<<"bin", "app">>, <<"lib64", "liba">>, Adm("app-1-x-1")}

-----------------------------------------------------------------------------
(* Files.                                                                  *)

Strings == <<"app", "liba", "libb", "libc.so.6", "ld", "libz", <<<<"opt">>>>>>

Elf(t, dyn) ==
  [type |-> "ISREG", lines |-> <<>>,
   image |-> ImageOfWidth(64, Strings, t, Append(dyn, Dyn("NULL", 0)), 1, 0)]

Needing(names) == [i \in DOMAIN names |-> Dyn("NEEDED", names[i])]
Program(names) == Elf("EXEC", Needing(names))
Library(name, names) == Elf("DYN", <<Dyn("SONAME", name)>> \o Needing(names))

Plain(lines) ==
  [type |-> "ISREG", lines |-> lines, image |-> [Elf("EXEC", <<>>).image EXCEPT !.ident = FALSE]]
List(files) ==
  Plain([i \in 1..5 |-> <<"header">>] \o <<<<"FILE LIST:">>>> \o files)

Common ==
  <<"cache">> :> Dir @@ <<"etc">> :> Dir @@ <<"bin">> :> Dir @@ <<"lib64">> :> Dir
  @@ <<"opt">> :> Dir @@ <<"adm">> :> Dir
  @@ <<"etc", "ld.so.conf">> :> Plain(<<>>) @@ <<"etc", "conf">> :> Plain(<<>>)
  @@ Adm("app-1-x-1") :> List(<<<<"bin", "app">>, <<"etc", "conf.new">>>>)
  @@ Adm("libs-1-x-1") :> List(<<<<"lib64", "liba">>, <<"lib64", "libc.so.6">>, <<"lib64", "ld">>,
                                 <<"etc", "incoming", "conf">>, <<"etc", "conf">>,
                                 <<"usr", "conf">>>>)
  @@ Adm("doc") :> List(<<<<"lib64", "libb">>, <<"usr", "conf">>>>)

\* Libraries that need each other and themselves, and one nobody has.
Circle ==
  <<"bin", "app">> :> Program(<<2, 4, 6>>)
  @@ <<"lib64", "liba">> :> Library(2, <<2, 3>>) @@ <<"lib64", "libb">> :> Library(3, <<2>>)
  @@ <<"lib64", "libc.so.6">> :> Library(4, <<5>>) @@ <<"lib64", "ld">> :> Library(5, <<>>)
  @@ Common

\* A second library of a soname, which only the program's run path leads to: what the
\* first one needs is below a cycle then, and not shown.
Twice ==
  <<"bin", "app">> :> Elf("EXEC", Append(Needing(<<3, 4>>), Dyn("RUNPATH", 7)))
  @@ <<"opt", "libb">> :> Library(3, <<2>>) @@ <<"lib64", "libb">> :> Library(3, <<6>>)
  @@ <<"lib64", "libz">> :> Library(6, <<>>)
  @@ Circle

\* A library that is needed under the name of a link, and needs itself so.
Misnamed ==
  <<"lib64", "libz">> :> LinkTo(<<"lib64", "liba">>)
  @@ <<"lib64", "liba">> :> Library(2, <<6>>) @@ Circle

\* A C library that needs nothing.
Small == <<"lib64", "libc.so.6">> :> Library(4, <<>>) @@ Circle

\* A program that is a script: a package without ELF files.
Script == <<"bin", "app">> :> Plain(<<>>) @@ Circle

Without(nodes, files) == [f \in DOMAIN nodes \ files |-> nodes[f]]

Linked == <<"opt", "a">> :> LinkTo(<<"lib64", "liba">>) @@ Circle

\* ldd prints nothing for what is not there; here liba is found through a link.
MCLdd(nodes) ==
  [f \in DOMAIN Linked \cup DOMAIN Twice |->
     IF f = <<"bin", "app">> /\ f \in DOMAIN nodes
     THEN <<[so |-> "liba", arrow |-> TRUE, to |-> <<"opt", "a">>],
            [so |-> "libz", arrow |-> TRUE, to |-> <<>>]>>
     ELSE <<>>]

-----------------------------------------------------------------------------
(* Command lines.                                                          *)

Opt(o) == [opt |-> o, arg |-> <<>>, names |-> {}]
Word(p) == [opt |-> "", arg |-> p, names |-> {}]
Set(o, p) == [opt |-> o, arg |-> p, names |-> {}]
Ignore(names) == [opt |-> "ignore", arg |-> <<>>, names |-> names]

App == Word(Adm("app-1-x-1"))
File(p) == Word(p)

Reports ==
  {<<App>>, <<Opt("whoneeds"), Word(Adm("libs-1-x-1"))>>, <<Opt("bdtree"), App>>,
   <<Opt("ldd"), Opt("short"), App>>, <<Opt("nosync"), App>>,
   <<Opt("xdl"), Ignore({<<"doc">>}), App>>, <<Opt("short"), App, Word(<<"lib64">>)>>,
   <<Opt("whoneeds"), Opt("xdl"), File(<<"lib64", "liba">>)>>, <<File(<<"bin", "app">>), Opt("short")>>}

Others3 ==
  {<<>>, <<Opt("-h"), Opt("bad")>>, <<Opt("help"), Opt("bad")>>, <<Opt("version"), App>>,
   <<Set("file", <<"unwritable">>), App>>, <<Opt("lookup")>>, <<Opt("fx")>>, <<Opt("nosync")>>,
   <<Set("cache", <<"mine">>), App>>, <<Opt("whoneeds"), Word(<<"opt">>)>>, <<Word(<<"none">>)>>,
   <<Ignore({}), Word(<<"etc">>)>>}

Lookups ==
  {<<Opt("lookup"), Word(<<"conf">>)>>, <<Opt("quiet"), Opt("nosync"), Word(<<"etc", "conf">>)>>,
   <<Opt("nosync"), Word(<<"etc", "conf">>)>>,
   <<Opt("nosync"), Word(<<"etc", "ld.so.conf">>)>>}

-----------------------------------------------------------------------------
(* Databases there may be: none, an empty file, one without packages, one  *)
(* with a package that is now another, one of another version.             *)

Schema == CreateSchema(NoTables)
OldLibs ==
  [Schema EXCEPT !.pkgs = {[fullname |-> <<"libs">>, name |-> <<"libs">>, timestamp |-> 1]}]
Databases ==
  {<<>>, <<NoTables>>, <<Schema>>, <<OldLibs>>, <<[Schema EXCEPT !.version = {<<0, 2>>}]>>}

MCInit ==
  \/ \E line \in Reports \cup Others3, db \in Databases : Init(line, Circle, db)
  \/ \E line \in Reports, nodes \in {Twice, Misnamed, Small, Script, Linked} :
       Init(line, nodes, <<Schema>>)
  \/ \E line \in Lookups, nodes \in {Circle, Without(Circle, {MCAdmDir})} : Init(line, nodes, <<Schema>>)
  \/ \E line \in {<<App>>, <<>>}, f \in {<<"cache">>, <<"etc", "ld.so.conf">>} :
       Init(line, Without(Circle, {f}), <<Schema>>)
  \/ \E line \in {<<>>, <<File(<<"bin", "app">>)>>}, db \in {<<>>, <<Schema>>} :
       Init(line, Without(Circle, {f \in DOMAIN Circle : IsPrefix(MCAdmDir, f)}), db)

MCSpec == MCInit /\ [][Next]_vars /\ Fairness
=============================================================================
