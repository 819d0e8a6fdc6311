---------------------------- MODULE LinkerSearch ----------------------------
(***************************************************************************)
(* Where src/cli/report_bdtree.cpp looks for a needed name: the search of  *)
(* the dynamic linker, done over.  lines is what ldconfig -p printed when  *)
(* the process first asked, env is LD_LIBRARY_PATH.                        *)
(***************************************************************************)
EXTENDS LinkerDirs, ElfFile

\* ElfFile (): nothing was found.
NoElf == NotElf(<<>>)

FirstOf(elfs, arch) ==
  LET fit == SelectSeq(elfs, LAMBDA e : e.arch = arch)
  IN IF fit = <<>> THEN NoElf ELSE fit[1]

\* Both findInPaths(): the first file of the name and of the width, empty directories
\* left out.
FindInPaths(fs, arch, soname, dirs) ==
  LET named == SelectSeq(dirs, LAMBDA d : d # <<>>)
  IN FirstOf([i \in DOMAIN named |-> ElfAt(fs, Append(named[i], soname))], arch)

FindInLdSoCache(fs, lines, arch, soname) ==
  LET files == CacheOf(lines, soname)
  IN FirstOf([i \in DOMAIN files |-> ElfAt(fs, files[i])], arch)

FindInLdDefaultPathes(fs, arch, soname) ==
  FindInPaths(fs, arch, soname, IF arch = 32 THEN LibDirs ELSE Lib64Dirs)

\* DT_RPATH, LD_LIBRARY_PATH, DT_RUNPATH, the cache, the default directories.  The
\* paths are those of the ELF file as they are: what $ORIGIN and $LIB stand for is
\* worked out, and not used.
FindElfSo(fs, lines, env, elf, soname) ==
  LET dirs == (IF HasRPath(elf) THEN elf.rrunpaths ELSE <<>>) \o env
                \o (IF HasRunPath(elf) THEN elf.rrunpaths ELSE <<>>)
  IN FirstOf(<<FindInPaths(fs, elf.arch, soname, dirs),
               FindInLdSoCache(fs, lines, elf.arch, soname),
               FindInLdDefaultPathes(fs, elf.arch, soname)>>, elf.arch)
=============================================================================
