---------------------------- MODULE PackageName -----------------------------
(***************************************************************************)
(* PkgName: what makeDetails takes a package's name apart into.  A name is *)
(* the sequence of its parts between dashes; the first part is not empty.  *)
(* The three calls of rfind and substr wrap around npos when dashes are    *)
(* missing: the cases below are what they then return.                     *)
(***************************************************************************)
EXTENDS Naturals, Sequences

\* name-with-dashes - version - arch - build, if the dashes are there.
Details(full) ==
  LET n == Len(full)
  IN [build   |-> <<full[n]>>,
      arch    |-> IF n = 1 THEN full ELSE <<full[n - 1]>>,
      version |-> IF n > 2 THEN <<full[n - 2]>> ELSE <<full[n]>>,
      name    |-> CASE n > 3 -> SubSeq(full, 1, n - 3)
                    [] n = 2 -> <<full[1]>>
                    [] OTHER -> full]

NameOf(full) == Details(full).name

\* fullName ().substr (name ().size () + 1) throws out_of_range if the name is
\* the whole of the full name.
HasRest(full) == NameOf(full) # full
=============================================================================
