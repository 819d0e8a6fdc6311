------------------------------ MODULE MCImages ------------------------------
(***************************************************************************)
(* ELF images and nodes for small file systems.  An image is laid out as a *)
(* linker does it: header, program headers, strings, dynamic section,      *)
(* section headers; cut units are missing at its end.                      *)
(***************************************************************************)
EXTENDS Sequences, Naturals, TLC

Dyn(tag, value) == [tag |-> tag, value |-> value]

ImageSection(t, off, size, link, data) ==
  [type |-> t, off |-> off, size |-> size, link |-> link,
   entsize |-> IF t = "DYNAMIC" THEN 1 ELSE 0, data |-> data, loaded |-> FALSE]

ImageOfWidth(class, strings, t, dyn, link, cut) ==
  LET d == 2 + Len(strings)
      s == d + Len(dyn)
  IN [ident |-> TRUE, class |-> class, type |-> t, size |-> s + 3 - cut, cut |-> cut,
      phoff |-> 1, phentOk |-> TRUE, shoff |-> s, shentOk |-> TRUE,
      segments |-> <<[off |-> 0, size |-> s]>>,
      sections |-> <<ImageSection("NULL", 0, 0, 0, <<>>),
                     ImageSection("STRTAB", 2, Len(strings), 0, strings),
                     ImageSection("DYNAMIC", d, Len(dyn), link, dyn)>>]

Dir == [type |-> "ISDIR"]
LinkTo(p) == [type |-> "ISLNK", to |-> p]
=============================================================================
