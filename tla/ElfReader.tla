----------------------------- MODULE ElfReader ------------------------------
(***************************************************************************)
(* The part of ELFIO the program uses: elfio::load and the accessor of the *)
(* dynamic section.                                                        *)
(*                                                                         *)
(* An image is what a file holds: its identification, the fields of its    *)
(* header, its section and program headers, and its size.  Sizes and       *)
(* offsets count units of one header or one entry, so that a file can end  *)
(* inside any of its parts.  One stream reads everything: a read past the  *)
(* end sets its fail bit, and every later read returns nothing.            *)
(***************************************************************************)
EXTENDS Naturals, Sequences, SequencesExt

HeaderSize == 1

InFile(img, off, n) == off + n <= img.size

\* The tags whose value is an offset into the linked string section.
StringTags == {"NEEDED", "SONAME", "RPATH", "RUNPATH"}

NullSection ==
  [type |-> "NULL", off |-> 0, size |-> 0, link |-> 0, entsize |-> 0,
   data |-> <<>>, loaded |-> FALSE]

\* The sizes in a section's header are numbers.
HasSizes(img) ==
  /\ img.sections \in Seq(ToSet(img.sections))
  /\ \A s \in ToSet(img.sections) :
       DOMAIN s = DOMAIN NullSection /\ s.size \in Nat /\ s.entsize \in Nat

-----------------------------------------------------------------------------
(* elfio::load_sections and section_impl::load.                            *)

\* A section header entry that is too short ends load_sections at once; its
\* result is not looked at.
SectionsNum(img) == IF img.shentOk THEN Len(img.sections) ELSE 0

\* load_data reads a section only if it is smaller than the file.
IsToRead(img, s) ==
  /\ s.type \notin {"NULL", "NOBITS"}
  /\ s.size < img.size
  /\ s.size # 0

HeaderInFile(img, i) == InFile(img, img.shoff + i - 1, 1)

\* StreamGood(img)[i]: no read has failed after the first i sections.
StreamGood(img) ==
  LET good[i \in 0..SectionsNum(img)] ==
        \/ i = 0
        \/ /\ good[i - 1]
           /\ HeaderInFile(img, i)
           /\ IsToRead(img, img.sections[i]) =>
                InFile(img, img.sections[i].off, img.sections[i].size)
  IN good

SectionAt(img, i) ==
  LET s == img.sections[i]
  IN IF StreamGood(img)[i - 1] /\ HeaderInFile(img, i)
     THEN [s EXCEPT !.loaded = IsToRead(img, s) /\ InFile(img, s.off, s.size)]
     ELSE NullSection

-----------------------------------------------------------------------------
(* elfio::load_segments and segment_impl::load.                            *)

\* A segment larger than the file is left without data and counts as read.
SegmentReads(img, i) ==
  LET s == img.segments[i]
  IN /\ InFile(img, img.phoff + i - 1, 1)
     /\ \/ s.size = 0
        \/ s.size > img.size
        \/ InFile(img, s.off, s.size)

\* Mutant: the stream is not asked whether a read has failed.
LoadSegmentsUnchecked(img) == img.segments = <<>> \/ img.phentOk

LoadSegments(img) ==
  \/ img.segments = <<>>
  \/ /\ img.phentOk
     /\ StreamGood(img)[SectionsNum(img)]
     /\ \A i \in 1..Len(img.segments) : SegmentReads(img, i)

\* elfio::load: what load_sections returns is dropped, what load_segments
\* returns is the result.
Loads(img) ==
  /\ img.ident
  /\ InFile(img, 0, HeaderSize)
  /\ LoadSegments(img)

-----------------------------------------------------------------------------
(* dynamic_section_accessor and string_section_accessor.                   *)

\* Without data every entry reads as DT_NULL.
RawEntry(sec, i) ==
  IF sec.loaded THEN sec.data[i] ELSE [tag |-> "NULL", value |-> 0]

\* The entries up to and with the first DT_NULL.
EntriesNum(sec) ==
  LET n == IF sec.entsize = 0 THEN 0 ELSE sec.size \div sec.entsize
      nulls == {i \in 1..n : RawEntry(sec, i).tag = "NULL"}
  IN IF nulls = {} THEN n ELSE CHOOSE i \in nulls : \A j \in nulls : i <= j

\* The section's link is cut to 16 bits; sections[] returns nullptr for an
\* index out of range, and get_string copes with it.
HasString(img, sec, value) ==
  LET link == sec.link % 65536
  IN /\ link < SectionsNum(img)
     /\ LET str == SectionAt(img, link + 1)
        IN str.loaded /\ value \in DOMAIN str.data

\* get_entry: a string that is not found is empty, and the tag is set all the
\* same: the caller does not look at the result.
Entry(img, sec, i) ==
  LET raw == RawEntry(sec, i)
      found == HasString(img, sec, raw.value)
      empty == IF raw.tag \in {"RPATH", "RUNPATH"} THEN <<>> ELSE ""
  IN [tag |-> raw.tag,
      str |-> IF raw.tag \in StringTags /\ found
              THEN SectionAt(img, (sec.link % 65536) + 1).data[raw.value]
              ELSE empty]
=============================================================================
