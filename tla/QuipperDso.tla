------------------------------ MODULE QuipperDso ------------------------------
(***************************************************************************)
(* quipper's build-id lookup (chromiumos-wide-profiling/dso.cc):           *)
(* ReadElfBuildId() opens an ELF file, FindElfSection() picks the note     *)
(* section by a preference list, and GetBuildID() walks its notes for the  *)
(* GNU build-id note.  An ELF file is a record: what open()/elf_begin()    *)
(* make of it, whether the section-name string table is there, whether    *)
(* elf_getdata() can read the chosen note section, and its                 *)
(* sections in order, each a name (or Unreadable when elf_strptr() fails)  *)
(* and its notes as gelf_getnote() returns them, the name already cut at   *)
(* n_namesz by strnlen().  libelf is taken to be right.                    *)
(***************************************************************************)
EXTENDS Naturals, Sequences

Unreadable == "<no name>"

\* kNoteSectionNames, most preferred first.
kNoteSectionNames == <<".note.gnu.build-id", ".notes", ".note">>

NT_GNU_BUILD_ID == 3
ELF_NOTE_GNU == "GNU"

NoBuildId == [ok |-> FALSE, id |-> 0]

\* std::find(names.begin(), names.end(), name), as a position (end is one
\* past the last).
Find(name) ==
  IF \E k \in 1..Len(kNoteSectionNames) : kNoteSectionNames[k] = name
    THEN CHOOSE k \in 1..Len(kNoteSectionNames) : kNoteSectionNames[k] = name
    ELSE Len(kNoteSectionNames) + 1

\* Mutant: found <= best_match, so a later section of the same preference
\* replaces an earlier one.
RECURSIVE FindLoopLastMatch(_, _, _, _)
FindLoopLastMatch(secs, i, best_match, best_sec) ==
  IF i > Len(secs) THEN best_sec
  ELSE IF secs[i].name = Unreadable THEN 0
  ELSE LET found == Find(secs[i].name) IN
       IF found <= best_match
         THEN IF found = 1 THEN i ELSE FindLoopLastMatch(secs, i + 1, found, i)
         ELSE FindLoopLastMatch(secs, i + 1, best_match, best_sec)

\* The elf_nextscn() loop of FindElfSection(): 0 is nullptr.  A section
\* whose name cannot be read ends the search with nullptr; the most
\* preferred name returns at once; otherwise a better match replaces the
\* best one so far.
RECURSIVE FindLoop(_, _, _, _)
FindLoop(secs, i, best_match, best_sec) ==
  IF i > Len(secs) THEN best_sec
  ELSE IF secs[i].name = Unreadable THEN 0
  ELSE LET found == Find(secs[i].name) IN
       IF found < best_match
         THEN IF found = 1 THEN i ELSE FindLoop(secs, i + 1, found, i)
         ELSE FindLoop(secs, i + 1, best_match, best_sec)

\* FindElfSection(elf, kNoteSectionNames): nullptr when the section-name
\* string table cannot be read.
FindElfSection(elf) ==
  IF ~elf.strtab THEN 0
  ELSE FindLoop(elf.sections, 1, Len(kNoteSectionNames) + 1, 0)

\* The gelf_getnote() loop of GetBuildID(): the first note of type
\* NT_GNU_BUILD_ID named "GNU".
RECURSIVE NoteLoop(_, _)
NoteLoop(notes, off) ==
  IF off > Len(notes) THEN NoBuildId
  ELSE IF notes[off].type = NT_GNU_BUILD_ID /\ notes[off].name = ELF_NOTE_GNU
         THEN [ok |-> TRUE, id |-> notes[off].desc]
         ELSE NoteLoop(notes, off + 1)

\* GetBuildID(elf): only an ELF object (elf_kind() is ELF_K_ELF) with a
\* note section whose data elf_getdata() returns.
GetBuildID(elf) ==
  LET sec == FindElfSection(elf) IN
  IF elf.kind # "elf" \/ sec = 0 \/ ~elf.getdata THEN NoBuildId
  ELSE NoteLoop(elf.sections[sec].notes, 1)

\* ReadElfBuildId(filename): false when open() or elf_begin() fails.
ReadElfBuildId(file) ==
  IF file.kind = "unreadable" THEN NoBuildId ELSE GetBuildID(file)
=============================================================================
