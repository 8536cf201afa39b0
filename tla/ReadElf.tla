------------------------------ MODULE ReadElf ------------------------------
(***************************************************************************)
(* my-linux/tools/print_elf64.c: print the segments of an ELF file with    *)
(* their notes, its sections and the tables found among them.              *)
(*                                                                         *)
(* The file is mapped and nothing is compared with its length: every       *)
(* pointer is right only if what was read before leads there.              *)
(***************************************************************************)
EXTENDS Layout

CONSTANTS
    ElfFiles,    \* the files
    StackValues, \* what pt_note_count may hold before it is assigned
    Undef        \* NULL

SegmentType ==
    [type : STRING, notes : Seq([name : Nat, desc : Nat]), tags : Nat]
SectionType ==
    [type : STRING, name : STRING, symbols : Seq(Nat), count : Nat]
ElfType ==
    [segments : Seq(SegmentType), sections : Seq(SectionType), shstrndx : Nat]

ASSUME ElfAssumption ==
    /\ \A file \in ElfFiles : file \in ElfType
    /\ StackValues \subseteq Int
    /\ Undef \notin Nat

Names == {".strtab", ".dynstr", ".got", ".got.plt"}

VARIABLES
    elf,         \* the file
    epc,         \* the loop main is in
    ei, ej,      \* the indexes of the outer and the inner loop, from 0
    notes,       \* pt_note - (f + ph->p_offset)
    noteCount,   \* pt_note_count, which nothing initializes
    found        \* name_sh, symtab_sh and the like: indexes of sections

elfVars == <<elf, epc, ei, ej, notes, noteCount, found>>

ElfStart ==
    /\ epc = "segments"
    /\ ei = 0 /\ ej = 0
    /\ notes = 0
    /\ found = [t \in Names \cup {"names", "symtab", "dynsym"} |-> Undef]

ElfInit == elf \in ElfFiles /\ noteCount \in StackValues /\ ElfStart

-----------------------------------------------------------------------------
(* The file.                                                               *)

Padded4(n) == ((n + 3) \div 4) * 4

\* Where the notes of a segment start: header, name and description, the last
\* two padded to four bytes.
NoteSize(note) == 12 + Padded4(note.name) + Padded4(note.desc)
NoteStart(ph, n) ==
    Ends([k \in DOMAIN ph.notes |-> NoteSize(ph.notes[k])])[n - 1]
FileSize(ph) == NoteStart(ph, Len(ph.notes) + 1)

\* Notes the reader is made for: no padding, lengths that fit in a byte.
Plain(ph) ==
    \A n \in DOMAIN ph.notes :
        LET note == ph.notes[n]
        IN /\ note.name % 4 = 0 /\ note.name < 256
           /\ note.desc % 4 = 0 /\ note.desc < 256

-----------------------------------------------------------------------------
(* The segments.                                                           *)

Segment == elf.segments[ei + 1]

NextSegment == ei' = ei + 1 /\ epc' = "segments" /\ UNCHANGED ej

\* The line of a segment; a note segment and the dynamic segment have more.
ReadSegment ==
    /\ epc = "segments"
    /\ IF ei = Len(elf.segments)
       THEN epc' = "names" /\ UNCHANGED <<ei, ej, notes>>
       ELSE CASE Segment.type = "NOTE" ->
                   epc' = "notes" /\ notes' = 0 /\ UNCHANGED <<ei, ej>>
              [] Segment.type = "DYNAMIC" ->
                   epc' = "dynamic" /\ ej' = 0 /\ UNCHANGED <<ei, notes>>
              [] OTHER -> NextSegment /\ UNCHANGED notes
    /\ UNCHANGED <<elf, noteCount, found>>

\* (u32)(*pt_note) is one byte: the low byte of a length when a note starts
\* here, and anything when the reader has lost its place.
LengthAt(at, field) ==
    LET here == {n \in DOMAIN Segment.notes : NoteStart(Segment, n) = at}
    IN IF here = {} THEN {0, 4, 255}
       ELSE {Segment.notes[n][field] % 256 : n \in here}

\* Mutant: the type of a note is not counted.
ReadNoteNoType ==
    /\ epc = "notes"
    /\ IF noteCount \in 0 .. FileSize(Segment) - 1
       THEN /\ \E name \in LengthAt(notes, "name"), desc \in LengthAt(notes, "desc") :
                  /\ notes' = notes + 12 + name + desc
                  /\ noteCount' = noteCount + 8 + name + desc
            /\ UNCHANGED <<epc, ei, ej>>
       ELSE NextSegment /\ UNCHANGED <<notes, noteCount>>
    /\ UNCHANGED <<elf, found>>

\* One note.  pt_note_count is compared with an unsigned long: a negative one
\* is a large one.  It is not reset for the next segment.
ReadNote ==
    /\ epc = "notes"
    /\ IF noteCount \in 0 .. FileSize(Segment) - 1
       THEN /\ \E name \in LengthAt(notes, "name"), desc \in LengthAt(notes, "desc") :
                  /\ notes' = notes + 12 + name + desc
                  /\ noteCount' = noteCount + 12 + name + desc
            /\ UNCHANGED <<epc, ei, ej>>
       ELSE NextSegment /\ UNCHANGED <<notes, noteCount>>
    /\ UNCHANGED <<elf, found>>

\* One tag of the dynamic segment, up to DT_NULL.
ReadDynamic ==
    /\ epc = "dynamic"
    /\ IF ej < Segment.tags THEN ej' = ej + 1 /\ UNCHANGED <<epc, ei>>
                            ELSE NextSegment
    /\ UNCHANGED <<elf, notes, noteCount, found>>

-----------------------------------------------------------------------------
(* The sections.                                                           *)

Section(n) == elf.sections[n + 1]

FindNames ==
    /\ epc = "names"
    /\ IF elf.shstrndx # 0 THEN found' = [found EXCEPT !["names"] = elf.shstrndx]
                           ELSE UNCHANGED found
    /\ epc' = "sections" /\ ei' = 0
    /\ UNCHANGED <<elf, ej, notes, noteCount>>

\* Mutant: .strtab and .dynstr are known without their names being read.
FoundAtUnnamed(n) ==
    LET sh == Section(n)
    IN {t \in DOMAIN found :
          \/ t \in {".strtab", ".dynstr"} /\ sh.name = t /\ sh.type = "STRTAB"
          \/ t \in {".got", ".got.plt"} /\ found["names"] # Undef /\ sh.name = t
          \/ t = "symtab" /\ sh.type = "SYMTAB"
          \/ t = "dynsym" /\ sh.type = "DYNSYM"}

\* The pointers that are set to a section: those that go by the name of it
\* only if there are names.
FoundAt(n) ==
    LET sh == Section(n)
    IN {t \in DOMAIN found :
          \/ /\ found["names"] # Undef
             /\ t \in Names /\ sh.name = t
             /\ t \in {".strtab", ".dynstr"} => sh.type = "STRTAB"
          \/ t = "symtab" /\ sh.type = "SYMTAB"
          \/ t = "dynsym" /\ sh.type = "DYNSYM"}

\* A line for a section; relocations name two sections first, through name_sh
\* whether there is one or not.
ReadSection ==
    /\ epc = "sections"
    /\ IF ei = Len(elf.sections)
       THEN epc' = "symtab" /\ ei' = 0 /\ UNCHANGED <<ej, found>>
       ELSE /\ found' = [t \in DOMAIN found |-> IF t \in FoundAt(ei) THEN ei
                                                                  ELSE found[t]]
            /\ IF Section(ei).type # "RELA"
               THEN ei' = ei + 1 /\ UNCHANGED <<epc, ej>>
               ELSE IF found["names"] = Undef
               THEN epc' = "killed" /\ UNCHANGED <<ei, ej>>
               ELSE epc' = "rela" /\ ej' = 0 /\ UNCHANGED ei
    /\ UNCHANGED <<elf, notes, noteCount>>

\* One relocation: the pointer is moved before it is read, from the second on.
ReadRela ==
    /\ epc = "rela"
    /\ IF ej < Section(ei).count - 1
       THEN ej' = ej + 1 /\ UNCHANGED <<epc, ei>>
       ELSE ei' = ei + 1 /\ epc' = "sections" /\ UNCHANGED ej
    /\ UNCHANGED <<elf, notes, noteCount, found>>

\* What is printed after the sections, in that order, and the pointers that
\* have to be set for it.
Tables4 == <<"symtab", "dynsym", ".got", ".got.plt">>
Needed(t) == CASE t = "symtab" -> {"symtab", ".strtab"}
               [] t = "dynsym" -> {"dynsym", ".dynstr"}
               [] OTHER        -> {t}

NextTable ==
    /\ ei' = 0
    /\ epc' = IF epc = ".got.plt" THEN "done"
              ELSE Tables4[1 + CHOOSE n \in 1..3 : Tables4[n] = epc]

InTable(t) ==
    /\ epc = t
    /\ \A s \in Needed(t) : found[s] # Undef
    /\ ei < Section(found[t]).count

\* A symbol: the section it is defined in is named if its index is small.
Symbol == Section(found[epc]).symbols[ei + 1]
NamesSection == Symbol > 0 /\ Symbol < Len(elf.sections) - 1

ReadTable ==
    /\ epc \in {Tables4[n] : n \in 1..4}
    /\ IF InTable(epc)
       THEN /\ ei' = ei + 1
            /\ epc' = IF epc \in {"symtab", "dynsym"} /\ NamesSection
                         /\ found["names"] = Undef
                      THEN "killed" ELSE epc
       ELSE NextTable
    /\ UNCHANGED <<elf, ej, notes, noteCount, found>>

ElfNext ==
    \/ ReadSegment
    \/ ReadNote
    \/ ReadDynamic
    \/ FindNames
    \/ ReadSection
    \/ ReadRela
    \/ ReadTable

ElfSpec == ElfInit /\ [][ElfNext]_elfVars

-----------------------------------------------------------------------------
(* Properties.                                                             *)

\* What print_elf64 reads lies inside what it reads it from, though it never
\* looks at the length of the file: the notes it prints end with their segment,
\* whatever pt_note_count held before the first of them, if no note is padded
\* and no length needs two bytes; the relocations end with their section; and
\* the missing name table kills it only at a section of relocations.
ElfReadsInside ==
    /\ epc = "notes" /\ Plain(Segment) => notes <= FileSize(Segment)
    /\ epc = "rela"  => ej < Section(ei).count \/ ej = 0
    /\ epc = "killed" => /\ found["names"] = Undef
                         /\ Section(ei).type = "RELA"
===============================================================================
