------------------------------ MODULE ReadCpio ------------------------------
(***************************************************************************)
(* my-linux/tools/print_cpio.c: list the files of a cpio archive in the    *)
(* newc format, headers and contents padded to multiples of four bytes.    *)
(*                                                                         *)
(* Nothing compares the position with the length of the archive: only the  *)
(* trailer ends the loop.                                                  *)
(***************************************************************************)
EXTENDS Layout

CONSTANTS
    Archives \* the archives: sequences of records, the trailer not included

HEADER == 110 \* sizeof(struct cpio_newc_header)
TRAILER == [namesize |-> 11, filesize |-> 0, mode |-> "trailer"]
Files == [namesize : Nat, filesize : Nat, mode : STRING \ {"trailer"}]

\* No file is called like the trailer.
ASSUME CpioAssumption == \A a \in Archives : a \in Seq(Files)

VARIABLES
    archive, \* the files in the archive
    cpc,     \* "header", "name", "file" or "end"
    cpos,    \* pos, and ptr - p
    h,       \* the header that is read
    listed   \* the files printed, with the place of their content

cpioVars == <<archive, cpc, cpos, h, listed>>

CpioStart ==
    /\ cpc = "header" /\ cpos = 0
    /\ h = TRAILER
    /\ listed = <<>>

CpioInit == archive \in Archives /\ CpioStart

-----------------------------------------------------------------------------
(* The writer: the length of an entry is a multiple of four.               *)

Entry(n) == IF n <= Len(archive) THEN archive[n] ELSE TRAILER

RoundUp(n) == ((n + 3) \div 4) * 4
ContentAt(start, e) == start + RoundUp(HEADER + e.namesize)
EntrySize(e) == ContentAt(0, e) + RoundUp(e.filesize)
EntryAt(n) == Ends([k \in DOMAIN archive |-> EntrySize(archive[k])])[n - 1]

\* The header at a position: there is one only where an entry starts.
HeaderAt(at) == {Entry(n) : n \in {m \in 1..Len(archive) + 1 : EntryAt(m) = at}}

-----------------------------------------------------------------------------
(* The reader.                                                             *)

\* Mutant: a position that needs no padding is padded too.
PaddedTooMuch(n) == n + 4 - (n % 4)

Padded(n) == IF n % 4 > 0 THEN n + 4 - (n % 4) ELSE n

ReadHeader ==
    /\ cpc = "header"
    /\ h' \in HeaderAt(cpos)
    /\ cpos' = cpos + HEADER
    /\ cpc' = "name"
    /\ UNCHANGED <<archive, listed>>

ReadName ==
    /\ cpc = "name"
    /\ IF h = TRAILER
       THEN cpc' = "end" /\ UNCHANGED cpos
       ELSE cpc' = "file" /\ cpos' = Padded(cpos + h.namesize)
    /\ UNCHANGED <<archive, h, listed>>

ReadFile ==
    /\ cpc = "file"
    /\ cpos' = IF h.filesize > 0 THEN Padded(cpos + h.filesize) ELSE cpos
    /\ listed' = Append(listed, [file |-> h, at |-> cpos])
    /\ cpc' = "header"
    /\ UNCHANGED <<archive, h>>

CpioNext == ReadHeader \/ ReadName \/ ReadFile

CpioSpec == CpioInit /\ [][CpioNext]_cpioVars

-----------------------------------------------------------------------------
(* Properties.                                                             *)

\* Every header is read where one starts, so the loop gets to the trailer, and
\* what is printed as the content of a file is that file's, in order.
CpioInSync ==
    /\ cpc = "header" => HeaderAt(cpos) # {}
    /\ \A n \in DOMAIN listed :
          /\ n <= Len(archive)
          /\ listed[n].file = archive[n]
          /\ listed[n].at = ContentAt(EntryAt(n), archive[n])
    /\ cpc = "end" => Len(listed) = Len(archive)
===============================================================================
