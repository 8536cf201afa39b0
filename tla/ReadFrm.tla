------------------------------- MODULE ReadFrm -------------------------------
(***************************************************************************)
(* mysql/read-frm.c: print a MySQL table definition, a file of sections.   *)
(*                                                                         *)
(* A table is what its definition contains; where the writer puts each     *)
(* section follows from it.  The reader goes through the file with one     *)
(* pointer p and has to arrive at each section from what it read before.   *)
(***************************************************************************)
EXTENDS Layout

CONSTANTS
    Tables, \* the tables
    MaxKeys, MaxSegs, MaxCols \* MAX_KEYS, MAX_SEGS, MAX_COLS

TableType ==
    [keys : Seq([segs : Nat, name : Nat]), columns : Seq(Nat), recordLen : Nat,
     connect : Nat, engine : Nat, comment : Nat, longComment : Nat,
     screens : Nat, infoLen : Nat]

ASSUME FrmAssumption == \A table \in Tables : table \in TableType

IO_SIZE == 4096
IoSize(n) == ((n + IO_SIZE - 1) \div IO_SIZE) * IO_SIZE \* next_io_size
Word == 65536

VARIABLES
    frm, \* the table
    fpc, \* the section that is read
    fp,   \* the position in the file
    fi,   \* the index of the loops
    forminfoOffset

frmVars == <<frm, fpc, fp, fi, forminfoOffset>>

-----------------------------------------------------------------------------
(* The writer, as the comments and the offsets of the reader have it.       *)

\* The sections behind the definitions of the keys, in the order of the file:
\* the default record, the connect string, the name of the engine, the comment
\* when it is too long for the forminfo.
KeysSize == 6 + End([k \in DOMAIN frm.keys |-> 8 + 9 * frm.keys[k].segs])
NamesSize == 1 + End([k \in DOMAIN frm.keys |-> frm.keys[k].name + 1])
KeybuffLen == KeysSize + NamesSize + 9
RecordAt  == IO_SIZE + KeybuffLen
ConnectAt == RecordAt + frm.recordLen
DbTypeAt  == ConnectAt + 2 + frm.connect
CommentAt == DbTypeAt + 2 + frm.engine + 6
ExtraSize == CommentAt - ConnectAt
             + (IF frm.comment = 255 THEN 2 + frm.longComment ELSE 0)

\* make_new_entry: the forminfo goes behind all that, and fileinfo[10] says
\* where the file ends then.
FilePos    == IoSize(ConnectAt + ExtraSize)
MaxLength  == IoSize(frm.infoLen + 1000)
FileEnd    == FilePos + MaxLength
ColumnsAt  == FilePos + 288 + frm.screens
ColNamesAt == ColumnsAt + 17 * Len(frm.columns) + 1

-----------------------------------------------------------------------------
(* The reader.                                                             *)

FrmStart ==
    /\ fpc = "fileinfo"
    /\ fp = 0 /\ fi = 1
    /\ forminfoOffset = 0

FrmInit == frm \in Tables /\ FrmStart

Goto(label, at) == fpc' = label /\ fp' = at /\ fi' = 1

exitFrm == fpc' = "exit" /\ UNCHANGED <<fp, fi>>

\* The fileinfo and the head of the keybuff: two bytes of fileinfo[10] are read.
ReadFileinfo ==
    /\ fpc = "fileinfo"
    /\ forminfoOffset' = ((FileEnd % Word) - IO_SIZE) % Word
    /\ IF Len(frm.keys) > MaxKeys THEN exitFrm
                                   ELSE Goto("keys", IO_SIZE + 6)
    /\ UNCHANGED frm

\* Mutant: a key is taken to have one column.
ReadKeyNoSegs ==
    /\ fpc = "keys"
    /\ IF fi > Len(frm.keys) THEN Goto("key_names", fp + 1)
       ELSE IF frm.keys[fi].segs > MaxSegs THEN exitFrm
       ELSE fp' = fp + 8 + 9 /\ fi' = fi + 1 /\ UNCHANGED fpc
    /\ UNCHANGED <<frm, forminfoOffset>>

\* One key and its columns; after the last, over the separator to the names.
ReadKey ==
    /\ fpc = "keys"
    /\ IF fi > Len(frm.keys) THEN Goto("key_names", fp + 1)
       ELSE IF frm.keys[fi].segs > MaxSegs THEN exitFrm
       ELSE fp' = fp + 8 + 9 * frm.keys[fi].segs /\ fi' = fi + 1 /\ UNCHANGED fpc
    /\ UNCHANGED <<frm, forminfoOffset>>

ReadKeyName ==
    /\ fpc = "key_names"
    /\ IF fi > Len(frm.keys) THEN Goto("forminfo", forminfoOffset)
       ELSE fp' = fp + frm.keys[fi].name + 1 /\ fi' = fi + 1 /\ UNCHANGED fpc
    /\ UNCHANGED <<frm, forminfoOffset>>

\* The forminfo; main has then all it needs to print the keys.
ReadForminfo ==
    /\ fpc = "forminfo"
    /\ IF Len(frm.columns) > MaxCols THEN exitFrm
                                      ELSE Goto("record", IO_SIZE + KeybuffLen)
    /\ UNCHANGED <<frm, forminfoOffset>>

ReadRecord ==
    /\ fpc = "record"
    /\ Goto("connect", fp + frm.recordLen)
    /\ UNCHANGED <<frm, forminfoOffset>>

ReadConnect ==
    /\ fpc = "connect"
    /\ Goto("db_type", fp + 2 + frm.connect)
    /\ UNCHANGED <<frm, forminfoOffset>>

ReadDbType ==
    /\ fpc = "db_type"
    /\ Goto("comment", fp + 2 + frm.engine + 6)
    /\ UNCHANGED <<frm, forminfoOffset>>

\* The comment is here only when the forminfo says 255; the columns follow the
\* forminfo and its screens.
ReadComment ==
    /\ fpc = "comment"
    /\ Goto("columns", forminfoOffset + 288 + frm.screens)
    /\ UNCHANGED <<frm, forminfoOffset>>

ReadColumn ==
    /\ fpc = "columns"
    /\ IF fi > Len(frm.columns) THEN Goto("column_names", fp + 1)
       ELSE fp' = fp + 17 /\ fi' = fi + 1 /\ UNCHANGED fpc
    /\ UNCHANGED <<frm, forminfoOffset>>

ReadColumnName ==
    /\ fpc = "column_names"
    /\ IF fi > Len(frm.columns) THEN fpc' = "done" /\ UNCHANGED <<fp, fi>>
       ELSE fp' = fp + frm.columns[fi] + 1 /\ fi' = fi + 1 /\ UNCHANGED fpc
    /\ UNCHANGED <<frm, forminfoOffset>>

FrmNext ==
    \/ ReadFileinfo
    \/ ReadKey
    \/ ReadKeyName
    \/ ReadForminfo
    \/ ReadRecord
    \/ ReadConnect
    \/ ReadDbType
    \/ ReadComment
    \/ ReadColumn
    \/ ReadColumnName

FrmSpec == FrmInit /\ [][FrmNext]_frmVars

-----------------------------------------------------------------------------
(* Properties.                                                             *)

\* The reader's pointer is where the writer put the section it reads next,
\* key by key and name by name.
FrmInSync ==
    CASE fpc = "keys"      -> fi > Len(frm.keys) => fp = IO_SIZE + KeysSize
      [] fpc = "key_names" -> fi > Len(frm.keys) =>
                                 fp = IO_SIZE + KeysSize + NamesSize
      [] fpc = "record"    -> fp = RecordAt
      [] fpc = "connect"   -> fp = ConnectAt
      [] fpc = "db_type"   -> fp = DbTypeAt
      [] fpc = "comment"   -> fp = CommentAt
      [] fpc = "columns" /\ fi = 1      -> fp = ColumnsAt
      [] fpc = "column_names" /\ fi = 1 -> fp = ColNamesAt
      [] OTHER -> TRUE

\* The forminfo is read where the writer put it: fileinfo[10] minus the length
\* that make_new_entry set aside for it, which the code takes to be 0x1000.
ForminfoFound == fpc \notin {"fileinfo", "exit"} => forminfoOffset = FilePos
===============================================================================
