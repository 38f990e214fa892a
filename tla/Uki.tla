-------------------------------- MODULE Uki ---------------------------------
(***************************************************************************)
(* scripts/make-uki.py: sections appended to a PE/COFF EFI application.  A *)
(* file is given by its length, where its section table starts, and the    *)
(* rows of the table; bytes have no contents here, only places.            *)
(***************************************************************************)
EXTENDS Integers, Sequences, FiniteSets, FiniteSetsExt

CONSTANTS UkiImages,   \* [len, table, rows]; a row is [va, vsize, raw, rawsize]
          UkiPayloads, \* sequences of lengths: .osrel, .cmdline
          UkiEntry,    \* bytes of a table row: 40
          FileAlign,   \* 0x200
          SecAlign     \* 0x1000

ASSUME UkiAssumption ==
  UkiEntry \in Nat \ {0} /\ FileAlign \in Nat \ {0} /\ SecAlign \in Nat \ {0}

TableRow == [va : Nat, vsize : Nat, raw : Nat, rawsize : Nat]
Apart(a, alen, b, blen) == a + alen <= b \/ b + blen <= a

\* A PE file that could be loaded before: its sections lie in the file and share
\* neither memory nor bytes.
WellFormed(img) ==
  /\ img.len \in Nat /\ img.table \in Nat
  /\ img.rows \in Seq(TableRow) /\ img.rows # <<>>
  /\ \A i \in DOMAIN img.rows : img.rows[i].raw + img.rows[i].rawsize <= img.len
  /\ \A i, j \in DOMAIN img.rows : i # j =>
       /\ Apart(img.rows[i].va, img.rows[i].vsize, img.rows[j].va, img.rows[j].vsize)
       /\ Apart(img.rows[i].raw, img.rows[i].rawsize, img.rows[j].raw, img.rows[j].rawsize)

ASSUME UkiFilesAssumption ==
  (\A img \in UkiImages : WellFormed(img)) /\ UkiPayloads \subseteq Seq(Nat)

VARIABLES
  ukPc,     \* "idle", "layout", "refused" or "done"
  ukImage,  \* data
  ukTodo,   \* the lengths of the sections still to be added
  ukRows,   \* the rows written so far
  ukLen,    \* len(out)
  ukVa,     \* va
  ukSize    \* SizeOfImage, -1 before it is written

ukVars == <<ukPc, ukImage, ukTodo, ukRows, ukLen, ukVa, ukSize>>

\* Up to the next multiple.
align(x, a) == ((x + a - 1) \div a) * a

NoImage == [len |-> 0, table |-> 0, rows |-> <<>>]

UkiInit ==
  /\ ukPc = "idle" /\ ukImage = NoImage /\ ukTodo = <<>> /\ ukRows = <<>>
  /\ ukLen = 0 /\ ukVa = 0 /\ ukSize = -1

\* raw_first: the least file offset in the table, sections without data included.
raw_first(img) == Min({img.rows[i].raw : i \in DOMAIN img.rows})

\* The end of the table, n rows added, lies behind raw_first.
TableOverruns(img, n) == img.table + UkiEntry * (Len(img.rows) + n) > raw_first(img)

\* The end of the image in memory; and the end of the last row of the table,
\* which need not be the highest.
LastRowEnd(img) == LET r == img.rows[Len(img.rows)] IN r.va + r.vsize
last_end(img) == Max({0} \cup {img.rows[i].va + img.rows[i].vsize : i \in DOMAIN img.rows})

\* add_sections, up to its loop.
UkiStart ==
  /\ ukPc = "idle"
  /\ ukImage' \in UkiImages
  /\ ukTodo' \in UkiPayloads
  /\ IF TableOverruns(ukImage', Len(ukTodo'))
     THEN ukPc' = "refused" /\ UNCHANGED <<ukLen, ukVa>>
     ELSE /\ ukPc' = "layout"
          /\ ukLen' = align(ukImage'.len, FileAlign)
          /\ ukVa' = align(last_end(ukImage'), SecAlign)
  /\ UNCHANGED <<ukRows, ukSize>>

\* One turn of the loop: the data appended, the row written.
UkiAdd ==
  /\ ukPc = "layout"
  /\ ukTodo # <<>>
  /\ LET size == Head(ukTodo)
         padded == align(size, FileAlign)
     IN /\ ukRows' = Append(ukRows, [va |-> ukVa, vsize |-> size, raw |-> ukLen, rawsize |-> padded])
        /\ ukLen' = ukLen + padded
        /\ ukVa' = align(ukVa + size, SecAlign)
  /\ ukTodo' = Tail(ukTodo)
  /\ UNCHANGED <<ukPc, ukImage, ukSize>>

\* NumberOfSections and SizeOfImage, and the file written.
UkiWrite ==
  /\ ukPc = "layout"
  /\ ukTodo = <<>>
  /\ ukPc' = "done"
  /\ ukSize' = ukVa
  /\ UNCHANGED <<ukImage, ukTodo, ukRows, ukLen, ukVa>>

UkiNext == UkiStart \/ UkiAdd \/ UkiWrite

UkiSpec == UkiInit /\ [][UkiNext]_ukVars

-----------------------------------------------------------------------------
AllRows == ukImage.rows \o ukRows

\* Lengths and places are natural numbers, a section's data fits the space the
\* file has for it, and the file holds every section.
UkiTypeOK ==
  /\ ukPc \in {"idle", "layout", "refused", "done"}
  /\ ukLen \in Nat /\ ukVa \in Nat /\ ukSize \in Nat \cup {-1}
  /\ \A i \in DOMAIN ukRows :
       LET r == ukRows[i] IN
       /\ r.rawsize >= r.vsize
       /\ r.raw + r.rawsize <= ukLen

\* A file that was written can be loaded: no two sections share memory or
\* bytes of the file, every new one starts at a section boundary inside
\* SizeOfImage, and the longer table covers no section's data.
UkiLoads ==
  ukPc = "done" =>
    /\ \A i, j \in DOMAIN AllRows : i # j =>
         /\ Apart(AllRows[i].va, AllRows[i].vsize, AllRows[j].va, AllRows[j].vsize)
         /\ Apart(AllRows[i].raw, AllRows[i].rawsize, AllRows[j].raw, AllRows[j].rawsize)
    /\ \A i \in DOMAIN AllRows : AllRows[i].va + AllRows[i].vsize <= ukSize
    /\ \A i \in DOMAIN ukRows : ukRows[i].va % SecAlign = 0
    /\ \A i \in DOMAIN AllRows :
         AllRows[i].rawsize > 0 => ukImage.table + UkiEntry * Len(AllRows) <= AllRows[i].raw

=============================================================================
