----------------------------- MODULE NativeDiff -----------------------------
(***************************************************************************)
(* scripts/fndiff.py and scripts/reloproof.py: two builds of the image     *)
(* compared function by function, and the differences shown to be          *)
(* relocation.  Their input is what mvm/cross.lisp write-symmap writes for *)
(* the functions translate-x64 or translate-aarch64 laid out: before each  *)
(* function a call pad of 16 bytes, and in the map one row per function,   *)
(* from its entry to the next row's.  A build is given here by its         *)
(* functions, lists of instructions, and the bytes follow from them, so    *)
(* that a verdict on bytes can be held against what was compiled.  Calls   *)
(* of the runtime code and constants moved as 64-bit immediates are bytes  *)
(* like any other.                                                         *)
(***************************************************************************)
EXTENDS Integers, Sequences, FiniteSets, FiniteSetsExt, SequencesExt, TLC

CONSTANT NativeBuilds \* [arch, fns]: fns a sequence of [name, req, ops]

VARIABLES
  ndBase, ndNew, \* the builds compared
  ndFiles,       \* what each wrote: [code, rows], the image and its symbol map
  ndDiff,        \* what fndiff said
  ndRelo         \* what reloproof said

ndVars == <<ndBase, ndNew, ndFiles, ndDiff, ndRelo>>

NotRun == [exit |-> -1]

-----------------------------------------------------------------------------
(* The builds.  An instruction [how, bytes, to] is a direct call of a       *)
(* function (how = "call"), the loading of its address ("ref"), or bytes    *)
(* that refer to nothing ("").                                              *)

nop(arch) == IF arch = "aa64" THEN <<31, 32, 3, 213>> ELSE <<144>>
FnAlign == 16
Padded(n) == FnAlign * ((n + FnAlign - 1) \div FnAlign)

\* Direct calls enter here and #'NAME is the address behind it.  It says how
\* many arguments come before a &rest list that a caller may pack.
NoReq == -1
CallPad(arch, req) ==
  IF arch = "aa64"
  THEN LET inert == <<241, 3, 17, 170>>
           packed == 671761 + 32 * req
       IN inert \o inert \o inert \o
          (IF req = NoReq THEN inert
           ELSE <<packed % 256, (packed \div 256) % 256, 128 + packed \div 65536, 210>>)
  ELSE LET NopSpelling(letter, count) == <<15, 31, 132, 0, 75, letter, count, 68>>
       IN NopSpelling(80, 65) \o (IF req = NoReq THEN NopSpelling(80, 65) ELSE NopSpelling(82, req))

\* The runtime code behind the last function.
Runtime(arch) == IF arch = "aa64" THEN <<192, 3, 95, 214>> ELSE <<195>>

opcode == [call |-> <<232>>, ref |-> <<72, 141, 5>>]
OpSize(op) == IF op.how = "" THEN Len(op.bytes) ELSE Len(opcode[op.how]) + 4
BodySize(fn) == MapThenSumSet(LAMBDA h : OpSize(fn.ops[h]), DOMAIN fn.ops)
Label(fns, i) == MapThenSumSet(LAMBDA j : FnAlign + Padded(BodySize(fns[j])), 1..(i - 1))
Entry(fns, i) == Label(fns, i) + FnAlign

\* The compiler's table has the last definition of a name.
LastDef(fns, name) == Max({i \in DOMAIN fns : fns[i].name = name})

\* Little-endian, 32 bits, two's complement.
rel32(v) == <<v % 256, (v \div 256) % 256, (v \div 65536) % 256, (v \div 16777216) % 256>>

OpBytes(fns, i, h) ==
  LET op == fns[i].ops[h]
      callee == LastDef(fns, op.to)
      end == Entry(fns, i) + MapThenSumSet(LAMBDA g : OpSize(fns[i].ops[g]), 1..h)
  IN CASE op.how = ""     -> op.bytes
       [] op.how = "call" -> opcode.call \o rel32(Label(fns, callee) - end)
       [] op.how = "ref"  -> opcode.ref \o rel32(Entry(fns, callee) - end)

Body(fns, i) == FlattenSeq([h \in DOMAIN fns[i].ops |-> OpBytes(fns, i, h)])

\* aarch64 aligns before a function only, x86-64 behind the last one too.
Alignment(b, i) ==
  IF b.arch = "aa64" /\ i = Len(b.fns) THEN <<>>
  ELSE FlattenSeq([p \in 1..((Padded(BodySize(b.fns[i])) - BodySize(b.fns[i])) \div Len(nop(b.arch)))
                     |-> nop(b.arch)])

native(b) ==
  FlattenSeq([i \in DOMAIN b.fns |->
                CallPad(b.arch, b.fns[i].req) \o Body(b.fns, i) \o Alignment(b, i)])
  \o Runtime(b.arch)

\* x86-64's map from functions to entries is by name, and the last definition
\* of a name overwrites the others'; aarch64's is by definition, and marks
\* where the runtime code begins.
NativeOffset(b, i) ==
  Entry(b.fns, IF b.arch = "aa64" THEN i ELSE LastDef(b.fns, b.fns[i].name))
Marks(b) ==
  IF b.arch = "aa64" THEN <<[off |-> Len(native(b)) - Len(Runtime(b.arch)), name |-> "<runtime>"]>>
  ELSE <<>>

StableSort(rows) ==
  LET order == SortSeq([i \in DOMAIN rows |-> i],
                       LAMBDA i, j : \/ rows[i].off < rows[j].off
                                     \/ rows[i].off = rows[j].off /\ i < j)
  IN [i \in DOMAIN rows |-> rows[order[i]]]

\* write-symmap: a row's size is the distance to the next row.
write_symmap(b) ==
  LET rows == StableSort([i \in DOMAIN b.fns |-> [off |-> NativeOffset(b, i), name |-> b.fns[i].name]]
                         \o Marks(b))
      NextOff(i) == IF i < Len(rows) THEN rows[i + 1].off ELSE Len(native(b))
  IN [i \in DOMAIN rows |->
        [size |-> NextOff(i) - rows[i].off, off |-> rows[i].off, name |-> rows[i].name]]

-----------------------------------------------------------------------------
(* Both scripts. *)

\* A row's key: its name or name#n; and one that takes the name alone.
NameKey(rows, i) == rows[i].name
RowKey(rows, i) ==
  LET seen == Cardinality({j \in 1..i : rows[j].name = rows[i].name})
  IN IF seen = 1 THEN rows[i].name ELSE rows[i].name \o "#" \o ToString(seen)

\* load: the rows by native offset, a later one replacing one of its key.
load(files) ==
  LET rows == StableSort(files.rows)
      At(k) == Max({i \in DOMAIN rows : RowKey(rows, i) = k})
  IN [k \in {RowKey(rows, i) : i \in DOMAIN rows} |->
        LET row == rows[At(k)]
        IN [at |-> At(k), name |-> row.name, off |-> row.off, size |-> row.size,
            bytes |-> SubSeq(files.code, row.off + 1, row.off + row.size)]]

\* 'SYM-NAME' in k, which 'SYM-NAME-AUTO' in k implies.
AutoName(name) == name = "SYM-NAME-AUTO"
SymName(name) == name = "SYM-NAME" \/ AutoName(name)

-----------------------------------------------------------------------------
(* fndiff.py *)

\* strip_pad: trailing no-ops dropped, one padding unit at a time.
strip_pad(b, arch) ==
  LET unit == nop(arch)
      w == Len(unit)
      IsPad(n) == \A u \in 1..n : SubSeq(b, Len(b) - w * u + 1, Len(b) - w * (u - 1)) = unit
      pads == Max({n \in 0..(Len(b) \div w) : IsPad(n)})
  IN SubSeq(b, 1, Len(b) - w * pads)

SizeDelta(base, new, keys) == MapThenSumSet(LAMBDA k : new[k].size - base[k].size, keys)
SizeSum(fns, keys) == MapThenSumSet(LAMBDA k : fns[k].size, keys)

\* ACCOUNTED: symbol-name functions resized, functions added and removed, and
\* every other common function.
OtherKeys(base, new, symname) == (DOMAIN base \cap DOMAIN new) \ symname

acct(base, new, symname) ==
  SizeDelta(base, new, symname) + SizeSum(new, DOMAIN new \ DOMAIN base)
  - SizeSum(base, DOMAIN base \ DOMAIN new)
  + SizeDelta(base, new, OtherKeys(base, new, symname))

FndiffExit(differ) == IF differ = {} THEN 0 ELSE 1

fndiff(b, n, arch) ==
  LET base == load(b)
      new == load(n)
      common == DOMAIN base \cap DOMAIN new
      unequal == {k \in common : strip_pad(base[k].bytes, arch) # strip_pad(new[k].bytes, arch)}
      symname == {k \in unequal : SymName(base[k].name)}
  IN [exit |-> FndiffExit(unequal \ symname), differ |-> unequal \ symname,
      symname |-> symname, same |-> Cardinality(common \ unequal),
      unexplained |-> Len(n.code) - Len(b.code) - acct(base, new, symname)]

-----------------------------------------------------------------------------
(* reloproof.py.  Positions in a function count from 0, as in the script. *)

\* starts: the key of the last row at a native offset, "" if there is none.
StartsAt(fns, off) ==
  LET here == {k \in DOMAIN fns : fns[k].off = off}
  IN IF here = {} THEN ""
     ELSE CHOOSE k \in here : \A other \in here : fns[other].at <= fns[k].at

\* int.from_bytes(a[start:start+4], 'little', signed=True)
from_bytes(a, start) ==
  a[start + 1] + 256 * a[start + 2] + 65536 * a[start + 3]
  + 16777216 * (IF a[start + 4] >= 128 THEN a[start + 4] - 256 ELSE a[start + 4])

\* Maximal intervals of differing bytes.
DiffRuns(a, b) ==
  LET idx == {i \in 0..(Len(a) - 1) : a[i + 1] # b[i + 1]}
  IN {r \in idx \X idx : /\ r[1]..r[2] \subseteq idx
                         /\ r[1] - 1 \notin idx /\ r[2] + 1 \notin idx}

\* The two targets are entries of the same named function; and of any two.
BothEntries(old, now) == old # "" /\ now # ""
SameCallee(old, now) == old # "" /\ old = now

\* Every 4-byte window that holds the run; and a range that ends one short.
WindowsShort(run, len) == Max({0, run[2] - 3})..(Min({run[1], len - 4}) - 1)
Windows(run, len) == Max({0, run[2] - 3})..Min({run[1], len - 4})

RunProved(base, new, k, run) ==
  LET a == base[k].bytes
      b == new[k].bytes
  IN \E start \in Windows(run, Len(a)) :
       SameCallee(StartsAt(base, base[k].off + start + 4 + from_bytes(a, start)),
                  StartsAt(new, new[k].off + start + 4 + from_bytes(b, start)))

reloproof(b, n) ==
  LET base == load(b)
      new == load(n)
      compared == {k \in DOMAIN base \cap DOMAIN new :
                     ~AutoName(base[k].name) /\ base[k].bytes # new[k].bytes}
      size_changes == {k \in compared : Len(base[k].bytes) # Len(new[k].bytes)}
      unproved == {k \in compared \ size_changes :
                     \E run \in DiffRuns(base[k].bytes, new[k].bytes) :
                        ~RunProved(base, new, k, run)}
  IN [exit |-> IF unproved = {} /\ size_changes = {} THEN 0 ELSE 1,
      size_changes |-> size_changes, unproved |-> unproved]

-----------------------------------------------------------------------------
(* Two builds, then one script and the other, whatever the first said. *)

NoBuild == [arch |-> "", fns |-> <<>>]
NoFiles == [code |-> <<>>, rows |-> <<>>]

NativeInit ==
  /\ ndBase = NoBuild /\ ndNew = NoBuild
  /\ ndFiles = [base |-> NoFiles, new |-> NoFiles]
  /\ ndDiff = NotRun /\ ndRelo = NotRun

Files(b) == [code |-> native(b), rows |-> write_symmap(b)]

\* Only builds for one machine are compared.
Build ==
  /\ ndBase = NoBuild
  /\ \E b, n \in NativeBuilds :
       /\ b.arch = n.arch
       /\ ndBase' = b /\ ndNew' = n
       /\ ndFiles' = [base |-> Files(b), new |-> Files(n)]
  /\ UNCHANGED <<ndDiff, ndRelo>>

RunFndiff ==
  /\ ndBase # NoBuild
  /\ ndDiff = NotRun
  /\ ndDiff' = fndiff(ndFiles.base, ndFiles.new, ndBase.arch)
  /\ UNCHANGED <<ndBase, ndNew, ndFiles, ndRelo>>

\* The script knows rel32 fields only, and is run on aarch64 builds as well.
RunReloproof ==
  /\ ndDiff # NotRun
  /\ ndRelo = NotRun
  /\ ndRelo' = reloproof(ndFiles.base, ndFiles.new)
  /\ UNCHANGED <<ndBase, ndNew, ndFiles, ndDiff>>

NativeNext == Build \/ RunFndiff \/ RunReloproof

-----------------------------------------------------------------------------
(* What was compiled: the n-th definition of a name, in link order. *)

Names(b) == {b.fns[i].name : i \in DOMAIN b.fns}
Occurrences(b, name) == {i \in DOMAIN b.fns : b.fns[i].name = name}
NthDef(b, name, n) == CHOOSE i \in Occurrences(b, name) :
                        Cardinality({j \in Occurrences(b, name) : j <= i}) = n

CommonNames == Names(ndBase) \cap Names(ndNew)
SameCount(name) ==
  Cardinality(Occurrences(ndBase, name)) = Cardinality(Occurrences(ndNew, name))

\* A definition that nothing can call has no bytes of its own on x86-64: they
\* stand in the row before it.
HasRow(b, i) == b.arch = "aa64" \/ i = LastDef(b.fns, b.fns[i].name)

\* The definitions both builds have: <<in the one, in the other>>.
Paired ==
  {p \in (DOMAIN ndBase.fns) \X (DOMAIN ndNew.fns) :
     LET name == ndBase.fns[p[1]].name
     IN /\ name \in CommonNames /\ SameCount(name)
        /\ \E n \in 1..Cardinality(Occurrences(ndBase, name)) :
             p[1] = NthDef(ndBase, name, n) /\ p[2] = NthDef(ndNew, name, n)
        /\ HasRow(ndBase, p[1]) /\ HasRow(ndNew, p[2])}

\* What stands between a function and the next row: alignment, what has no row,
\* the next function's call pad; or the runtime code.
Behind(b, i) ==
  LET code == native(b)
      starts == {NativeOffset(b, h) : h \in DOMAIN b.fns}
                \cup {Marks(b)[h].off : h \in DOMAIN Marks(b)} \cup {Len(code)}
      end == Entry(b.fns, i) + BodySize(b.fns[i])
  IN SubSeq(code, end + 1, Min({o \in starts : o >= end}))

SameBody(i, j) == Body(ndBase.fns, i) = Body(ndNew.fns, j)
SameBehind(i, j) == Behind(ndBase, i) = Behind(ndNew, j)

\* The exit statuses are 0 or 1, and the counts are of the rows both maps have.
NativeTypeOK ==
  /\ ndDiff.exit \in {-1, 0, 1} /\ ndRelo.exit \in {-1, 0, 1}
  /\ ndDiff # NotRun =>
       ndDiff.same + Cardinality(ndDiff.differ) + Cardinality(ndDiff.symname)
         = Len(Marks(ndBase)) +
           MapThenSumSet(LAMBDA name : Min({Cardinality(Occurrences(ndBase, name)),
                                            Cardinality(Occurrences(ndNew, name))}), CommonNames)

\* fndiff's report is true of what was compiled.  It exits 0 only if each
\* function with as many definitions in one build as in the other has the same
\* instruction bytes, the symbol-name tables apart.  It does exit 0 if, besides,
\* the same stands behind each of them.  And every byte by which the images
\* differ in length is accounted for, unless the first definition has no row
\* and its bytes belong to none.
FndiffExact ==
  ndDiff # NotRun =>
    /\ ndDiff.exit = 0 =>
         \A p \in Paired : SymName(ndBase.fns[p[1]].name) \/ SameBody(p[1], p[2])
    /\ /\ \A name \in CommonNames : SameCount(name)
       /\ \A p \in Paired : \/ SymName(ndBase.fns[p[1]].name)
                            \/ SameBody(p[1], p[2]) /\ SameBehind(p[1], p[2])
       => ndDiff.exit = 0
    /\ HasRow(ndBase, 1) /\ HasRow(ndNew, 1) => ndDiff.unexplained = 0

\* A reference to the same function, which has moved against its user.
MovedRef(op, other) == op.how = "ref" /\ op = other /\ SameCount(op.to)

OnlyRefsMoved(i, j) ==
  LET base == ndBase.fns[i].ops
      new == ndNew.fns[j].ops
  IN /\ Len(base) = Len(new)
     /\ \A h \in DOMAIN base : \/ OpBytes(ndBase.fns, i, h) = OpBytes(ndNew.fns, j, h)
                               \/ MovedRef(base[h], new[h])

\* reloproof's "strong claim": it exits 0 only if every instruction that
\* differs in a function of both builds loads the address of the same function.
DifferencesAreRelocation ==
  ndRelo # NotRun /\ ndRelo.exit = 0 =>
    \A p \in Paired : \/ AutoName(ndBase.fns[p[1]].name)
                      \/ SameBody(p[1], p[2])
                      \/ OnlyRefsMoved(p[1], p[2])

\* And it exits 0 if that is all there is: functions that moved, with the same
\* behind them, and no direct call longer or shorter than it was.  Such a call
\* it never proves: it lands on the callee's call pad, no function's entry.
RelocationIsProved ==
  /\ ndRelo # NotRun
  /\ \A name \in CommonNames : SameCount(name)
  /\ \A p \in Paired : \/ AutoName(ndBase.fns[p[1]].name)
                       \/ OnlyRefsMoved(p[1], p[2]) /\ SameBehind(p[1], p[2])
  => ndRelo.exit = 0
=============================================================================
