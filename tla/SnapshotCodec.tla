--------------------------- MODULE SnapshotCodec ----------------------------
(***************************************************************************)
(* The bytes of a snapshot (Writer, Reader, SerializeTables and            *)
(* LoadTablesBytes in src/src/api/db.cpp).  Tables are the sequence of     *)
(* [name, columns, rows] in the order of their names; a U32 and a U64 are  *)
(* two bytes, least significant first, and a longer count is cut to them.  *)
(* Names are in lower case already.                                        *)
(***************************************************************************)
EXTENDS Values, SequencesExt

CONSTANTS Magic,       \* "TUPLESTONE-DATA-2"
          MaxTables, MaxColumns, MaxRows   \* what LoadTablesBytes accepts

ASSUME CodecAssumption ==
  /\ Magic \in Seq(Int) /\ Len(Magic) < 2 * Half
  /\ MaxTables \in Nat /\ MaxColumns \in Nat /\ MaxRows \in Nat

U32(n)    == <<n % Base, (n \div Base) % Base>>
String(s) == U32(Len(s)) \o s
Flag(b)   == IF b THEN 1 ELSE 0

ValueData(v) ==
  <<v.type>> \o (CASE v.type = 2 -> U32(AsInteger(v) % (2 * Half))
                   [] v.type = 3 -> U32(v.data[1])
                   [] v.type \in {4, 5} -> String(v.data)
                   [] OTHER      -> v.data)

ColumnData(c) ==
  String(c.name) \o <<c.type, Flag(c.nullable), Flag(c.primary), Flag(c.unique)>>

\* A count, and the bytes of that many items.
Counted(codes) == U32(Len(codes)) \o FlattenSeq(codes)

RowData(row) == Counted([i \in 1..Len(row) |-> ValueData(row[i])])

TableData(t) ==
  String(t.name)
  \o Counted([i \in 1..Len(t.columns) |-> ColumnData(t.columns[i])])
  \o Counted([i \in 1..Len(t.rows) |-> RowData(t.rows[i])])

SerializeTables(tables) ==
  String(Magic) \o Counted([i \in 1..Len(tables) |-> TableData(tables[i])])

-----------------------------------------------------------------------------
\* A read gives [ok, val, pos]: what was read and where the next one begins.
Got(val, pos) == [ok |-> TRUE, val |-> val, pos |-> pos]
Short         == [ok |-> FALSE, val |-> <<>>, pos |-> 0]

ReadU8(bytes, pos) == IF pos > Len(bytes) THEN Short ELSE Got(bytes[pos], pos + 1)

ReadU32(bytes, pos) ==
  IF pos + 1 > Len(bytes) THEN Short
  ELSE Got(bytes[pos] + Base * bytes[pos + 1], pos + 2)

ReadString(bytes, pos) ==
  LET size == ReadU32(bytes, pos) IN
  IF ~size.ok \/ size.val > Len(bytes) - size.pos + 1 THEN Short
  ELSE Got(SubSeq(bytes, size.pos, size.pos + size.val - 1), size.pos + size.val)

Signed(n) == IF n >= Half THEN n - 2 * Half ELSE n

ReadValue(bytes, pos) ==
  LET tag    == ReadU8(bytes, pos)
      flag   == ReadU8(bytes, tag.pos)
      number == ReadU32(bytes, tag.pos)
      text   == ReadString(bytes, tag.pos)
      as(r, data) == Got([type |-> tag.val, data |-> data], r.pos)
  IN
  IF ~tag.ok THEN Short
  ELSE CASE tag.val = 0 -> as(tag, <<>>)
         [] tag.val = 1 -> IF flag.ok /\ flag.val <= 1 THEN as(flag, <<flag.val>>) ELSE Short
         [] tag.val = 2 -> IF number.ok THEN as(number, <<Signed(number.val)>>) ELSE Short
         [] tag.val = 3 -> IF number.ok THEN as(number, <<number.val>>) ELSE Short
         [] tag.val \in {4, 5} -> IF text.ok THEN as(text, text.val) ELSE Short
         [] OTHER -> Short

ReadColumn(bytes, pos) ==
  LET name == ReadString(bytes, pos)
      at(i) == bytes[name.pos + i]
  IN  IF ~name.ok \/ name.pos + 3 > Len(bytes) THEN Short
      ELSE IF at(0) \notin 1..5 THEN Short
      ELSE Got([name |-> name.val, type |-> at(0), nullable |-> at(1) # 0,
                primary |-> at(2) # 0, unique |-> at(3) # 0], name.pos + 4)

\* Behind the items that were read, the next one; read[p] reads it at p.
ReadNext(last, read) ==
  LET item == read[last.pos] IN
  IF last.ok /\ item.ok THEN Got(Append(last.val, item.val), item.pos) ELSE Short

\* A count no larger than the limit, and that many items.
ReadCounted(bytes, pos, limit, read) ==
  LET count == ReadU32(bytes, pos)
      items[i \in 0..count.val] ==
        IF i = 0 THEN Got(<<>>, count.pos) ELSE ReadNext(items[i - 1], read)
  IN  IF ~count.ok \/ count.val > limit THEN Short ELSE items[count.val]

\* The width of a row must be that of the schema.
ReadRow(bytes, pos, width) ==
  LET count == ReadU32(bytes, pos) IN
  IF count.ok /\ count.val # width THEN Short
  ELSE ReadCounted(bytes, pos, width, [p \in Nat |-> ReadValue(bytes, p)])

ReadTable(bytes, pos) ==
  LET name    == ReadString(bytes, pos)
      columns == ReadCounted(bytes, name.pos, MaxColumns, [p \in Nat |-> ReadColumn(bytes, p)])
      rows    == ReadCounted(bytes, columns.pos, MaxRows,
                             [p \in Nat |-> ReadRow(bytes, p, Len(columns.val))])
  IN  IF ~name.ok \/ ~columns.ok \/ ~rows.ok THEN Short
      ELSE Got([name |-> name.val, columns |-> columns.val, rows |-> rows.val], rows.pos)

\* Mutant: what follows the tables is not looked at.
LoadTablesBytesNotDone(bytes) ==
  LET magic  == ReadString(bytes, 1)
      tables == ReadCounted(bytes, magic.pos, MaxTables, [p \in Nat |-> ReadTable(bytes, p)])
  IN  IF ~magic.ok \/ magic.val # Magic THEN Short
      ELSE IF ~tables.ok THEN Short ELSE Got(tables.val, 0)

LoadTablesBytes(bytes) ==
  LET magic  == ReadString(bytes, 1)
      tables == ReadCounted(bytes, magic.pos, MaxTables, [p \in Nat |-> ReadTable(bytes, p)])
  IN  IF ~magic.ok \/ magic.val # Magic THEN Short
      ELSE IF ~tables.ok \/ tables.pos # Len(bytes) + 1 THEN Short
      ELSE Got(tables.val, 0)

-----------------------------------------------------------------------------
\* What a table has, and that no count in it is too large for a U32.
Storable(t) ==
  /\ t = [name |-> t.name, columns |-> t.columns, rows |-> t.rows]
  /\ t.name \in Seq(Int) /\ Len(t.name) < 2 * Half
  /\ t.columns \in Seq([name : Seq(Int), type : 1..5, nullable : BOOLEAN,
                        primary : BOOLEAN, unique : BOOLEAN])
  /\ Len(t.columns) < 2 * Half
  /\ \A i \in 1..Len(t.columns) : Len(t.columns[i].name) < 2 * Half
  /\ t.rows \in Seq(Seq([type : 0..5, data : Seq(Int)])) /\ Len(t.rows) < 2 * Half
  /\ \A i \in 1..Len(t.rows) :
       /\ Len(t.rows[i]) = Len(t.columns)
       /\ \A j \in 1..Len(t.rows[i]) :
            /\ IsValue(t.rows[i][j]) /\ InRange(t.rows[i][j])
            /\ Len(t.rows[i][j].data) < 2 * Half

WithinLimits(tables) ==
  /\ Len(tables) <= MaxTables
  /\ \A i \in 1..Len(tables) : /\ Len(tables[i].columns) <= MaxColumns
                               /\ Len(tables[i].rows) <= MaxRows

\* A saved snapshot is loaded as it was, one that was cut anywhere or has
\* something behind it is refused: never are other tables taken for it.  (Only
\* within the limits of LoadTablesBytes: SerializeTables knows none.)
SnapshotReads(tables) ==
  LET bytes == SerializeTables(tables) IN
  /\ WithinLimits(tables) => LoadTablesBytes(bytes).ok
  /\ \A k \in 0..Len(bytes) :
       LET load == LoadTablesBytes(SubSeq(bytes, 1, k)) IN
       load.ok => k = Len(bytes) /\ load.val = tables
  /\ ~LoadTablesBytes(Append(bytes, 0)).ok
=============================================================================
