----------------------------- MODULE EventBuilder -----------------------------
(***************************************************************************)
(* EventBuilder and the readers Event, EventRecord and EventRecordField     *)
(* (Event.cpp): an event is one block of bytes, laid out by offsets that    *)
(* both sides compute.  It is kept by blocks, one for the event, for each    *)
(* record and for each field, at their offsets; a block is a function from  *)
(* the offset in it at which something was written to its length and value; *)
(* writing over a part of it destroys it.  Strings are sequences; their     *)
(* length stands for their bytes.  A builder that threw an exception stays  *)
(* as it is.                                                                *)
(***************************************************************************)
EXTENDS Strict, Integers, FiniteSets, TLC

CONSTANT Width  \* 2^16

UINT16_MAX == Width - 1
Cast16(n) == n % Width

\* The layout.  Fixed headers are one piece each.
EVENT_RECORD_INDEX_OFFSET == 34
EVENT_HEADER_SIZE(records) == EVENT_RECORD_INDEX_OFFSET + 4 * records
RECORD_FIELD_INDEX_OFFSET == 10
RECORD_FIELD_SORTED_INDEX_OFFSET(fields) == RECORD_FIELD_INDEX_OFFSET + 4 * fields
RECORD_TYPE_NAME_OFFSET(fields) == RECORD_FIELD_INDEX_OFFSET + 4 * fields * 2
RECORD_TEXT_OFFSET(fields, name) == RECORD_TYPE_NAME_OFFSET(fields) + name
RECORD_HEADER_SIZE(fields, name, text) == RECORD_TEXT_OFFSET(fields, name) + text
FIELD_HEADER_SIZE == 12
\* Mutant: the name's NUL is not counted.
FIELD_RAW_VALUE_OFFSET_NoNul(name) == FIELD_HEADER_SIZE + name - 1
FIELD_RAW_VALUE_OFFSET(name) == FIELD_HEADER_SIZE + name
FIELD_INTERP_VALUE_OFFSET(name, raw) == FIELD_HEADER_SIZE + name + raw

\* The blocks: the event at 0, each record and each field at its own offset.
WriteBlock(block, at, len, value) ==
    LET whole == {o \in DOMAIN block : o + block[o].len <= at \/ at + len <= o}
    IN  (at :> [len |-> len, value |-> value]) @@ [o \in whole |-> block[o]]

Write(data, base, at, len, value) ==
    Once(data, LAMBDA d :
        Once(IF base \in DOMAIN d THEN d[base] ELSE <<>>, LAMBDA block :
            (base :> WriteBlock(block, at, len, value)) @@ d))

\* A string with its NUL.
WriteString(data, base, at, text) == Write(data, base, at, Len(text) + 1, text)

\* The blocks do not run into each other.
Apart(data) ==
    LET end(base) == Max({base + o + data[base][o].len : o \in DOMAIN data[base]})
    IN  \A base \in DOMAIN data : \A next \in DOMAIN data : base < next => end(base) <= next
-----------------------------------------------------------------------------
(* The builder *)

NoBuilder == [open |-> FALSE, threw |-> FALSE]

Throw(b) == [b EXCEPT !.threw = TRUE]

\* EventQueue never fails to allocate.
BeginEvent(b, id, records) ==
    IF b.open \/ records = 0 THEN Throw(b)
    ELSE [open |-> TRUE, threw |-> b.threw, size |-> EVENT_HEADER_SIZE(records),
          data |-> Write(<<>>, 0, 0, EVENT_RECORD_INDEX_OFFSET, [id |-> id, records |-> records, size |-> 0]),
          records |-> records, ridx |-> 0, roffset |-> EVENT_HEADER_SIZE(records),
          fields |-> 0, fidx |-> 0, foffset |-> 0]

\* name_size and the others count the NUL.
BeginRecord(b, type, text, fields) ==
    LET size == RECORD_HEADER_SIZE(fields, Len(type) + 1, Len(text) + 1)
        index == Write(b.data, 0, EVENT_HEADER_SIZE(b.ridx), 4, b.roffset)
        head == Write(index, b.roffset, 0, RECORD_FIELD_INDEX_OFFSET,
                      [fields |-> fields, name |-> Len(type) + 1, text |-> Len(text) + 1])
        named == WriteString(head, b.roffset, RECORD_TYPE_NAME_OFFSET(fields), type)
    IN  IF b.threw \/ ~b.open \/ fields = 0 \/ Len(type) + 1 > UINT16_MAX \/ Len(text) + 1 > UINT16_MAX
        THEN Throw(b)
        ELSE [b EXCEPT !.size = @ + size, !.fields = fields, !.fidx = 0, !.foffset = size,
                       !.data = WriteString(named, b.roffset, RECORD_TEXT_OFFSET(fields, Len(type) + 1), text)]

\* The sizes of values are cast to 16 bits; the values are not.
AddField(b, f) ==
    LET name == Len(f.name) + 1
        raw == Len(f.raw) + 1
        interp == IF f.interp = <<>> THEN 0 ELSE Len(f.interp) + 1
        at == b.roffset + b.foffset
        head == Write(b.data, at, 0, FIELD_HEADER_SIZE,
                      [name |-> Cast16(name), raw |-> Cast16(raw), interp |-> Cast16(interp)])
        valued == WriteString(WriteString(head, at, FIELD_HEADER_SIZE, f.name),
                              at, FIELD_RAW_VALUE_OFFSET(name), f.raw)
        whole == IF interp = 0 THEN valued
                 ELSE WriteString(valued, at, FIELD_INTERP_VALUE_OFFSET(name, Cast16(raw)), f.interp)
        size == FIELD_HEADER_SIZE + name + raw + interp
    IN  IF b.threw \/ ~b.open \/ name > UINT16_MAX \/ b.fidx >= b.fields THEN Throw(b)
        ELSE [b EXCEPT !.size = @ + size, !.foffset = @ + size, !.fidx = @ + 1,
                       !.data = Write(whole, b.roffset, RECORD_FIELD_INDEX_OFFSET + 4 * b.fidx, 4, b.foffset)]

\* The index by name is a copy; its order does not matter here.
EndRecord(b) ==
    LET copy(data, i) ==
            Write(data, b.roffset, RECORD_FIELD_SORTED_INDEX_OFFSET(b.fields) + 4 * i, 4,
                  data[b.roffset][RECORD_FIELD_INDEX_OFFSET + 4 * i].value)
    IN  IF b.threw \/ ~b.open \/ b.fidx # b.fields THEN Throw(b)
        ELSE [b EXCEPT !.data = Fold(copy, @, [i \in 1..b.fields |-> i - 1]),
                       !.ridx = @ + 1, !.roffset = b.size]

EndEvent(b) ==
    IF b.threw \/ ~b.open \/ b.ridx # b.records THEN Throw(b)
    ELSE [b EXCEPT !.open = FALSE,
                   !.data = [@ EXCEPT ![0][0].value.size = b.size]]

\* A whole record: what the two callers below do with their fields.
AddRecord(b, type, text, count, fields) ==
    Once(Fold(AddField, BeginRecord(b, type, text, count), fields), EndRecord)
-----------------------------------------------------------------------------
(* The readers *)

\* An entry of a record's index.
Index(data, at, i) == data[at][RECORD_FIELD_INDEX_OFFSET + 4 * i].value

Prefix(text, n) == SubSeq(text, 1, IF n > Len(text) THEN Len(text) ELSE n)

\* The string that begins at an offset, of a size with its NUL.  A size of 0
\* stands for nothing that was written: the code reads on behind it.
Garbage == <<"garbage">>

ReadString(block, at, size) ==
    IF at \notin DOMAIN block THEN <<>>
    ELSE IF size = 0 THEN Garbage ELSE Prefix(block[at].value, size - 1)

FieldAt(block) ==
    LET head == block[0].value
    IN  [name |-> ReadString(block, FIELD_HEADER_SIZE, head.name),
         raw |-> ReadString(block, FIELD_RAW_VALUE_OFFSET(head.name), head.raw),
         interp |-> IF head.interp = 0 THEN <<>>
                    ELSE ReadString(block, FIELD_INTERP_VALUE_OFFSET(head.name, head.raw), head.interp)]

RecordAt(data, at) ==
    LET head == data[at][0].value
    IN  [type |-> ReadString(data[at], RECORD_TYPE_NAME_OFFSET(head.fields), head.name),
         text |-> ReadString(data[at], RECORD_TEXT_OFFSET(head.fields, head.name), head.text),
         fields |-> Each([i \in 1..head.fields |-> Index(data, at, i - 1)],
                         LAMBDA foffset : FieldAt(data[at + foffset]))]

RecordOffset(data, i) == data[0][EVENT_HEADER_SIZE(i - 1)].value

Records(data) ==
    Each([i \in 1..data[0][0].value.records |-> RecordOffset(data, i)],
         LAMBDA at : RecordAt(data, at))

EventIdOf(data) == data[0][0].value.id

\* The offsets of fields are compared as if they began at the event.
Validate(data) ==
    LET head == data[0][0].value
        fieldEnd(block, f) ==
            f + FIELD_INTERP_VALUE_OFFSET(block[0].value.name, block[0].value.raw) + block[0].value.interp
    IN  /\ head.size > EVENT_HEADER_SIZE(head.records)
        /\ \A i \in 1..head.records :
              \E r \in {RecordOffset(data, i)} : \E rec \in {data[r][0].value} :
                  /\ head.size > r + RECORD_HEADER_SIZE(rec.fields, rec.name, rec.text)
                  /\ \A k \in 1..rec.fields :
                        \E f \in {Index(data, r, k - 1)} : head.size > fieldEnd(data[r + f], f)
=============================================================================
