------------------------------ MODULE CsvEngine ------------------------------
(***************************************************************************)
(* The bundled CSV plugin (plugins/builtin-csv): it claims a file by its   *)
(* first two lines, freezes columns, metrics and counts when it loads it,  *)
(* and reads it line by line again when it parses it.                      *)
(*                                                                         *)
(* A file is [ext, coding, lines]; a line [sep, cells], with no cells when *)
(* it is empty.  A cell [kind, v, name] is an "int" (a number, and a time  *)
(* in milliseconds), a "float", an "iso" time, a "text" or "empty"; its    *)
(* name is what the text says when it serves as a column's name.           *)
(***************************************************************************)
EXTENDS Integers, Sequences, FiniteSets, SequencesExt

CONSTANTS
    ScanRows,   \* SCAN_ROWS
    BatchSize,  \* BATCH_SIZE
    KvValues,   \* KV_CARDINALITY_LIMIT
    KvSamples   \* KV_SAMPLE_LIMIT

ASSUME CsvAssumption ==
    /\ ScanRows \in Nat /\ KvValues \in Nat /\ KvSamples \in Nat
    /\ BatchSize \in Nat \ {0}

VARIABLES
    table,      \* the file and the plugin's config
    claim,      \* the answer of can_handle
    doc,        \* LoadedFile, or NoDoc
    row,        \* the line parse_file reads next, 0 when it is done, -1 when stopped
    buf,        \* records not yet sent
    sent,       \* batches given to the sink
    kv,         \* samples of the columns key_values answers from
    bad         \* bad lines counted, [load, parse]

csv == <<table, claim, doc, row, buf, sent, kv, bad>>

NoName    == 0
EmptyCell == [kind |-> "empty", v |-> 0, name |-> NoName]
Garbage   == [kind |-> "text", v |-> 0, name |-> 99]
NoLine    == [sep |-> ",", cells |-> <<>>]
NoDoc     == [loaded |-> FALSE]
NoClaim   == [can |-> FALSE, tenths |-> 0, timed |-> FALSE]

(***************************************************************************)
(* config.json, key by key: what cannot be read is what it is without      *)
(***************************************************************************)
Defaults == [timeColumn |-> "timestamp", format |-> "auto", header |-> "auto",
             delimiter |-> "auto", encoding |-> "auto"]

Legal == [timeColumn |-> {"timestamp", "auto"}, format |-> {"auto", "epoch_ms", "iso8601"},
          header |-> {"auto", "yes", "no"}, delimiter |-> {"auto", ",", ";"},
          encoding |-> {"auto", "utf-8", "utf-16le"}]

ParseConfig(raw) ==
    [k \in DOMAIN Defaults |->
        IF raw.json /\ raw[k] \in Legal[k] THEN raw[k] ELSE Defaults[k]]

IsNumber(c) == c.kind \in {"int", "float"}

\* {} or the set of the one time the cell stands for.
ParseTime(c, format) ==
    IF \/ c.kind = "int" /\ format \in {"auto", "epoch_ms"}
       \/ c.kind = "iso" /\ format \in {"auto", "iso8601"}
    THEN {c.v} ELSE {}

\* Sixteen-bit text read bytewise keeps its separators and loses its words;
\* bytes read as sixteen-bit text lose everything.
Decode(file, encoding) ==
    CASE file.coding = "bytes" /\ encoding = "utf-16le" ->
           <<[sep |-> ",", cells |-> <<Garbage>>]>>
      [] \/ file.coding = "utf-16 bare" /\ encoding # "utf-16le"
         \/ file.coding = "utf-16" /\ encoding = "utf-8" ->
           [i \in DOMAIN file.lines |->
              [file.lines[i] EXCEPT !.cells =
                 IF @ = <<>> THEN <<Garbage>> ELSE [j \in DOMAIN @ |-> Garbage]]]
      [] OTHER -> file.lines

SplitLine(line, delimiter) ==
    CASE line.cells = <<>>                                   -> <<EmptyCell>>
      [] line.sep # delimiter /\ Len(line.cells) > 1         -> <<Garbage>>
      [] OTHER                                               -> line.cells

AutoDelimiter(line) == IF Len(line.cells) > 1 THEN line.sep ELSE ","

Delimiter(first, config) ==
    IF config.delimiter = "auto" THEN AutoDelimiter(first) ELSE config.delimiter

\* A first line without a number above a line that begins with one, or a time.
LooksLikeHeader(cells, next, config) ==
    CASE config.header = "yes" -> TRUE
      [] config.header = "no"  -> FALSE
      [] OTHER -> /\ \A j \in DOMAIN cells : ~IsNumber(cells[j])
                  /\ \/ IsNumber(next[1])
                     \/ ParseTime(next[1], config.format) # {}

Names(cells, hasHeader) ==
    [j \in DOMAIN cells |-> IF hasHeader THEN cells[j].name ELSE 50 + j]

Timestamp == 1
TimeNames == {Timestamp, 2}     \* 2 for the other names "auto" knows

\* 0, or the first column whose name says that it holds the time.
ResolveTimeColumn(names, config) ==
    SelectInSeq(names, LAMBDA n : IF config.timeColumn = "auto" THEN n \in TimeNames
                                  ELSE n = Timestamp)

(***************************************************************************)
(* can_handle: half a point for the extension, the rest for the shape      *)
(***************************************************************************)
Base(ext) == CASE ext \in {"csv", "tsv"} -> 5 [] ext = "txt" -> 3 [] OTHER -> 0

ClaimOf(file, config, fingerprints) ==
    LET lines == Decode(file, "utf-8")
        Line(i) == IF i <= Len(lines) THEN lines[i] ELSE NoLine
        delimiter == Delimiter(Line(1), config)
        cols   == SplitLine(Line(1), delimiter)
        second == SplitLine(Line(2), delimiter)
        header == LooksLikeHeader(cols, second, config)
        data   == IF header THEN second ELSE cols
        column == ResolveTimeColumn(Names(cols, header), config)
        timed  == /\ Len(cols) >= 2
                  /\ LET c == IF column = 0 THEN 1 ELSE column IN
                        c <= Len(data) /\ ParseTime(data[c], config.format) # {}
        score  == Base(file.ext) + (IF Len(cols) >= 2 THEN 2 ELSE 0)
                  + (IF timed THEN 2 ELSE 0) + fingerprints
    IN  IF Base(file.ext) = 0 \/ (file.ext = "txt" /\ Len(cols) < 2) THEN NoClaim
        ELSE [can |-> TRUE, tenths |-> IF score > 10 THEN 10 ELSE score, timed |-> timed]

\* {} for a bad row, or the set of its time.
RowTs(cells, d) ==
    IF Len(cells) # Len(d.names) \/ d.timeCol = 0 THEN {}
    ELSE IF \E j \in d.columns : ~IsNumber(cells[j]) THEN {}
    ELSE ParseTime(cells[d.timeCol], d.format)

(***************************************************************************)
(* load_file: what is decided once for all parses                          *)
(***************************************************************************)
\* As TimeColumn, by name alone.
TimeColumnNamed(names, firstRow, config) == ResolveTimeColumn(names, config)

\* Without a column of the right name the first one will do, if it holds times.
TimeColumn(names, firstRow, config) ==
    LET named == ResolveTimeColumn(names, config) IN
    IF named # 0 THEN named
    ELSE IF ParseTime(firstRow[1], config.format) # {} THEN 1 ELSE 0

\* The lines that are not empty, and what is left of them below a header.
Filled(lines) == {i \in DOMAIN lines : lines[i].cells # <<>>}
DataRows(lines, hasHeader) ==
    {i \in Filled(lines) : hasHeader => \E k \in Filled(lines) : k < i}

FirstOf(lines, rows) == IF rows = {} THEN NoLine ELSE lines[Min(rows)]

\* The first ScanRows of the rows say which columns hold numbers.
NumberColumns(lines, delimiter, names, rows) ==
    {j \in DOMAIN names :
        \E i \in rows : LET cells == SplitLine(lines[i], delimiter) IN
            /\ Cardinality({k \in rows : k < i}) < ScanRows
            /\ j <= Len(cells) /\ IsNumber(cells[j])}

Frozen(file, config) ==
    LET lines == Decode(file, config.encoding)
        first == FirstOf(lines, Filled(lines))
        below == DataRows(lines, TRUE)
        delimiter   == Delimiter(first, config)
        Cells(line) == SplitLine(line, delimiter)
        header == \/ config.header = "yes"
                  \/ below # {}
                     /\ LooksLikeHeader(Cells(first), Cells(FirstOf(lines, below)), config)
        names  == Names(Cells(first), header)
        rows   == DataRows(lines, header)
        timeCol == TimeColumn(names, Cells(FirstOf(lines, rows)), config)
    IN  [loaded |-> TRUE, lines |-> lines, delimiter |-> delimiter, hasHeader |-> header,
         names |-> names, timeCol |-> timeCol, format |-> config.format,
         columns |-> NumberColumns(lines, delimiter, names, rows) \ {timeCol},
         badLines |-> 0, hint |-> 0, times |-> {}]

RowTime(d, i) == RowTs(SplitLine(d.lines[i], d.delimiter), d)

Load(file, config) ==
    LET d    == Frozen(file, config)
        rows == DataRows(d.lines, d.hasHeader)
        good == {i \in rows : RowTime(d, i) # {}}
    IN  [d EXCEPT !.badLines = Cardinality(rows \ good),
                  !.hint  = Cardinality(good) * Cardinality(d.columns),
                  !.times = UNION {RowTime(d, i) : i \in good}]

KvColumns(d) == {j \in DOMAIN d.names : j \notin d.columns \cup {d.timeCol} /\ d.names[j] # NoName}

CsvInit(files) ==
    /\ table \in files
    /\ claim = NoClaim /\ doc = NoDoc
    /\ row = 0 /\ buf = <<>> /\ sent = <<>> /\ kv = <<>>
    /\ bad = [load |-> 0, parse |-> 0]

LoadTable ==
    /\ ~doc.loaded
    /\ \E hits \in 0 .. 1 : claim' = ClaimOf(table.file, table.config, hits)
    /\ doc' = Load(table.file, table.config)
    /\ kv' = [j \in KvColumns(doc') |-> [valid |-> TRUE, samples |-> <<>>]]
    /\ bad' = [bad EXCEPT !.load = doc'.badLines]
    /\ row' = 1
    /\ UNCHANGED <<table, buf, sent>>

(***************************************************************************)
(* parse_file: the same rows once more, with what load froze               *)
(***************************************************************************)
IsRow(i) == doc.lines[i].cells # <<>> /\ ~(doc.hasHeader /\ i = 1)
Full(records) == Len(records) \div BatchSize
Batch(seq, records, done) == [seq |-> seq, times |-> records, done |-> done]

\* A column with too many values is given up; a full one takes no more.
Sample(column, t, c) ==
    LET values == {s.v : s \in Range(column.samples)} \cup {c.name} IN
    IF ~column.valid \/ c.kind = "empty" THEN column
    ELSE IF Cardinality(values) > KvValues THEN [valid |-> FALSE, samples |-> <<>>]
    ELSE IF Len(column.samples) < KvSamples
         THEN [column EXCEPT !.samples = Append(@, [t |-> t, v |-> c.name])] ELSE column

ParseRow ==
    /\ doc.loaded /\ row \in 1 .. Len(doc.lines)
    /\ row' = row + 1
    /\ LET cells == SplitLine(doc.lines[row], doc.delimiter)
           ts    == IF IsRow(row) THEN RowTime(doc, row) ELSE {}
           all   == buf \o [n \in 1 .. Cardinality(ts) * Cardinality(doc.columns) |->
                               CHOOSE t \in ts : TRUE]
           cut   == Full(all) * BatchSize IN
        /\ sent' = sent \o [b \in 1 .. Full(all) |->
              Batch(Len(sent) + b - 1,
                    SubSeq(all, (b - 1) * BatchSize + 1, b * BatchSize), FALSE)]
        /\ buf' = SubSeq(all, cut + 1, Len(all))
        /\ kv' = IF ts = {} THEN kv
                 ELSE [j \in DOMAIN kv |-> Sample(kv[j], CHOOSE t \in ts : TRUE, cells[j])]
        /\ bad' = IF IsRow(row) /\ ts = {} THEN [bad EXCEPT !.parse = @ + 1] ELSE bad
    /\ UNCHANGED <<table, claim, doc>>

\* As LastBatch, when there is a rest to send.
LastBatchIfAny ==
    /\ doc.loaded /\ row = Len(doc.lines) + 1
    /\ row' = 0
    /\ sent' = IF buf = <<>> THEN sent ELSE Append(sent, Batch(Len(sent), buf, TRUE))
    /\ buf' = <<>>
    /\ UNCHANGED <<table, claim, doc, kv, bad>>

LastBatch ==
    /\ doc.loaded /\ row = Len(doc.lines) + 1
    /\ row' = 0
    /\ sent' = Append(sent, Batch(Len(sent), buf, TRUE))
    /\ buf' = <<>>
    /\ UNCHANGED <<table, claim, doc, kv, bad>>

\* The cancel flag is read at every line: the rest is thrown away.
StopParse ==
    /\ doc.loaded /\ row \in 1 .. Len(doc.lines)
    /\ row' = -1 /\ buf' = <<>>
    /\ UNCHANGED <<table, claim, doc, sent, kv, bad>>

CsvNext == LoadTable \/ ParseRow \/ LastBatch \/ StopParse

(***************************************************************************)
(* Any file under any configuration                                        *)
(***************************************************************************)
Separators == {",", ";"}
Cell    == [kind : {"int", "float", "iso", "text", "empty"}, v : Int, name : Nat]
CsvLine == [sep : Separators, cells : Seq(Cell)]
CsvFile == [ext : {"csv", "tsv", "txt", "log"}, coding : {"bytes", "utf-16", "utf-16 bare"},
            lines : Seq(CsvLine) \ {<<>>}]
Config  == {c \in [DOMAIN Defaults -> UNION {Legal[k] : k \in DOMAIN Legal}] :
               \A k \in DOMAIN Defaults : c[k] \in Legal[k]}
CsvTable == [file : CsvFile, config : Config]

CsvSpec == CsvInit(CsvTable) /\ [][CsvNext]_csv

(***************************************************************************)
(* What the answers promise each other                                     *)
(***************************************************************************)
Records(batches) ==
    LET sizes == [i \in DOMAIN batches |-> Len(batches[i].times)]
    IN  MapThenSumSet(LAMBDA i : sizes[i], DOMAIN sizes)

Ended == doc.loaded /\ row = 0

\* The first line names columns only as long as parse_file skips it, too.
HeaderFirst == doc.lines[1].cells # <<>> \/ ~doc.hasHeader

\* A parse that came to its end has sent the records load announced, numbered
\* without a gap, one last batch among them, with times inside the announced
\* range, and has met the bad lines load counted.
TwoPassesAgree ==
    Ended /\ HeaderFirst =>
        /\ Records(sent) = doc.hint
        /\ \A i \in DOMAIN sent : sent[i].seq = i - 1 /\ (sent[i].done <=> i = Len(sent))
        /\ \A b \in Range(sent) : Range(b.times) \subseteq doc.times
        /\ bad.parse = bad.load

\* The host's sample shows an empty second line, and load found the first line
\* to be a header by the line below the gap.
HeaderOverGap == doc.hasHeader /\ Len(doc.lines) > 1 /\ doc.lines[2].cells = <<>>

\* A file claimed for its time column has one when it is loaded, if load reads
\* the bytes as the host did when it took the sample and finds no header the
\* sample did not show.
LoadKeepsClaim ==
    /\ doc.loaded /\ claim.timed /\ ~HeaderOverGap
    /\ Decode(table.file, table.config.encoding) = table.file.lines
    => doc.timeCol # 0

=============================================================================
