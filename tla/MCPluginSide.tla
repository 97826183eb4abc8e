----------------------------- MODULE MCPluginSide -----------------------------
(* The plugin side of the pipes, in five parts that share nothing but this   *)
(* module: the runtime library under any host, `plugin check` on a plugin    *)
(* built on the library, on scripted plugins and on folders that differ from *)
(* a sound one in up to two places, and the CSV plugin on small files.       *)
EXTENDS PluginHost, ScriptedPlugin, LibraryCheck, PassedPlugin, CsvEngine

\* The scripts of the validator's fixtures, each with the rule it must break.
Good == [
    initialize |-> <<Reply("initialize", [defect |-> "none", query |-> "absent"])>>,
    schema |-> <<Reply("schema", [metrics |-> {"fps"}, valid |-> TRUE, listed |-> TRUE])>>,
    can_handle |-> <<Reply("can_handle", [claimed |-> TRUE, inRange |-> TRUE])>>,
    load_file |-> <<Reply("load_file", "summary")>>,
    parse |-> <<Emit("progress", [shape |-> "good"]),
                Emit("batch", [seq |-> 0, n |-> 1, metric |-> "fps", done |-> TRUE,
                               shape |-> "good"]),
                Reply("parse", [total |-> 1])>>,
    key_values |-> <<Reply("key_values", [entries |-> "good"])>>,
    unload_file |-> <<Reply("unload_file", "empty")>>,
    shutdown |-> <<Reply("shutdown", "empty")>>]

Send(seq, metric, done, shape) ==
    Emit("batch", [seq |-> seq, n |-> 1, metric |-> metric, done |-> done, shape |-> shape])
Beat == Emit("progress", [shape |-> "good"])
Total(n) == Reply("parse", [total |-> n])

Lines1(blocks) ==
    blocks.initialize \o blocks.schema \o blocks.can_handle \o blocks.load_file
    \o blocks.parse \o blocks.key_values \o blocks.unload_file \o blocks.shutdown

Bad(rule, method, lines) ==
    [rule |-> rule, lines |-> Lines1([Good EXCEPT ![method] = lines]),
     announces |-> FALSE, exits |-> "prompt"]

MCScripts == {
    [rule |-> "none", lines |-> Lines1(Good), announces |-> FALSE, exits |-> "prompt"],
    Bad("BEH-01", "initialize", <<Reply("initialize", [defect |-> "id", query |-> "absent"])>>),
    Bad("BEH-01", "can_handle", <<Reply("can_handle", [claimed |-> TRUE, inRange |-> FALSE])>>),
    Bad("BEH-02", "schema", <<Misdirect("schema", "any")>>),
    Bad("BEH-02", "key_values", <<Sleep, Misdirect("key_values", [entries |-> "good"])>>),
    Bad("BEH-03", "schema", <<Refuse("schema", "method_not_found")>>),
    Bad("BEH-03", "load_file", <<>>),
    Bad("BEH-03", "parse", <<Refuse("parse", "unsupported")>>),
    Bad("BEH-03", "key_values", <<Refuse("key_values", "invented")>>),
    Bad("BEH-04", "parse", <<Send(0, "fps", TRUE, "good"), Total(1)>>),
    Bad("BEH-05", "parse", <<Beat, Send(0, "gpu", TRUE, "good"), Total(1)>>),
    Bad("BEH-05", "parse", <<Beat, Say("nan"), Total(0)>>),
    Bad("BEH-05", "parse", <<Beat, Send(0, "fps", TRUE, "record"), Total(1)>>),
    Bad("BEH-06", "parse", <<Beat, Send(0, "fps", FALSE, "good"), Send(2, "fps", TRUE, "good"),
                             Total(2)>>),
    Bad("BEH-06", "parse", <<Beat, Send(0, "fps", TRUE, "good"), Send(1, "fps", TRUE, "good"),
                             Total(2)>>),
    Bad("BEH-06", "parse", <<Beat, Send(0, "fps", TRUE, "good"), Total(2)>>),
    Bad("BEH-07", "key_values", <<Reply("key_values", [entries |-> "nope"])>>),
    Bad("BEH-08", "parse", <<Say("long"), Total(0)>>),
    Bad("BEH-09", "initialize", <<Say("text")>> \o Good.initialize),
    Bad("BEH-09", "unload_file", <<Say("cr")>> \o Good.unload_file),
    Bad("BEH-11", "load_file", Good.load_file \o <<Refuse("reload", "load_failed")>>),
    [rule |-> "BEH-10", lines |-> Lines1(Good), announces |-> FALSE, exits |-> "eof"],
    [rule |-> "BEH-12", lines |-> Lines1(Good), announces |-> FALSE, exits |-> "never"],
    [rule |-> "BEH-13", lines |-> Lines1(Good), announces |-> TRUE, exits |-> "prompt"],
    [rule |-> "rejected", lines |-> <<Beat>>, announces |-> FALSE, exits |-> "prompt"],
    [rule |-> "BEH-13",
     lines |-> Lines1([Good EXCEPT !.initialize =
                  <<Reply("initialize", [defect |-> "none", query |-> "true"])>>]),
     announces |-> FALSE, exits |-> "prompt"]}

(***************************************************************************)
(* Folders                                                                 *)
(***************************************************************************)
V(n) == [n |-> n, form |-> "strict"]
Zh(t) == [zh |-> t, en |-> "text"]
SomePreset == [id |-> 1, idShape |-> TRUE, name |-> Zh("text"), entries |-> <<"good">>,
    groups |-> <<[id |-> 1, name |-> Zh("text"), entries |-> <<"good">>],
                 [id |-> 2, name |-> Zh("text"), entries |-> <<>>]>>,
    keywords |-> <<"text">>]
SomeTool == [tool |-> "AnalysisBuddy", req |-> "met", gap |-> "space"]
Logged(v) == [version |-> v, date |-> "good", notes |-> TRUE]

GoodFolder == [os |-> "unix", rooted |-> TRUE, nested |-> "none", text |-> "json",
    idShape |-> TRUE, isFolderName |-> TRUE, name |-> "text", version |-> V(3),
    command |-> "rel", override |-> "absent", workdir |-> "absent",
    extensions |-> "some", fingerprints |-> "some", minProtocol |-> 1,
    author |-> "text", repository |-> "https", update |-> "absent",
    tools |-> <<SomeTool>>, changelog |-> <<Logged(V(3)), Logged(V(2))>>,
    presets |-> <<SomePreset>>]

Loose(n) == [n |-> n, form |-> "loose"]
NoForm(n) == [n |-> n, form |-> "none"]
Altered(field, values) == {[SomePreset EXCEPT ![field] = v] : v \in values}

\* What else each field may be.
Others == [
    os |-> {"windows"}, rooted |-> {FALSE}, nested |-> {"other", "same"},
    text |-> {"unreadable", "garbage", "array"},
    idShape |-> {FALSE}, isFolderName |-> {FALSE}, name |-> {"absent", "empty", "blank"},
    version |-> {V(2), Loose(3), NoForm(3)},
    command |-> {"rel gone", "rel, no .exe", "rel, has .exe", "abs", "abs gone", "python",
                 "python gone", "on path", "local", "blank", "empty", "absent"},
    override |-> {"rel gone", "rel", "blank"}, workdir |-> {"rel", "abs", "gone"},
    extensions |-> {"none", "absent", "illegal"}, fingerprints |-> {"none", "absent", "blank"},
    minProtocol |-> {0, HostVersion + 1},
    author |-> {"absent", "empty", "blank"}, repository |-> {"absent", "http"},
    update |-> {"bad", "good"},
    tools |-> {<<>>} \cup {<<[SomeTool EXCEPT !.req = r]>> : r \in {"absent", "bad", "unmet"}}
              \cup {<<SomeTool, [SomeTool EXCEPT !.tool = "other", !.req = r]>> :
                       r \in {"bad", "unmet"}}
              \cup {<<[SomeTool EXCEPT !.gap = "tab"]>>},
    changelog |-> {<<>>, <<Logged(V(2))>>, <<Logged(V(2)), Logged(V(3))>>,
                   <<Logged(V(3)), Logged(V(3))>>, <<Logged(Loose(3))>>,
                   <<Logged(V(3)), Logged(NoForm(2))>>}
                  \cup {<<[Logged(V(3)) EXCEPT !.date = d]>> : d \in {"range", "bad"}}
                  \cup {<<[Logged(V(3)) EXCEPT !.notes = FALSE]>>},
    presets |-> {<<>>, <<SomePreset, SomePreset>>,
                 <<SomePreset, [SomePreset EXCEPT !.id = 2]>>,
                 [i \in 1 .. PresetLimit + 1 |-> [SomePreset EXCEPT !.id = i]]}
                \cup {<<p>> : p \in
                    Altered("idShape", {FALSE}) \cup Altered("name", {Zh("blank"), Zh("empty")})
                    \cup Altered("entries", {<<"blank">>, <<"empty">>, <<"none">>, <<"good", "good">>})
                    \cup Altered("keywords", {<<>>, <<"text", "blank">>, <<"empty">>})
                    \cup Altered("groups", {<<>>} \cup {<<g, SomePreset.groups[1]>> : g \in {
                            SomePreset.groups[1],
                            [SomePreset.groups[2] EXCEPT !.name = Zh("blank")],
                            [SomePreset.groups[2] EXCEPT !.name = Zh("empty")],
                            [SomePreset.groups[2] EXCEPT !.entries = <<"blank">>],
                            [SomePreset.groups[2] EXCEPT !.entries = <<"none">>],
                            [SomePreset.groups[2] EXCEPT !.entries = <<"good", "good">>]}})}]

OneOff(f) == UNION {{[f EXCEPT ![field] = v] : v \in Others[field]} : field \in DOMAIN Others}
Folders == {GoodFolder} \cup UNION {OneOff(f) : f \in OneOff(GoodFolder)}

\* The check warns of this one, which spares no plugin its replay.
WarnedFolder == [GoodFolder EXCEPT !.extensions = "none", !.fingerprints = "absent"]

Misuses == {"help", "misused", "schemaless", "no fixture"}

(***************************************************************************)
(* CSV files                                                               *)
(***************************************************************************)
C(kind, v, name) == [kind |-> kind, v |-> v, name |-> name]
A == 10
Row(cells) == [sep |-> ",", cells |-> cells]
HeadA  == Row(<<C("text", 0, 1), C("text", 0, A)>>)
At1    == Row(<<C("int", 1, 20), C("float", 0, 21)>>)
At2    == Row(<<C("iso", 2, 22), C("int", 7, 23)>>)
Worded(n) == Row(<<C("int", 3, 24), C("text", 0, n)>>)
Alone  == Row(<<C("text", 0, 27)>>)
EmptyLine == Row(<<>>)
Semi   == [At1 EXCEPT !.sep = ";"]
Wide   == Row(<<C("text", 0, 1), C("text", 0, A), C("text", 0, A)>>)
WideAt(t) == Row(<<C("int", t, 20), C("float", 0, 21), C("float", 0, 21)>>)
TimeOnly == Row(<<C("iso", 5, 28), C("text", 0, 29)>>)
Fraction == Row(<<C("float", 0, 30), C("int", 7, 31)>>)

Texts == SeqOf({HeadA, At1, At2, Worded(25), Alone, EmptyLine, Semi}, 3) \ {<<>>}
Longer == {<<HeadA, At1, At2, At1, At2, At1>>, <<HeadA, Worded(25), At1, Worded(26), At2>>,
           <<HeadA, Worded(25), Worded(25), Worded(25)>>,
           <<Wide, WideAt(1), WideAt(2)>>, <<TimeOnly, EmptyLine, Fraction>>}

Plain == [json |-> TRUE, timeColumn |-> "absent", format |-> "absent", header |-> "absent",
          delimiter |-> "absent", encoding |-> "absent"]
Settings == [json |-> {FALSE}, timeColumn |-> {"", "auto"},
             format |-> {"epoch_ms", "iso8601", "nonsense"}, header |-> {"yes", "no", "maybe"},
             delimiter |-> {",", ";", "x"}, encoding |-> {"utf-8", "utf-16le", "y"}]
RawConfigs == {Plain} \cup UNION {{[Plain EXCEPT ![k] = v] : v \in Settings[k]} :
                                    k \in DOMAIN Settings}
Configs == {ParseConfig(raw) : raw \in RawConfigs}

Csv(ext, coding, lines) == [ext |-> ext, coding |-> coding, lines |-> lines]
CsvFiles == {Csv("csv", "bytes", ls) : ls \in Texts \cup Longer}
    \cup {Csv("txt", "bytes", ls) : ls \in {<<HeadA, At1>>, <<Alone, At1>>}}
    \cup {Csv("log", "bytes", <<HeadA, At1>>)}
    \cup {Csv("csv", c, <<HeadA, At1, EmptyLine, At2>>) : c \in {"utf-16", "utf-16 bare"}}
Tables == {[file |-> f, config |-> c] : f \in CsvFiles, c \in Configs}

ASSUME TablesAreTables == Tables \subseteq CsvTable

(***************************************************************************)
(* The parts                                                               *)
(***************************************************************************)
VARIABLE breaks     \* the rule this plugin breaks, or "none"

vars == <<pipes, library, host, replay, check, request, result, csv, heard, part, breaks>>

IdleReplay ==
    /\ script = NoScript /\ announced = FALSE /\ exits = "prompt"
    /\ loads = 0 /\ block = <<>> /\ current = 0

IdleHost  == asked = 0 /\ patient = FALSE
IdleCheck == FolderInit(GoodFolder, TRUE, "good")
IdleCsv   == CsvInit({CHOOSE t \in Tables : TRUE})

Init ==
    /\ RuntimeInit /\ CheckInit /\ HeardStart
    /\ \/ part = "host" /\ PipesInit /\ HostInit /\ IdleReplay /\ IdleCheck /\ IdleCsv
          /\ breaks = "none"
       \/ part = "library" /\ PipesInit /\ IdleHost /\ IdleReplay /\ IdleCsv
          /\ breaks = "none" /\ \E f \in {GoodFolder, WarnedFolder} : FolderInit(f, TRUE, "good")
       \/ part = "script" /\ IdleHost /\ IdleCheck /\ IdleCsv
          /\ \E s \in Scripts : ReplayInit(s) /\ breaks = s.rule
       \/ part = "folder" /\ PipesInit /\ IdleHost /\ IdleReplay /\ IdleCsv
          /\ breaks = "none"
          /\ \/ \E f \in Folders : FolderInit(f, HasError(StructureFindings(f)), "good")
             \/ \E how \in Misuses : FolderInit(GoodFolder, how = "no fixture", how)
       \/ part = "table" /\ PipesInit /\ IdleHost /\ IdleReplay /\ IdleCheck
          /\ breaks = "none" /\ CsvInit(Tables)

ASSUME FoldersAreFolders == Folders \subseteq Folder /\ Misuses \subseteq Calls

TheFile == CHOOSE f \in Files \ Unreadable : TRUE

HostStep ==
    /\ part = "host" /\ HostNext
    /\ UNCHANGED <<replay, check, request, result, csv, heard, part, breaks>>

LibraryStep ==
    /\ part = "library" /\ LibraryNext(TheFile)
    /\ UNCHANGED <<host, replay, csv, heard, breaks>>

ScriptStep ==
    /\ part = "script" /\ ReplayNext
    /\ UNCHANGED <<host, library, check, request, result, csv, heard, part, breaks>>

CheckStep ==
    /\ part \in {"script", "folder"} /\ HeardNext(TheFile)
    /\ UNCHANGED <<host, library, replay, csv, part, breaks>>

TableStep ==
    /\ part = "table" /\ CsvNext
    /\ UNCHANGED <<pipes, library, host, replay, check, request, result, heard, part, breaks>>

Next == HostStep \/ LibraryStep \/ ScriptStep \/ CheckStep \/ TableStep

Spec == Init /\ [][Next]_vars

\* Every fixture is found out by the rule it was written to break, if its
\* plugin answers in time, and the report says so; the fixture that breaks
\* none is passed (behavior.rs, main.rs).
FaultIsFound ==
    (part = "script" /\ at = "reported" /\ slow # "answering") =>
        IF breaks = "none" THEN slow = "no" => report.exit = 0
        ELSE breaks # "rejected" =>
                report.exit # 0 /\ breaks \notin report.passed
                /\ \E f \in findings : f.rule = breaks
=============================================================================
