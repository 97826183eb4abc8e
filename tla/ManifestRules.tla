---------------------------- MODULE ManifestRules ----------------------------
(***************************************************************************)
(* Two readers of one plugin folder.  The first phase of `plugin check`    *)
(* (structure.rs, with plugin-manifest.schema.json) turns a folder into    *)
(* findings for its author; the host (manifest.rs) accepts or refuses the  *)
(* same folder when it scans it, and cuts its presets to what it supports. *)
(* Neither calls the other.                                                *)
(*                                                                         *)
(* A folder is a record; strings stand for what the two tell apart.  A     *)
(* text is "absent", "empty", "blank" or "text".  A version is [n, form]:  *)
(* n orders it, form says who can read it - "strict" both, "loose" only    *)
(* the schema and the lax reader (1.0.0-01), "none" nobody.                *)
(***************************************************************************)
EXTENDS Findings, FiniteSets, Functions

CONSTANTS
    HostVersion,    \* PROTOCOL_VERSION
    PresetLimit,    \* PRESET_MAX_COUNT
    EntryLimit      \* PRESET_MAX_ENTRIES

ASSUME LimitsAssumption == {HostVersion, PresetLimit, EntryLimit} \subseteq Nat

Word     == {"empty", "blank", "text"}
Text     == Word \cup {"absent"}
Version  == [n : Nat, form : {"strict", "loose", "none"}]
Name     == [zh : Word, en : Word]
Entries  == Seq({"good", "blank", "empty", "none"})
Commands == {"rel", "rel gone", "rel, no .exe", "rel, has .exe", "abs", "abs gone", "python",
             "python gone", "on path", "local", "blank", "empty", "absent"}
Tool     == [tool : {"AnalysisBuddy", "other"}, req : {"absent", "bad", "met", "unmet"},
             gap : {"space", "tab"}]
LogEntry == [version : Version, date : {"good", "range", "bad"}, notes : BOOLEAN]
Group    == [id : Nat, name : Name, entries : Entries]
Preset   == [id : Nat, idShape : BOOLEAN, name : Name, entries : Entries, groups : Seq(Group),
             keywords : Seq(Word)]

Folder == [os : {"unix", "windows"}, rooted : BOOLEAN, nested : {"none", "other", "same"},
    text : {"json", "unreadable", "garbage", "array"},
    idShape : BOOLEAN, isFolderName : BOOLEAN, name : Text, version : Version,
    command : Commands, override : Commands, workdir : {"absent", "rel", "abs", "gone"},
    extensions : {"some", "none", "absent", "illegal"},
    fingerprints : {"some", "none", "absent", "blank"}, minProtocol : Nat,
    author : Text, repository : {"absent", "https", "http"}, update : {"absent", "good", "bad"},
    tools : Seq(Tool), changelog : Seq(LogEntry), presets : Seq(Preset)]

IsBlank(t) == t \in {"empty", "blank"}
BlankIn(name) == IsBlank(name.zh) \/ IsBlank(name.en)
EmptyIn(name) == name.zh = "empty" \/ name.en = "empty"
Repeats(seq, i) == \E j \in 1 .. i - 1 : seq[j].id = seq[i].id

\* What the two readers say of a path, a command and a text.
Absolute(path) == path \in {"abs", "abs gone"}
Interpreter(command) == command \in {"python", "python gone"}
OnPath(command) == command \in {"python", "on path"}
InFolder(command) == command \in {"rel", "abs", "rel, no .exe", "local"}
LaxVersion(v) == v.form # "none"
StrictVersion(v) == v.form = "strict"
HttpsUrl(url) == url = "https"
RealDate(d) == d = "good"
ShapedDate(d) == d # "bad"

\* Other manifests below the root.
Nested(f) == f.nested # "none"
IdTakenInTree(f) == f.nested = "same"

(***************************************************************************)
(* The check: MAN-01 is the JSON schema, the others are semantic           *)
(***************************************************************************)
SchemaBreaks(f) ==
    \/ f.text = "array"
    \/ ~f.idShape
    \/ f.name \in {"absent", "empty"}
    \/ ~LaxVersion(f.version)
    \/ f.command \in {"absent", "empty"}
    \/ f.extensions = "absent"
    \/ f.minProtocol < 1
    \/ Len(f.presets) > PresetLimit
    \/ \E i \in DOMAIN f.presets : LET p == f.presets[i] IN
        \/ ~p.idShape
        \/ EmptyIn(p.name) \/ Len(p.entries) > EntryLimit
        \/ "none" \in Range(p.entries) \/ "empty" \in Range(p.keywords)
        \/ \E g \in Range(p.groups) :
              EmptyIn(g.name) \/ Len(g.entries) > EntryLimit \/ "none" \in Range(g.entries)

\* MAN-02: the folder's name is the plugin's id, once in the tree.
IdFindings(f) ==
    When(~f.isFolderName, Error("MAN-02")) \cup When(IdTakenInTree(f), Error("MAN-02"))

\* MAN-03 and MAN-04: the command and the working directory, as files.  Every
\* command is looked for in the folder first, python also on the PATH.
EntryFindings(f) ==
    LET c == f.command IN
    When(Absolute(c) \/ Absolute(f.workdir), Warn("MAN-04"))
    \cup When(c # "absent" /\ ~InFolder(c),
              IF Interpreter(c) THEN When(~OnPath(c), Warn("MAN-03")) ELSE Error("MAN-03"))
    \cup When(f.workdir = "gone", Error("MAN-03"))

\* MAN-05.
ProtocolFindings(f) == When(f.minProtocol > HostVersion, Error("MAN-05"))

MatchFindings(f) ==
    When(f.extensions \in {"absent", "none"} /\ f.fingerprints \in {"absent", "none"},
         Warn("MAN-06"))

VersionFindings(f) == When(~LaxVersion(f.version), Warn("MAN-07"))

\* Both readers' view of the optional repository.
BadUrl(url) == url # "absent" /\ ~HttpsUrl(url)

OriginFindings(f) ==
    When(IsBlank(f.author), Error("MAN-10")) \cup When(BadUrl(f.repository), Error("MAN-10"))

\* MAN-11 reads every tool's requirement, whatever the tool and the gap.
ToolFindings(f) ==
    Each(f.tools, LAMBDA t : When(t.req \in {"absent", "bad"}, Error("MAN-11")))

EntriesFindings(log) ==
    Each(log, LAMBDA e : When(~LaxVersion(e.version) \/ ~RealDate(e.date) \/ ~e.notes,
                              Error("MAN-12")))

OwnVersionFindings(f) ==
    When(f.changelog # <<>> /\ \A e \in Range(f.changelog) : e.version # f.version,
         Error("MAN-13"))

\* By how much each version exceeds the next, where both can be read.
Drops(log) ==
    {log[i].version.n - log[i + 1].version.n : i \in
        {i \in 1 .. Len(log) - 1 :
            StrictVersion(log[i].version) /\ StrictVersion(log[i + 1].version)}}

\* As ChangelogFindings, without the equal neighbours.
ChangelogFindingsTies(f) ==
    EntriesFindings(f.changelog) \cup OwnVersionFindings(f)
    \cup When(\E d \in Drops(f.changelog) : d < 0, Error("MAN-13"))

\* MAN-12: each entry's fields.  MAN-13: newest first, without a tie, and the
\* manifest's own version among them.
ChangelogFindings(f) ==
    EntriesFindings(f.changelog) \cup OwnVersionFindings(f)
    \cup When(\E d \in Drops(f.changelog) : d <= 0, Error("MAN-13"))

BlankEntries(entries) == Range(entries) \cap {"blank", "empty"} # {}

Doubtful(p) ==
    \/ BlankIn(p.name) \/ BlankEntries(p.entries)
    \/ \E w \in Range(p.keywords) : IsBlank(w)
    \/ \E g \in Range(p.groups) : BlankIn(g.name) \/ BlankEntries(g.entries)

RepeatsAnId(seq) == \E i \in DOMAIN seq : Repeats(seq, i)

\* As PresetFindings, without the look at the ids of groups.
PresetFindingsPerGroup(f) ==
    Each(f.presets, LAMBDA p : When(Doubtful(p), Warn("MAN-14")))
    \cup When(RepeatsAnId(f.presets), Warn("MAN-14"))

\* MAN-14: whatever the host would cut away.
PresetFindings(f) ==
    Each(f.presets, LAMBDA p : When(Doubtful(p) \/ RepeatsAnId(p.groups), Warn("MAN-14")))
    \cup When(RepeatsAnId(f.presets), Warn("MAN-14"))

SemanticFindings(f) ==
    IdFindings(f) \cup EntryFindings(f) \cup ProtocolFindings(f) \cup MatchFindings(f)
    \cup VersionFindings(f) \cup OriginFindings(f) \cup ToolFindings(f)
    \cup ChangelogFindings(f) \cup PresetFindings(f)

\* MAN-08 first: one manifest, at the root.  An unreadable one ends the phase.
StructureFindings(f) ==
    IF ~f.rooted THEN Error("MAN-08")
    ELSE When(Nested(f), Error("MAN-08"))
         \cup IF f.text \in {"unreadable", "garbage"} THEN Error("MAN-01")
              ELSE IF f.text = "array" THEN Error("MAN-01") \cup Warn("MAN-06")
              ELSE When(SchemaBreaks(f), Error("MAN-01")) \cup SemanticFindings(f)

(***************************************************************************)
(* The host                                                                *)
(***************************************************************************)
\* What serde demands of the Manifest type.
NoManifest(f) ==
    \/ f.text # "json" \/ f.name = "absent" \/ f.command = "absent"
    \/ f.extensions = "absent" \/ \E e \in Range(f.changelog) : ~e.notes

\* An item is split at its first space; other tools are none of its business.
ToolRefused(t) ==
    t.gap # "space" \/ (t.tool = "AnalysisBuddy" /\ t.req \in {"absent", "bad", "unmet"})

ChangelogRefused(log) ==
    \/ \E e \in Range(log) : ~StrictVersion(e.version) \/ ~ShapedDate(e.date)
    \/ \E i \in 1 .. Len(log) - 1 : log[i].version.n <= log[i + 1].version.n

\* A platform's own command wins.  A path is looked for in the folder, with the
\* suffix the platform likes better if need be; a bare name only on the PATH.
Command(f) == IF f.override = "absent" THEN f.command ELSE f.override

EntryFound(f) ==
    \/ Command(f) \in {"rel", "abs"} \/ OnPath(Command(f))
    \/ Command(f) = "rel, no .exe" /\ f.os = "windows"
    \/ Command(f) = "rel, has .exe" /\ f.os = "unix"

MatchRefused(f) == f.extensions = "illegal" \/ f.fingerprints = "blank"
UpdateRefused(f) == f.update = "bad"
OriginRefused(f) == IsBlank(f.author) \/ BadUrl(f.repository)

\* Why the plugin list shows a folder as invalid.
DiscoveryError ==
    {"missing", "unreadable", "id", "field", "entry", "too new", "tool", "command", "workdir"}

\* Of load_manifest and validate, in this order, and resolve_entry after them.
HostVerdict(f) ==
    IF ~f.rooted                                        THEN "missing"
    ELSE IF NoManifest(f)                               THEN "unreadable"
    ELSE IF ~f.idShape                                  THEN "id"
    ELSE IF f.name = "empty" \/ ~StrictVersion(f.version) THEN "field"
    ELSE IF IsBlank(f.command)                          THEN "entry"
    ELSE IF MatchRefused(f)                             THEN "field"
    ELSE IF f.minProtocol > HostVersion                 THEN "too new"
    ELSE IF UpdateRefused(f)                            THEN "field"
    ELSE IF \E t \in Range(f.tools) : ToolRefused(t)    THEN "tool"
    ELSE IF ChangelogRefused(f.changelog) \/ OriginRefused(f) THEN "field"
    ELSE IF ~EntryFound(f)                              THEN "command"
    ELSE IF f.workdir = "gone"                          THEN "workdir"
    ELSE "accepted"

PresetProblem(p) ==
    \/ ~p.idShape \/ BlankIn(p.name) \/ Len(p.entries) > EntryLimit
    \/ \E g \in Range(p.groups) : Len(g.entries) > EntryLimit

\* The elements at positions I, in their order.
Pick(seq, I) ==
    [n \in 1 .. Cardinality(I) |->
        seq[CHOOSE i \in I : Cardinality({k \in I : k <= i}) = n]]

KeptKeywords(words) == Pick(words, {i \in DOMAIN words : ~IsBlank(words[i])})
KeptEntries(entries) == Pick(entries, {i \in DOMAIN entries : entries[i] = "good"})

\* Of the positions I the first of each id stays; what is dropped for another
\* reason, a nameless group say, does not take its id along.
Firsts(seq, I) == {i \in I : \A j \in I : j < i => seq[j].id # seq[i].id}

KeptGroups(groups) ==
    LET named == {i \in DOMAIN groups : ~BlankIn(groups[i].name)}
        kept  == Pick(groups, Firsts(groups, named)) IN
    [i \in DOMAIN kept |-> [kept[i] EXCEPT !.entries = KeptEntries(@)]]

Allowed(presets) == {i \in DOMAIN presets : i <= PresetLimit}

SanitizePresets(presets) ==
    LET sound == {i \in Allowed(presets) : ~PresetProblem(presets[i])}
        kept  == Pick(presets, Firsts(presets, sound)) IN
    [i \in DOMAIN kept |-> [kept[i] EXCEPT !.entries = KeptEntries(@),
                                           !.groups = KeptGroups(@),
                                           !.keywords = KeptKeywords(@)]]
=============================================================================
