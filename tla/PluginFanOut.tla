------------------------------ MODULE PluginFanOut ------------------------------
(***************************************************************************)
(* Questions the engine puts to several plugins at once: whether they can  *)
(* handle a file (match_file of ab-engine's pipeline_bridge.rs), and what  *)
(* values their files have at an instant (query_key_values); with the      *)
(* vendor query, which goes to one (query_custom_query).  A task is        *)
(* spawned for each plugin or file, each has its own timeout, and the      *)
(* caller awaits them in the order in which it spawned them.               *)
(*                                                                         *)
(* Plugins are numbered in the order of their ids.  The sessions           *)
(* themselves are SessionDirectory's and PluginSession's subject.          *)
(***************************************************************************)
EXTENDS Integers, SequencesExt

CONSTANTS
  Ids,      \* plugins
  Files,
  Levels,   \* confidences a plugin may claim, in hundredths
  Codes,    \* errors a plugin may answer with
  MaxNamed  \* bound on the files a question names

ASSUME FanAssumption ==
  /\ IsFiniteSet(Ids) /\ Ids \subseteq Nat \ {0}
  /\ IsFiniteSet(Files) /\ Levels \subseteq Nat /\ MaxNamed \in Nat

VARIABLES
  kind,     \* the question: "none", "match", "values" or "vendor"
  items,    \* whom it goes to: plugins whose manifest fits, or files
  owner,    \* the plugin of each task spawned so far, 0 if the file has none
  findings, \* what each task has come to
  got,      \* what the caller has gathered
  answer,   \* what it returned
  index,    \* file_index: each listed file's plugin, 0 if it is not listed
  gone      \* plugins without a live session in the registry

fanVars == <<kind, items, owner, findings, got, answer, index, gone>>
question == <<kind, items>>
world    == <<index, gone>>

Running == [is |-> "running"]
Asking  == [is |-> "asking"]
Entries == [is |-> "entries"]
Fault(e) == [is |-> "error", code |-> e]
Claim(p, c) == [is |-> "claim", plugin |-> p, confidence |-> c]
Abstains == [is |-> "none"]

FanInit ==
  /\ kind = "none" /\ items = <<>> /\ owner = <<>> /\ findings = <<>> /\ got = <<>>
  /\ answer = <<>>
  /\ index \in [Files -> Ids \cup {0}] /\ gone \in SUBSET Ids

Ask(k, s) ==
  /\ kind = "none" /\ kind' = k /\ items' = s
  /\ UNCHANGED <<owner, findings, got, answer, world>>

\* manifest_prefilter: some of the discovered plugins, in discovery's order.
AskWhoCan(fitting) == Ask("match", fitting)

\* No file named means every frozen file (effective_file_ids): of the listed
\* ones, those that are not being imported any more.
Named(fs, frozen) == IF fs = <<>> THEN SetToSeq(frozen) ELSE fs
AskValues(fs) ==
  \E frozen \in SUBSET {f \in Files : index[f] # 0} : Ask("values", Named(fs, frozen))

AskVendor(f) == Ask("vendor", <<f>>)

\* The file's plugin is looked up as the task is spawned; a file without one
\* needs no plugin to fail.
Spawn ==
  /\ kind # "none" /\ Len(findings) < Len(items)
  /\ LET x == items[Len(findings) + 1]
         p == IF kind = "match" THEN x ELSE index[x] IN
     /\ owner' = Append(owner, p)
     /\ findings' = Append(findings, IF p = 0 THEN Fault("not ready") ELSE Running)
  /\ UNCHANGED <<question, got, answer, world>>

Becomes(i, r) ==
  /\ findings' = [findings EXCEPT ![i] = r]
  /\ UNCHANGED <<question, owner, got, answer, world>>

\* probe_plugin: no session, an error, a timeout and a plain no are all one.
CanHandle(i) ==
  /\ kind = "match" /\ findings[i] = Running
  /\ \/ Becomes(i, Abstains)
     \/ owner[i] \notin gone /\ \E c \in Levels : Becomes(i, Claim(owner[i], c))

\* The registry is read by the task, after the index.
FindSession(i) ==
  /\ kind # "match" /\ findings[i] = Running
  /\ Becomes(i, IF owner[i] \in gone THEN Fault("gone") ELSE Asking)

Replies(i) ==
  /\ findings[i] = Asking /\ owner[i] \notin gone
  /\ Becomes(i, Entries) \/ \E c \in Codes : Becomes(i, Fault(c))

\* Two timers of ten seconds run at once, this task's and the one of
\* RpcChannel::call, whose error reads as a session that is gone.
TimesOut(i) == findings[i] = Asking /\ \E e \in {"timeout", "gone"} : Becomes(i, Fault(e))

SessionEnds(i) == findings[i] = Asking /\ owner[i] \in gone /\ Becomes(i, Fault("gone"))

\* As Gather, in the order in which the tasks end.
GatherFirstDone ==
  /\ Len(findings) = Len(items) /\ answer = <<>>
  /\ \E i \in DOMAIN findings :
        /\ findings[i] \notin {Running, Asking}
        /\ Len(SelectSeq(got, LAMBDA r : r = findings[i]))
             < Cardinality({j \in DOMAIN findings : findings[j] = findings[i]})
        /\ got' = Append(got, findings[i])
  /\ UNCHANGED <<question, owner, findings, answer, world>>

\* The tasks are awaited one after the other, whatever they have come to.
Gather ==
  /\ Len(findings) = Len(items) /\ Len(got) < Len(items)
  /\ LET next == findings[Len(got) + 1] IN
        next \notin {Running, Asking} /\ got' = Append(got, next)
  /\ UNCHANGED <<question, owner, findings, answer, world>>

\* By falling confidence, then by id.
Leads(a, b) ==
  a.confidence > b.confidence \/ (a.confidence = b.confidence /\ a.plugin < b.plugin)

Sorted(s) == \A i, j \in DOMAIN s : i < j => Leads(s[i], s[j])

Ranked(claims) == CHOOSE s \in Bijection(1 .. Cardinality(claims), claims) : Sorted(s)

\* Nobody, or two that come closer than a tenth.
NeedsUserChoice(ranked) ==
  \/ ranked = <<>>
  \/ Len(ranked) > 1 /\ ranked[1].confidence - ranked[2].confidence < 10

MatchDone ==
  /\ kind = "match" /\ answer = <<>> /\ Len(got) = Len(items) /\ Len(findings) = Len(items)
  /\ LET ranked == Ranked({r \in Range(got) : r.is = "claim"}) IN
        answer' = <<[candidates |-> ranked,
                     chosen |-> IF NeedsUserChoice(ranked) THEN 0 ELSE ranked[1].plugin]>>
  /\ UNCHANGED <<question, owner, findings, got, world>>

\* ipc_errors.rs: the plugin's codes by name, the rest as internal errors.
CodeName(code) ==
  IF code \in {"plugin_busy", "file_load_failed", "parse_failed", "cancelled", "unsupported"}
  THEN code ELSE "internal"

ValuesError(e) ==
  CASE e = "timeout"   -> "timeout"
    [] e = "gone"      -> "plugin_crashed"
    [] e = "not ready" -> "file_not_found"
    [] OTHER           -> CodeName(e)

\* A method the plugin does not know and one it does not support are one.
VendorError(e) ==
  CASE e = "method_not_found" -> "unsupported"
    [] e = "invalid_params"   -> "invalid_params"
    [] OTHER                  -> ValuesError(e)

Shown(r) ==
  IF r.is = "entries" THEN "entries"
  ELSE IF kind = "vendor" THEN VendorError(r.code) ELSE ValuesError(r.code)

ValuesDone ==
  /\ kind \in {"values", "vendor"} /\ answer = <<>> /\ items # <<>>
  /\ Len(findings) = Len(items) /\ Len(got) = Len(items)
  /\ answer' = [i \in DOMAIN items |-> [file |-> items[i], shows |-> Shown(got[i])]]
  /\ UNCHANGED <<question, owner, findings, got, world>>

\* The rest of the engine goes on: files are unloaded, sessions end.
WorldMoves ==
  /\ \/ \E f \in Files : index[f] # 0 /\ index' = [index EXCEPT ![f] = 0] /\ UNCHANGED gone
     \/ \E p \in Ids \ gone : gone' = gone \cup {p} /\ UNCHANGED index
  /\ UNCHANGED <<question, owner, findings, got, answer>>

Task(i) == CanHandle(i) \/ FindSession(i) \/ Replies(i) \/ TimesOut(i) \/ SessionEnds(i)

FanNext ==
  \/ \E fitting \in SetToAllKPermutations(Ids) : AskWhoCan(fitting)
  \/ \E fs \in {<<>>} \cup SeqOf(Files, MaxNamed) : AskValues(fs)
  \/ \E f \in Files : AskVendor(f)
  \/ Spawn \/ (\E i \in DOMAIN findings : Task(i)) \/ Gather
  \/ MatchDone \/ ValuesDone \/ WorldMoves

FanSpec == FanInit /\ [][FanNext]_fanVars

-----------------------------------------------------------------------------
(* Properties *)

\* Each file's line in the answer says what its own plugin said, in the order
\* in which the files were asked for, and each plugin that claimed a file in
\* time is a candidate: the failure or slowness of one plugin costs no other
\* its answer (query_key_values, match_file).  A plugin is chosen unasked only
\* if every other comes at least a tenth behind.
AnswersAreTheirOwn ==
  answer # <<>> =>
    IF kind = "match"
    THEN LET claims == {r \in Range(findings) : r.is = "claim"} IN
         /\ Range(answer[1].candidates) = claims
         /\ answer[1].chosen # 0 =>
              \E c \in claims : /\ c.plugin = answer[1].chosen
                                /\ \A d \in claims \ {c} : c.confidence >= d.confidence + 10
    ELSE /\ Len(answer) = Len(items)
         /\ \A i \in DOMAIN items : /\ answer[i].file = items[i]
                                    /\ answer[i].shows = Shown(findings[i])

-----------------------------------------------------------------------------
(* The inductive invariant of PluginModulesProofs *)

Errors == Codes \cup {"not ready", "gone", "timeout"}
Outcomes == {Running, Asking, Entries, Abstains} \cup {Fault(e) : e \in Errors}
              \cup {Claim(p, c) : p \in Ids, c \in Levels}

FanTypeOK ==
  /\ kind \in {"none", "match", "values", "vendor"}
  /\ items \in IF kind = "match" THEN Seq(Ids) ELSE Seq(Files)
  /\ owner \in Seq(Ids \cup {0}) /\ findings \in Seq(Outcomes) /\ got \in Seq(Outcomes)
  /\ index \in [Files -> Ids \cup {0}] /\ gone \subseteq Ids

\* One task for each item; the caller's results are those of the first tasks,
\* which are over.
TasksInv ==
  /\ Len(owner) = Len(findings) /\ Len(findings) <= Len(items) /\ Len(got) <= Len(items)
  /\ kind = "match" => owner \in Seq(Ids)
  /\ kind = "none" => items = <<>> /\ answer = <<>>
  /\ got # <<>> \/ answer # <<>> => Len(findings) = Len(items)
  /\ answer # <<>> => Len(got) = Len(items)
  /\ \A i \in DOMAIN got : got[i] = findings[i] /\ findings[i] \notin {Running, Asking}

FanInv == FanTypeOK /\ TasksInv /\ AnswersAreTheirOwn
=============================================================================
