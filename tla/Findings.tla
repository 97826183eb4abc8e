------------------------------ MODULE Findings ------------------------------
(***************************************************************************)
(* What `plugin check` says of a plugin: a set of findings, each with its  *)
(* rule and its level, and the report made of them (rules.rs, and the end  *)
(* of main.rs).                                                            *)
(***************************************************************************)
EXTENDS Integers, Sequences

StructureRules == {"MAN-01", "MAN-02", "MAN-03", "MAN-04", "MAN-05", "MAN-06", "MAN-07",
    "MAN-08", "MAN-09", "MAN-10", "MAN-11", "MAN-12", "MAN-13", "MAN-14"}
BehaviorRules == {"BEH-01", "BEH-02", "BEH-03", "BEH-04", "BEH-05", "BEH-06", "BEH-07",
    "BEH-08", "BEH-09", "BEH-10", "BEH-11", "BEH-12", "BEH-13"}

Error(rule) == {[rule |-> rule, level |-> "error"]}
Warn(rule)  == {[rule |-> rule, level |-> "warning"]}
When(condition, found) == IF condition THEN found ELSE {}
Each(seq, Found(_)) == UNION {Found(seq[i]) : i \in DOMAIN seq}

HasError(findings) == \E f \in findings : f.level = "error"

ExitCode(findings) == IF HasError(findings) THEN 2 ELSE IF findings # {} THEN 1 ELSE 0

\* The rules that were looked at and broken by nothing.  The behaviour rules
\* count as looked at once the replay came to its end.
Passed(findings, replayed) ==
    (StructureRules \cup IF replayed THEN BehaviorRules ELSE {})
        \ {f.rule : f \in findings}
=============================================================================
