----------------------------- MODULE PluginPipes -----------------------------
(***************************************************************************)
(* The two pipes between a plugin process and whoever started it: one      *)
(* JSON-RPC frame per line on stdin and on stdout.  A frame keeps what the *)
(* readers branch on: how the line reads, what it is, which request it     *)
(* answers, its error code ("none" for a result) and its content.          *)
(***************************************************************************)
EXTENDS Naturals, Sequences

VARIABLES
    stdin,      \* requests written and not yet read by the plugin
    stdinOpen,  \* the starter still holds the write end
    stdout,     \* lines written by the plugin and not yet read
    child       \* "running", "code0", "code1" or "killed"

pipes == <<stdin, stdinOpen, stdout, child>>

\* How a line reads, in the order the reader looks: length, byte order mark,
\* carriage return, JSON, and the NaN literals told apart among the rest.
Lines == {"long", "bom", "cr", "json", "nan", "text"}

Request(id, method, arg) == [id |-> id, method |-> method, arg |-> arg]

Result(id, body) ==
    [line |-> "json", kind |-> "answer", id |-> id, code |-> "none", body |-> body]

Refusal(id, code) ==
    [line |-> "json", kind |-> "answer", id |-> id, code |-> code, body |-> "none"]

Notify(kind, body) ==
    [line |-> "json", kind |-> kind, id |-> 0, code |-> "none", body |-> body]

Noise(line) ==
    [line |-> line, kind |-> "noise", id |-> 0, code |-> "none", body |-> "none"]

PipesInit ==
    /\ stdin = <<>>
    /\ stdinOpen = TRUE
    /\ stdout = <<>>
    /\ child = "running"

\* One frame is written whole, under the lock of the writer, and flushed.
Write(frame) == stdout' = Append(stdout, frame)

\* The plugin's reader: the next request, if the process still runs.
Arrives(req) ==
    /\ child = "running"
    /\ stdin # <<>>
    /\ req = Head(stdin)

Exit(code) == child' = code

=============================================================================
