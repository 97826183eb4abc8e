---------------------------- MODULE ScriptedPlugin ----------------------------
(***************************************************************************)
(* The replay plugin of the tool tests: a script gives, for each method,   *)
(* the frames to write when a request of that method arrives.  A script is *)
(* a list of lines; the lines up to and including a reply make one block.  *)
(* The fixtures of the validator's tests are scripted the same way, with   *)
(* three things the replay plugin does not do: a line that is no frame, an *)
(* answer with an id of its own, and a way of not exiting.                 *)
(***************************************************************************)
EXTENDS PluginPipes, SequencesExt, FiniteSets

CONSTANT Scripts    \* the scripts: [lines, announces, exits]

VARIABLES
    script,     \* method -> block, the parsed script
    announced,  \* the custom_query capability was given on the command line
    exits,      \* when it exits: "prompt", "eof" or "never"
    loads,      \* load_file requests seen
    block,      \* what is left to play for the current request
    current     \* id of the current request

replay == <<script, announced, exits, loads, block, current>>

Methods == {"initialize", "schema", "can_handle", "load_file", "reload", "parse",
            "key_values", "unload_file", "cancel_parse", "shutdown"}

Reply(method, body)    == [do |-> "reply", method |-> method, code |-> "none", body |-> body]
Refuse(method, code)   == [do |-> "reply", method |-> method, code |-> code, body |-> "none"]
Misdirect(method, body) == [do |-> "misdirect", method |-> method, code |-> "none", body |-> body]
Emit(kind, body)       == [do |-> "emit", method |-> kind, code |-> "none", body |-> body]
Say(line)              == [do |-> "say", method |-> line, code |-> "none", body |-> "none"]
Sleep                  == [do |-> "sleep", method |-> "none", code |-> "none", body |-> "none"]

Ends(instr) == instr.do \in {"reply", "misdirect"}

\* A reply with a result is checked against the type of its method; an error
\* may answer any; a notification is of one of the two kinds.
Valid(instr) ==
    CASE Ends(instr)          -> instr.code # "none" \/ instr.method \in Methods
      [] instr.do = "emit"    -> instr.method \in {"batch", "progress"}
      [] OTHER                -> TRUE

NoScript == [m \in {"rejected"} |-> <<>>]

\* One block per method, none left open at the end; anything else rejects
\* the whole script.
ParseScript(lines) ==
    LET closings == {i \in DOMAIN lines : Ends(lines[i])}
        opening(i) == 1 + (CHOOSE j \in closings \cup {0} :
                             /\ j < i
                             /\ \A k \in closings : k < i => k <= j)
        whole == /\ \A i \in DOMAIN lines : Valid(lines[i])
                 /\ \A i, j \in closings : lines[i].method = lines[j].method => i = j
                 /\ lines # <<>> => Ends(Last(lines))
        blockOf(m) == LET i == CHOOSE j \in closings : lines[j].method = m
                      IN SubSeq(lines, opening(i), i)
    IN IF whole
       THEN [m \in {lines[i].method : i \in closings} |-> blockOf(m)]
       ELSE NoScript

\* --caps custom_query turns the bit on in the scripted initialize result.
EnableCustomQuery(blocks) ==
    IF "initialize" \notin DOMAIN blocks THEN blocks
    ELSE [blocks EXCEPT !["initialize"] =
            [i \in DOMAIN @ |-> IF @[i].do = "reply" /\ @[i].code = "none"
                                THEN [@[i] EXCEPT !.body.query = "true"]
                                ELSE @[i]]]

\* A rejected script ends the process before it reads a request.
ReplayInit(s) ==
    LET blocks == ParseScript(s.lines) IN
    /\ script = IF s.announces THEN EnableCustomQuery(blocks) ELSE blocks
    /\ announced = s.announces
    /\ exits = s.exits
    /\ loads = 0
    /\ block = <<>>
    /\ current = 0
    /\ child = IF blocks = NoScript THEN "code1" ELSE "running"
    /\ stdin = <<>> /\ stdout = <<>> /\ stdinOpen = TRUE

\* The second load of a file has a block of its own in one fixture.
BlockFor(method) ==
    IF method = "load_file" /\ loads > 0 /\ "reload" \in DOMAIN script
    THEN script["reload"] ELSE script[method]

\* custom_query is answered from the flag, whatever the script says.
CustomQueryReply(req) ==
    IF ~announced THEN Refusal(req.id, "unsupported")
    ELSE IF req.arg = "echo" THEN Result(req.id, [data |-> "object"])
    ELSE Refusal(req.id, "invalid_params")

NextRequest(req) ==
    /\ block = <<>>
    /\ Arrives(req)
    /\ stdin' = Tail(stdin)
    /\ UNCHANGED <<stdinOpen, child, script, announced, exits>>

HandleCustomQuery ==
    \E req \in {Head(stdin)} :
      /\ NextRequest(req)
      /\ req.method = "custom_query"
      /\ Write(CustomQueryReply(req))
      /\ UNCHANGED <<loads, block, current>>

HandleUnknown ==
    \E req \in {Head(stdin)} :
      /\ NextRequest(req)
      /\ req.method \notin DOMAIN script \cup {"custom_query"}
      /\ Write(Refusal(req.id, "method_not_found"))
      /\ UNCHANGED <<loads, block, current>>

HandleScripted ==
    \E req \in {Head(stdin)} :
      /\ NextRequest(req)
      /\ req.method \in DOMAIN script
      /\ block' = BlockFor(req.method)
      /\ current' = req.id
      /\ loads' = IF req.method = "load_file" THEN loads + 1 ELSE loads
      /\ UNCHANGED stdout

\* The instructions of a block run in order, one frame at a time; after the
\* answer to shutdown the process exits.
Play ==
    /\ child = "running"
    /\ block # <<>>
    /\ LET instr == Head(block) IN
        /\ block' = Tail(block)
        /\ stdout' = CASE instr.do = "reply" ->
                            Append(stdout, IF instr.code = "none"
                                           THEN Result(current, instr.body)
                                           ELSE Refusal(current, instr.code))
                       [] instr.do = "misdirect" ->
                            Append(stdout, Result(current + 1, instr.body))
                       [] instr.do = "emit" ->
                            Append(stdout, Notify(instr.method, instr.body))
                       [] instr.do = "say" -> Append(stdout, Noise(instr.method))
                       [] instr.do = "sleep" -> stdout
        /\ child' = IF Ends(instr) /\ instr.method = "shutdown" /\ exits = "prompt"
                    THEN "code0" ELSE child
    /\ UNCHANGED <<stdin, stdinOpen, script, announced, exits, loads, current>>

ReplayEnds ==
    /\ child = "running" /\ block = <<>> /\ stdin = <<>> /\ ~stdinOpen
    /\ exits # "never"
    /\ Exit("code0")
    /\ UNCHANGED <<stdin, stdinOpen, stdout, replay>>

ReplayNext ==
    \/ stdin # <<>> /\ (HandleCustomQuery \/ HandleUnknown \/ HandleScripted)
    \/ Play
    \/ ReplayEnds

=============================================================================
