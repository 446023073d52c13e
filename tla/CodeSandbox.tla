---------------------------- MODULE CodeSandbox ----------------------------
(***************************************************************************)
(* One execution of a code node (runner/src/nodes/code-executors): the     *)
(* node checks its arguments and its script, makes a directory, and runs   *)
(* three processes in it, one after the other: npm, tsc and the script.    *)
(* nsjail, where it is used, kills a process after a time; without it      *)
(* (DISABLE_NSJAIL) nothing limits how long a process runs.                *)
(*                                                                         *)
(* The script writes characters to two pipes that the runner reads in      *)
(* chunks of any size.  The node goes on with the first line of stdout     *)
(* that starts with "__FUNCTION_RESULT__", while the script may run on,    *)
(* write and exit as it likes; its directory is removed under it.          *)
(*                                                                         *)
(* Output is a sequence of tokens, and a chunk may end after any of them.  *)
(* "nl" ends a line, and "__FUNCTION", "_RESULT__" is the marker.  "lead", *)
(* "trail" is a text with a character of several bytes, up to the middle   *)
(* of this character and from there on: each chunk is decoded alone, so    *)
(* halves that come in two chunks are both replaced (by U+FFFD), which     *)
(* makes them "lead?" and "trail?".  After the marker "object", or "lead", *)
(* "trail", is the JSON of an object and "null" that of null; all else is  *)
(* no JSON.  Directories have random names, which are taken to differ.     *)
(***************************************************************************)
EXTENDS Naturals, SequencesExt, FiniteSets

CONSTANTS
    MaxCharacters,  \* bound: what the script writes
    MaxFaults       \* bound: failing file system calls

ASSUME BoundsAssumption == MaxCharacters \in Nat /\ MaxFaults \in Nat

VARIABLES
    jailed,     \* the processes run under nsjail
    phase,      \* "called", the process that is awaited, or "settled"
    outcome,    \* what execute() returned: "ok" or the name of an error
    directory,  \* the sandbox directory exists
    process,    \* "none", "running", or how it exited
    written,    \* what the script has written to each pipe
    unread,     \* how much of it is still in the pipe
    buffer,     \* stdoutBuffer and stderrBuffer
    logs,       \* the lines of each pipe published as NODE_LOG
    faults

script == <<written, unread, buffer, logs>>
sandboxVars == <<jailed, phase, outcome, directory, process, written, unread, buffer, logs, faults>>

\* The processes of runTypeScriptJailed and runTypeScriptNoJail, which differ
\* in the commands only: the one that follows, and the error when one fails.
Following == [install |-> "compile", compile |-> "run"]
Failure == [install |-> "NpmInstall", compile |-> "Compilation"]

Exits == {"zero", "nonzero", "signal"}
EarlyErrors == {"MissingArgument", "MainFunctionMissing", "TypeError", "NpmInstall", "Compilation"}
Outcomes == {"ok", "altered", "Execution", "ParseResult", "NotAnObject", "FileSystem"} \cup EarlyErrors

Pipes == {"out", "err"}
Tokens == {"nl", "__FUNCTION", "_RESULT__", "object", "null", "lead", "trail"}

\* What a script can write at once.
Characters ==
    {<<"nl">>, <<"__FUNCTION", "_RESULT__">>, <<"object">>, <<"null">>, <<"lead", "trail">>}

\* Halves of a character that are decoded alone.
Replaced == [lead |-> "lead?", trail |-> "trail?"]

\* What the runner may take a token for.
Sounds == Tokens \cup {"lead?", "trail?"}
Text == Seq(Sounds)

\* data.toString(): only halves next to each other make a character.
Decode(chunk) ==
    [i \in DOMAIN chunk |->
        IF \/ chunk[i] = "lead" /\ (i = Len(chunk) \/ chunk[i + 1] # "trail")
           \/ chunk[i] = "trail" /\ (i = 1 \/ chunk[i - 1] # "lead")
        THEN Replaced[chunk[i]]
        ELSE chunk[i]]

\* startsWith("__FUNCTION_RESULT__")
IsResult(line) == Len(line) >= 2 /\ line[1] = "__FUNCTION" /\ line[2] = "_RESULT__"

\* What a token adds to the lines that were read, and to what follows them.
Reading(text, token) ==
    IF token = "nl" THEN [lines |-> Append(text.lines, text.rest), rest |-> <<>>]
                    ELSE [lines |-> text.lines, rest |-> Append(text.rest, token)]

\* The complete lines of some output, and what follows the last of them.
Split(output) ==
    LET text[n \in 0..Len(output)] ==
            IF n = 0 THEN [lines |-> <<>>, rest |-> <<>>] ELSE Reading(text[n - 1], output[n])
    IN  text[Len(output)]

\* The index of the first line that is a result, 0 if there is none.
FirstResult(lines) == SelectInSeq(lines, IsResult)

\* The lines that are printed before the first result.
Before(lines) ==
    IF FirstResult(lines) = 0 THEN lines ELSE SubSeq(lines, 1, FirstResult(lines) - 1)

\* JSON.parse, and Object.entries of what it returns. An object with a
\* replaced character in it is another one than the script has printed.
Parse(line) ==
    LET json == SubSeq(line, 3, Len(line)) IN
    CASE json \in {<<"object">>, <<"lead", "trail">>} -> "ok"
      [] json \in {<<"lead?", "trail?">>, <<"lead?", "trail">>, <<"lead", "trail?">>} -> "altered"
      [] json = <<"null">> -> "NotAnObject"
      [] OTHER -> "ParseResult"

-----------------------------------------------------------------------------
SandboxInit ==
    /\ jailed \in BOOLEAN
    /\ phase = "called" /\ outcome = "none"
    /\ directory = FALSE /\ process = "none"
    /\ written = [p \in Pipes |-> <<>>] /\ unread = [p \in Pipes |-> 0]
    /\ buffer = [p \in Pipes |-> <<>>] /\ logs = [p \in Pipes |-> <<>>]
    /\ faults = 0

\* CodeExecutorNode.execute, validateScript and parseCodeForRequiredModules,
\* which throws when a variable has no initial value, before there is a
\* directory.
Reject ==
    /\ phase = "called"
    /\ phase' = "settled"
    /\ outcome' \in {"MissingArgument", "MainFunctionMissing", "TypeError"}
    /\ UNCHANGED <<jailed, directory, process, script, faults>>

\* The directory, the script and the configuration are written. An error of
\* the file system is thrown to the node and leaves what there is.
Prepare ==
    /\ phase = "called"
    /\ \/ /\ phase' = "install" /\ process' = "running"
          /\ directory' = TRUE
          /\ UNCHANGED <<outcome, faults>>
       \/ /\ faults < MaxFaults /\ faults' = faults + 1
          /\ phase' = "settled" /\ outcome' = "FileSystem"
          /\ directory' \in BOOLEAN
          /\ UNCHANGED process
    /\ UNCHANGED <<jailed, script>>

\* cleanSandbox, then the result. When a result was parsed an error of rmSync
\* is caught, and the directory removed again; otherwise it is thrown.
Return(result) ==
    LET attempts == IF result \in {"ok", "altered", "NotAnObject"} THEN 2 ELSE 1 IN
    /\ phase' = "settled"
    /\ \E failed \in 0..attempts :
          /\ faults + failed <= MaxFaults
          /\ faults' = faults + failed
          /\ directory' = (failed = attempts)
          /\ outcome' = CASE failed = 0        -> result
                          [] failed = attempts -> "FileSystem"
                          [] OTHER             -> "ParseResult"

-----------------------------------------------------------------------------
(* The processes.                                                          *)

\* The script writes some of the tokens of a character.
Put(pipe, tokens) ==
    /\ process = "running" /\ phase \notin DOMAIN Following
    /\ written' = [written EXCEPT ![pipe] = @ \o tokens]
    /\ unread' = [unread EXCEPT ![pipe] = @ + Len(tokens)]
    /\ UNCHANGED <<jailed, phase, outcome, directory, buffer, logs, faults>>

Length(text) == Cardinality({i \in DOMAIN text : text[i] \notin {"_RESULT__", "trail"}})

Write(pipe, character) ==
    /\ Length(written["out"]) + Length(written["err"]) < MaxCharacters
    /\ Put(pipe, character)
    /\ UNCHANGED process

\* Killed in the middle of a character.
Die(pipe, character) ==
    /\ Put(pipe, <<Head(character)>>)
    /\ process' = "signal"

\* A process that could not be started fails like one that exits with an error.
Exit(code) ==
    /\ process = "running"
    /\ process' = code
    /\ UNCHANGED <<jailed, phase, outcome, directory, script, faults>>

-----------------------------------------------------------------------------
(* The runner.                                                             *)

\* The next chunk of a pipe, as it is decoded.
Piece(pipe, size) ==
    LET from == Len(written[pipe]) - unread[pipe]
    IN  Decode(SubSeq(written[pipe], from + 1, from + size))

\* Mutant: a chunk is split alone; what followed the last line is lost.
ReceivedUnbuffered(pipe, size) == Split(Piece(pipe, size))

\* stdoutBuffer += chunk, split into lines.
Received(pipe, size) == Split(buffer[pipe] \o Piece(pipe, size))

\* The lines that are logged, and what stays in the buffer.
Log(pipe, size, lines) ==
    /\ unread' = [unread EXCEPT ![pipe] = @ - size]
    /\ buffer' = [buffer EXCEPT ![pipe] = Received(pipe, size).rest]
    /\ logs' = [logs EXCEPT ![pipe] = @ \o lines]
    /\ UNCHANGED <<jailed, process, written>>

\* spawnWrappedFunctionProcessAsync, stdout "data": a result resolves the
\* promise and drops the rest of its chunk.
DataOut(size) ==
    LET lines == Received("out", size).lines
        first == FirstResult(lines)
    IN
    /\ Log("out", size, Before(lines))
    /\ IF first # 0 /\ phase = "run"
       THEN Return(Parse(lines[first]))
       ELSE UNCHANGED <<phase, outcome, directory, faults>>

\* The same, stderr "data".
DataErr(size) ==
    /\ Log("err", size, Received("err", size).lines)
    /\ UNCHANGED <<phase, outcome, directory, faults>>

\* spawnProcessAsync, "close": a process killed by a signal has no exit code
\* and counts as successful.
ClosePreparation ==
    /\ phase \in DOMAIN Following
    /\ process \in Exits
    /\ IF process = "nonzero"
       THEN process' = "none" /\ Return(Failure[phase])
       ELSE /\ process' = "running"
            /\ phase' = Following[phase]
            /\ UNCHANGED <<outcome, directory, faults>>
    /\ UNCHANGED <<jailed, script>>

\* Mutant: no error when the script ends without a result.
CloseScriptSilently ==
    /\ phase \notin DOMAIN Following
    /\ process \in Exits /\ \A p \in Pipes : unread[p] = 0
    /\ process' = "none"
    /\ IF phase = "run" /\ IsResult(buffer["out"])
       THEN Return(Parse(buffer["out"]))
       ELSE UNCHANGED <<phase, outcome, directory, faults>>
    /\ UNCHANGED <<jailed, script>>

\* spawnWrappedFunctionProcessAsync, "close": whatever the exit code, the last
\* line counts without its end.
CloseScript ==
    /\ phase \notin DOMAIN Following
    /\ process \in Exits /\ \A p \in Pipes : unread[p] = 0
    /\ process' = "none"
    /\ IF phase = "run"
       THEN Return(IF IsResult(buffer["out"]) THEN Parse(buffer["out"]) ELSE "Execution")
       ELSE UNCHANGED <<phase, outcome, directory, faults>>
    /\ UNCHANGED <<jailed, script>>

SandboxRunner == Reject \/ Prepare \/ ClosePreparation \/ CloseScript

SandboxNext ==
    \/ SandboxRunner
    \/ \E size \in 1..unread["out"] : DataOut(size)
    \/ \E size \in 1..unread["err"] : DataErr(size)
    \/ \E pipe \in Pipes, character \in Characters : Write(pipe, character) \/ Die(pipe, character)
    \/ \E code \in Exits : Exit(code)

\* What DataOut and DataErr do to the pipes, and no other action does.
PipeRead == \E p \in Pipes : \E size \in 1..unread[p] : unread' = [unread EXCEPT ![p] = @ - size]

\* nsjail ends a process that does not end itself.
JailEnds == jailed /\ Exit("signal")
-----------------------------------------------------------------------------
(* Properties.                                                             *)

\* The variables have their types; a process is awaited in a directory that
\* exists.
SandboxTypeOK ==
    /\ jailed \in BOOLEAN
    /\ phase \in {"called", "run", "settled"} \cup DOMAIN Following
    /\ outcome \in Outcomes \cup {"none"}
    /\ (phase = "settled") = (outcome # "none")
    /\ process \in {"none", "running"} \cup Exits
    /\ written \in [Pipes -> Seq(Tokens)]
    /\ unread \in [Pipes -> Nat] /\ \A p \in Pipes : unread[p] <= Len(written[p])
    /\ buffer \in [Pipes -> Text] /\ logs \in [Pipes -> Seq(Text)]
    /\ phase \in {"run"} \cup DOMAIN Following => directory
    /\ faults \in 0..MaxFaults

\* What the runner has read of the output.
Read(pipe) == SubSeq(written[pipe], 1, Len(written[pipe]) - unread[pipe])

\* A token, and what it is taken for when it is decoded alone.
HeardAs(token) == {token} \cup {Replaced[half] : half \in {token} \cap DOMAIN Replaced}

\* A text as it may come out of chunks: only a character of several bytes may
\* have been replaced.
Resembles(seen, text) ==
    Len(seen) = Len(text) /\ \A i \in 1..Len(text) : seen[i] \in HeardAs(text[i])

\* Lines that begin with the given ones.
Begin(lines, first) ==
    /\ Len(first) <= Len(lines)
    /\ \A i \in 1..Len(first) : Resembles(lines[i], first[i])

\* The line that decides: the first result among the complete lines, or else
\* the last line.
Decisive ==
    LET text  == Split(written["out"])
        first == FirstResult(text.lines)
    IN  IF first # 0 THEN text.lines[first] ELSE text.rest

\* However the output is cut into chunks, whatever the script writes after its
\* result and to stderr, and however it exits, the node returns what the first
\* result line says, and an error if the script ended without one. Only the
\* characters of several bytes in it may have been replaced, which makes the
\* result another one without an error. (When the directory cannot be removed
\* a good result is reported as one that does not parse.)
FirstResultDecides ==
    outcome \in Outcomes \ (EarlyErrors \cup {"FileSystem"}) =>
        \/ outcome = IF IsResult(Decisive) THEN Parse(Decisive) ELSE "Execution"
        \/ /\ outcome = "altered" /\ IsResult(Decisive)
           /\ SubSeq(Decisive, 3, Len(Decisive)) = <<"lead", "trail">>
        \/ outcome = "ParseResult" /\ faults > 0

\* What the script prints before its result is logged line by line, complete
\* and in order, but for characters that chunks cut; no result is logged as
\* output; and so are the lines it writes to stderr, to the end.
LogsFaithful ==
    LET lines == Split(Read("out")).lines
        notes == Split(Read("err")).lines
    IN  /\ Begin(logs["out"], Before(lines))
        /\ FirstResult(lines) = 0 => Len(logs["out"]) = Len(lines)
        /\ FirstResult(logs["out"]) = 0
        /\ Begin(logs["err"], notes) /\ Len(logs["err"]) = Len(notes)

\* Whichever way the node returns, its directory is gone, unless a call of the
\* file system failed.
SandboxRemoved == phase = "settled" /\ faults = 0 => ~directory

\* The node returns, unless no jail limits its process and it runs for ever
\* without printing a result: nothing else can hold the node up.
SandboxSettles ==
    \/ <>(phase = "settled")
    \/ ~jailed /\ <>[](process = "running" /\ FirstResult(Split(written["out"]).lines) = 0)
=============================================================================
