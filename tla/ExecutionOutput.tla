-------------------------- MODULE ExecutionOutput --------------------------
(***************************************************************************)
(* What a program's console output and result become on their way to the  *)
(* client: captured under one byte budget in the isolate                   *)
(* (crates/s2-mcp-codemode/src/runtime.js), then bounded together with the *)
(* returned value, the diagnostic and the trace (map_execution and         *)
(* bound_output in lib.rs).                                                *)
(*                                                                         *)
(* The two layers count differently: the capture in UTF-8 bytes, the bound *)
(* in bytes of JSON, where a quote or a newline takes two.  A text is a    *)
(* sequence of characters, of one kind for each pair of sizes; a returned  *)
(* value, a diagnostic and the trace are their sizes in JSON.  A value     *)
(* nested too deeply is an error before any of this, and is left out.      *)
(*                                                                         *)
(* Formatting the arguments of a console call runs the program's own       *)
(* toJSON and toString, which may call the console in turn: between the    *)
(* check of the budget and its use other lines are captured.               *)
(***************************************************************************)
EXTENDS Integers, Sequences, SequencesExt

CONSTANTS
    Lines,          \* what the program may write at a time
    MaxLines,       \* bound on how often it calls the console
    MaxConsole,     \* Limits::max_console_bytes
    MaxParts,       \* MAX_CAPTURED_CONSOLE_PARTS
    Maxima,         \* values of Limits::max_output_bytes
    MaxDiagnostic,  \* MAX_DIAGNOSTIC_BYTES
    Values,         \* sizes of a returned value
    Diagnostics,    \* sizes of a diagnostic
    Traces          \* sizes of the calls of the trace

ASSUME OutputAssumption ==
    /\ Lines \subseteq Seq({"plain", "quote", "wide"})
    /\ {MaxLines, MaxConsole, MaxDiagnostic} \subseteq Nat
    /\ MaxParts \in Nat \ {0, 1}
    /\ Maxima \cup Values \cup Diagnostics \subseteq Nat \ {0}
    /\ Traces \subseteq Nat

VARIABLES
    maximum,    \* the limit in force
    formatting, \* the streams of the console calls in format(), innermost last
    written,    \* the lines written to each stream, as their formatting ends
    captured,   \* the parts each stream has captured
    retained,   \* retainedConsoleBytes
    captureTruncated,
    returned,   \* what the program ended with
    result,     \* what execute answers
    nested      \* history: the most calls in format() when another entered it

outputVars ==
    <<maximum, formatting, written, captured, retained, captureTruncated,
      returned, result, nested>>

Streams    == {"stdout", "stderr"}
None       == -1                    \* no output, no diagnostic
Unfinished == [kind |-> "running"]
Pending    == [kind |-> "pending"]

-----------------------------------------------------------------------------
(* Texts. *)

Newline  == "newline"
Message  == <<"plain", "plain">>    \* OUTPUT_LIMIT_MESSAGE
Envelope == 3                       \* the JSON of an empty result: names, braces

Char == {"plain", "quote", "wide", Newline}

\* The width of a character in UTF-8, and in a JSON string.
Utf8 == [ch \in Char |-> IF ch = "wide" THEN 2 ELSE 1]
Json == [ch \in Char |-> IF ch = "plain" THEN 1 ELSE 2]

\* The width of the first n characters of a text, for every n.
Widths(text, encoding) ==
    LET width[n \in 0..Len(text)] ==
            IF n = 0 THEN 0 ELSE width[n - 1] + encoding[text[n]]
    IN  width

Width(text, encoding) == Widths(text, encoding)[Len(text)]

Bytes(text)    == Width(text, Utf8)
JsonSize(text) == Width(text, Json)

\* parts.join("\n"), of the first n parts for every n.
JoinedLines(parts) ==
    LET joined[n \in 0..Len(parts)] ==
            IF n = 0 THEN <<>>
            ELSE joined[n - 1] \o (IF n > 1 THEN <<Newline>> ELSE <<>>)
                    \o parts[n]
    IN  joined

JoinLines(parts) == JoinedLines(parts)[Len(parts)]

\* The longest prefix of a text that is at most so wide.
Prefix(text, encoding, budget) ==
    LET width == Widths(text, encoding)
    IN  SubSeq(text, 1, CHOOSE n \in 0..Len(text) :
            width[n] <= budget /\ (n < Len(text) => width[n + 1] > budget))

Least(a, b)     == IF a < b THEN a ELSE b
Greatest(a, b)  == IF a < b THEN b ELSE a
Minus(a, b)     == IF a < b THEN 0 ELSE a - b  \* saturating_sub

OutputInit ==
    /\ maximum \in Maxima
    /\ formatting = <<>>
    /\ written = [s \in Streams |-> <<>>]
    /\ captured = [s \in Streams |-> <<>>]
    /\ retained = 0
    /\ captureTruncated = FALSE
    /\ returned = Unfinished
    /\ result = Pending
    /\ nested = 0

-----------------------------------------------------------------------------
(* runtime.js: capture. *)

\* Mutant: the line break between two parts is not counted.
Separator_Free(s) == 0

Separator(s) == IF captured[s] # <<>> THEN 1 ELSE 0

\* Mutant: only what was cut is not counted as retained.
Spend_Open(bytes, cut) ==
    /\ retained' = retained + bytes
    /\ captureTruncated' = (captureTruncated \/ cut)

\* Once a text is cut, the budget counts as spent: nothing may follow it.
Spend(bytes, cut) ==
    /\ retained' = IF cut THEN MaxConsole ELSE retained + bytes
    /\ captureTruncated' = (captureTruncated \/ cut)

Compacted(parts) ==
    IF Len(parts) >= MaxParts THEN <<JoinLines(parts)>> ELSE parts

ConsoleCalls == Len(written["stdout"]) + Len(written["stderr"]) + Len(formatting)

\* A console call: refused when the budget is spent, else its arguments are
\* formatted first.
CallConsole(s) ==
    /\ returned = Unfinished
    /\ ConsoleCalls < MaxLines
    /\ IF retained >= MaxConsole
       THEN /\ captureTruncated' = TRUE
            /\ \E line \in Lines :
                   written' = [written EXCEPT ![s] = Append(@, line)]
            /\ UNCHANGED <<formatting, nested>>
       ELSE /\ formatting' = Append(formatting, s)
            /\ nested' = Greatest(nested, Len(formatting))
            /\ UNCHANGED <<written, captureTruncated>>
    /\ UNCHANGED <<maximum, captured, retained, returned, result>>

\* The innermost call has its line, and keeps what of it is within the budget
\* that the calls in its formatting have left.
CaptureLine(line) ==
    /\ formatting # <<>>
    /\ LET s    == Last(formatting)
           kept == Prefix(line, Utf8, Minus(MaxConsole, retained + Separator(s)))
       IN  /\ written' = [written EXCEPT ![s] = Append(@, line)]
           /\ captured' = [captured EXCEPT ![s] = Compacted(Append(@, kept))]
           /\ Spend(Separator(s) + Bytes(kept), kept # line)
    /\ formatting' = Front(formatting)
    /\ UNCHANGED <<maximum, returned, result, nested>>

\* toJSON throws and String throws again: the call ends with nothing written.
FormatThrows ==
    /\ formatting # <<>>
    /\ formatting' = Front(formatting)
    /\ UNCHANGED <<maximum, written, captured, retained, captureTruncated,
                   returned, result, nested>>

-----------------------------------------------------------------------------
(* lib.rs: map_execution, bound_output, truncate_streams. *)

\* serialized_size: `true` is a byte shorter than `false`.
Size(o) ==
    Envelope + (IF o.success THEN 0 ELSE 1) + (IF o.truncated THEN 0 ELSE 1)
       + (IF o.output = None THEN 1 ELSE o.output)
       + (IF o.diagnostic = None THEN 0 ELSE o.diagnostic)
       + o.calls + JsonSize(o.stdout) + JsonSize(o.stderr)

Fits(o) == Size(o) <= maximum

\* Mutant: a truncated diagnostic is not said to be.
BoundDiagnostic_Unsaid(o) ==
    [o EXCEPT !.diagnostic = Least(@, MaxDiagnostic)]

BoundDiagnostic(o) ==
    [o EXCEPT !.diagnostic = Least(@, MaxDiagnostic),
              !.truncated = @ \/ o.diagnostic > MaxDiagnostic]

DropValue(o) ==
    IF ~Fits(o) /\ o.output # None
    THEN [o EXCEPT !.success = FALSE, !.output = None, !.stderr = Message]
    ELSE o

DropDiagnostic(o) == IF Fits(o) THEN o ELSE [o EXCEPT !.diagnostic = None]
DropCalls(o)      == IF Fits(o) THEN o ELSE [o EXCEPT !.calls = 0]

PutBack(o, stdout, stderr) ==
    [o EXCEPT !.stdout = stdout,
              !.stderr = IF @ = <<>> THEN stderr
                         ELSE IF stderr = <<>> THEN @
                         ELSE @ \o <<Newline>> \o stderr]

Failed == [kind |-> "error"]

\* Mutant: a stream gets all that is left, not what it needs.
TruncateStreams_Greedy(o) ==
    LET bare      == [o EXCEPT !.stdout = <<>>, !.stderr = <<>>]
        available == Minus(maximum, Size(bare))
        full      == [o EXCEPT !.stdout = Prefix(@, Json, available),
                               !.stderr = Prefix(@, Json, available)]
    IN  IF Fits(bare) THEN full ELSE Failed

\* Each stream is granted half of what is left, and then what the other does
\* not need, stdout first.
TruncateStreams(o) ==
    LET bare      == [o EXCEPT !.stdout = <<>>, !.stderr = <<>>]
        available == Minus(maximum, Size(bare))
        out       == JsonSize(o.stdout)
        err       == JsonSize(o.stderr)
        half      == available \div 2
        remaining == available - Least(out, half) - Least(err, half)
        extra     == Least(out - Least(out, half), remaining)
        errExtra  == Least(err - Least(err, half), remaining - extra)
        full      == [o EXCEPT
                        !.stdout = Prefix(@, Json, Least(out, half) + extra),
                        !.stderr = Prefix(@, Json, Least(err, half) + errExtra)]
    IN  IF Fits(full) THEN full ELSE IF Fits(bare) THEN bare ELSE Failed

BoundOutput(o) ==
    LET said == BoundDiagnostic(o)
        bare == [said EXCEPT !.truncated = TRUE, !.stdout = <<>>, !.stderr = <<>>]
        cut  == DropCalls(DropDiagnostic(DropValue(bare)))
    IN  IF Fits(said) THEN said
        ELSE TruncateStreams(PutBack(cut, said.stdout, said.stderr))

\* The program ends with a value, with none, or with an error.
MapExecution ==
    /\ returned = Unfinished
    /\ formatting = <<>>
    /\ \E value \in Values \cup {None}, error \in Diagnostics, calls \in Traces,
          cut \in BOOLEAN :
           /\ returned' = [kind |-> "done", value |-> value, calls |-> calls,
                           diagnostic |-> IF value = None THEN error ELSE None]
           /\ result' = BoundOutput(
                  [kind       |-> "output",
                   success    |-> value # None,
                   output     |-> value,
                   diagnostic |-> returned'.diagnostic,
                   stdout     |-> JoinLines(captured["stdout"]),
                   stderr     |-> JoinLines(captured["stderr"]),
                   calls      |-> calls,
                   truncated  |-> captureTruncated \/ cut])
    /\ UNCHANGED <<maximum, formatting, written, captured, retained,
                   captureTruncated, nested>>

OutputNext ==
    \/ \E s \in Streams : CallConsole(s)
    \/ \E line \in Lines : CaptureLine(line)
    \/ FormatThrows
    \/ MapExecution

OutputSpec == OutputInit /\ [][OutputNext]_outputVars

-----------------------------------------------------------------------------
(* Properties. *)

Text(s)    == JoinLines(written[s])
HasOutput  == result.kind = "output"

\* The console keeps within its byte budget, over both streams and with the
\* line breaks between their parts, but for one byte for each call that was
\* waiting for its formatting when a call inside it spent what was left: such a
\* call has passed the check, and its line break is counted over the budget.
ConsoleWithinBudget ==
    /\ Bytes(JoinLines(captured["stdout"]))
           + Bytes(JoinLines(captured["stderr"])) <= MaxConsole + nested
    /\ retained <= MaxConsole + nested

\* What is answered is within max_output_bytes, and the only result that
\* cannot be answered is one whose bare envelope is larger than that.
ResultFits ==
    /\ HasOutput => Fits(result)
    /\ result.kind = "error" => maximum < Envelope + 2

ValueDropped == HasOutput /\ returned.value # None /\ result.output = None

\* Whatever either layer cuts or drops is said: without `truncated` the client
\* has all that the program wrote, returned and reported; a success always has
\* the returned value; and the message that a value was dropped survives the
\* truncation of stderr when half of what the bare result leaves is enough for
\* it, however much the program wrote.
NothingLostSilently ==
    HasOutput =>
        /\ ~result.truncated =>
               /\ \A s \in Streams : result[s] = Text(s)
               /\ result.output = returned.value
               /\ result.diagnostic = returned.diagnostic
               /\ result.calls = returned.calls
        /\ result.success => result.output = returned.value /\ result.output # None
        /\ ValueDropped =>
               LET bare == [result EXCEPT !.stdout = <<>>, !.stderr = <<>>]
               IN  (maximum - Size(bare)) \div 2 >= JsonSize(Message)
                       => IsPrefix(Message, result.stderr)

Blanks(n) == [i \in 1..n |-> Newline]

Shows(shown, whole) ==
    \E beginning \in Prefixes(whole) :
        IsPrefix(shown, beginning \o Blanks(nested))

\* What the client sees of a stream is the beginning of what was written to
\* it, behind the limit's message if the value was dropped: nothing is missing
\* in the middle, in neither layer, and no text follows a text that was cut.
\* Only the line breaks of calls that were waiting for their formatting when
\* the budget was spent may follow, one for each.
StreamsArePrefixes ==
    HasOutput =>
        /\ Shows(result.stdout, Text("stdout"))
        /\ IF ValueDropped
           THEN Shows(result.stderr, Message \o <<Newline>> \o Text("stderr"))
           ELSE Shows(result.stderr, Text("stderr"))
=============================================================================
