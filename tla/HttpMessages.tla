---------------------------- MODULE HttpMessages ----------------------------
(***************************************************************************)
(* What an HTTP client sends (as reactor/client/http.py tells the parts of *)
(* it from one another): requests, and bodies that have a length or come   *)
(* in chunks.  "r" and "n" are a carriage return and a line feed, "q" is a *)
(* quote that is not escaped, "h" stands for any character of a header and *)
(* "x" for one of a body.                                                  *)
(***************************************************************************)
EXTENDS Integers, Sequences, SequencesExt

CRLF == <<"r", "n", "r", "n">>
LF == <<"n", "n">>

\* A message is the lines of its header, what ends them, and a body of a certain length,
\* one in chunks, or what goes through a tunnel.
Message(mode, lines, end, body) ==
    [mode |-> mode, lines |-> lines, end |-> end, body |-> body]
Header(message) == message.lines \o message.end

Parts(message) == <<<<"request", Header(message)>>, <<"content", message.body>>>>
Text(part) == part[2]
Expected(messages) == FlattenSeq([i \in DOMAIN messages |-> Parts(messages[i])])

\* Each character with what it is read as.
Labels(parts) ==
    FlattenSeq([i \in DOMAIN parts |->
        [j \in DOMAIN Text(parts[i]) |-> <<parts[i][1], Text(parts[i])[j]>>]])

\* The size of a chunk is a number of these digits, and the limit stands for 0x100000.
Digit == {"0", "1", "2", "3"}
Value == [d \in Digit |-> CASE d = "0" -> 0 [] d = "1" -> 1 [] d = "2" -> 2 [] d = "3" -> 3]
MaxChunk == 2
Number(digits) == FoldLeft(LAMBDA number, d : 4 * number + Value[d], 0, digits)
=============================================================================
