----------------------------- MODULE HttpReader -----------------------------
(***************************************************************************)
(* An HTTP client and the coroutine that reads it (reactor/client/http.py).*)
(* The socket may have the text in any pieces.  After a request the client *)
(* is not read until it is decided how its body is read (startData,        *)
(* reactor/client/manager.py).                                             *)
(***************************************************************************)
EXTENDS HttpMessages

CONSTANTS Scripts,     \* what the clients send: sequences of messages
          MaxBuffer    \* the longest text to look for a request in, 0 for no limit

VARIABLES script,      \* the messages of the client
          unsent,      \* the characters it has not sent
          socket,      \* those that were sent and not read
          r_buffer, mode, nb_to_send, seek,    \* the coroutine
          asked,       \* a request was read and waits for its decision
          read         \* what was read: <<"request" or "content", characters>>

coroutine == <<r_buffer, mode, nb_to_send, seek>>
vars == <<script, unsent, socket, coroutine, asked, read>>

\* How many requests were read.
Requests ==
    LET count[i \in 0..Len(read)] ==
          IF i = 0 THEN 0 ELSE count[i - 1] + IF read[i][1] = "request" THEN 1 ELSE 0
    IN  count[Len(read)]

Init ==
    /\ script \in Scripts
    /\ unsent = FlattenSeq([i \in DOMAIN Expected(script) |-> Text(Expected(script)[i])])
    /\ socket = <<>>
    /\ r_buffer = <<>> /\ mode = "http" /\ nb_to_send = 0 /\ seek = 0
    /\ asked = FALSE /\ read = <<>>
-----------------------------------------------------------------------------
(* The client.                                                             *)

Relayed == Len(Labels(read))

\* The client sends a request once what it sent before has gone through.
MaySend(n) ==
    \A i \in DOMAIN script :
      LET before == Len(Labels(Expected(SubSeq(script, 1, i))))
          total == Len(Labels(Expected(script)))
          sent == total - Len(unsent)
      IN  sent <= before /\ before < sent + n => Relayed >= before

send(n) ==
    /\ n <= Len(unsent) /\ MaySend(n)
    /\ socket' = socket \o SubSeq(unsent, 1, n)
    /\ unsent' = SubSeq(unsent, n + 1, Len(unsent))
    /\ UNCHANGED <<script, coroutine, asked, read>>
-----------------------------------------------------------------------------
(* The functions of the coroutine.  Each gives the data read and the state *)
(* it leaves, with the mode "closed" if the connection is to be closed.    *)

Drop(s, n) == SubSeq(s, n + 1, Len(s))
Take(s, n) == SubSeq(s, 1, IF n < Len(s) THEN n ELSE Len(s))
Result(data, buffer, newMode, nb, newSeek) ==
    [data |-> data, r_buffer |-> buffer, mode |-> newMode, nb_to_send |-> nb, seek |-> newSeek]

LineEnds == {"r", "n"}
lstrip(s) ==
    Drop(s, CHOOSE n \in 0..Len(s) :
              (\A i \in 1..n : s[i] \in LineEnds) /\ (n = Len(s) \/ s[n + 1] \notin LineEnds))

Occurs(s, pos, eor) == pos + Len(eor) <= Len(s) /\ \A i \in 1..Len(eor) : s[pos + i] = eor[i]
Balanced(s) == Cardinality({i \in DOMAIN s : s[i] = "q"}) % 2 = 0

\* The length of the request that one kind of end ends, looked for from a place on, or 0.
\* An end within quotes is passed over, and the next one is for the next call.
lookFor(s, eor, from) ==
    LET places == {pos \in from..Len(s) : Occurs(s, pos, eor)}
        pos == CHOOSE p \in places : \A other \in places : p <= other
    IN  IF places = {} \/ pos = 0 THEN [length |-> 0, seek |-> from]
        ELSE IF Balanced(Take(s, pos)) THEN [length |-> pos + Len(eor), seek |-> from]
        ELSE [length |-> 0, seek |-> pos + Len(eor)]

\* The request at the beginning of a text, the one that ends with CRLF first.
checkRequest(s, from) ==
    LET crlf == lookFor(s, CRLF, from)
        found == IF crlf.length > 0 THEN crlf ELSE lookFor(s, LF, crlf.seek)
    IN  [request |-> Take(s, found.length), rest |-> Drop(s, found.length), seek |-> found.seek,
         closes |-> found.length = 0 /\ MaxBuffer # 0 /\ Len(s) > MaxBuffer]

ishex(s) == s # <<>> /\ \A i \in DOMAIN s : s[i] \in Digit

\* The size that the line at the beginning of a text gives, or -1 if it gives none.
ChunkSize(s, length, eol) ==
    LET extension == SelectInSeq(s, LAMBDA c : c = ";")
        header == Take(s, IF extension \in 1..length THEN extension - 1 ELSE length - eol)
    IN  IF ishex(header) /\ Number(header) <= MaxChunk THEN Number(header) ELSE -1

\* The chunks that begin in a text: whether more are to come, and their total size,
\* which may be past the end of the text, and is forgotten if the text ends in the
\* line of a size.  A size of -1 is an error.
checkChunkSize[s \in Seq(STRING), total \in Nat] ==
    LET length == SelectInSeq(s, LAMBDA c : c = "n")
        eol == IF length > 1 /\ s[length - 1] = "r" THEN 2 ELSE 1
        size == ChunkSize(s, length, eol)
    IN  CASE s = <<>> -> [more |-> TRUE, size |-> total]
          [] s # <<>> /\ length = 0 -> [more |-> TRUE, size |-> IF Len(s) > 6 THEN -1 ELSE 0]
          [] length > 0 /\ size = -1 -> [more |-> TRUE, size |-> -1]
          [] length > 0 /\ size = 0 -> [more |-> FALSE, size |-> total + length]
          [] length > 0 /\ size > 0 ->
               checkChunkSize[Drop(s, length + size + eol), total + length + size + eol]
-----------------------------------------------------------------------------
(* What each mode makes of the buffer.                                     *)

\* A variant: the length is that of the body, whatever of it was read.
_transfer_CountsNothing(s, nb) ==
    Result(Take(s, nb), Drop(s, nb), IF nb <= Len(s) THEN "new-request" ELSE "transfer", nb, 0)

_transfer(s, nb) ==
    LET data == Take(s, nb)
        left == nb - Len(data)
    IN  Result(data, Drop(s, nb), IF left = 0 THEN "new-request" ELSE "transfer", left, 0)

\* The chunks whose sizes are known so far are the data of the next call.
_chunked[s \in Seq(STRING), nb \in Nat] ==
    LET data == Take(s, nb)
        left == nb - Len(data)
        found == checkChunkSize[Drop(s, nb), 0]
    IN  IF found.size = -1 THEN Result(<<>>, s, "closed", nb, 0)
        ELSE Result(data, Drop(s, nb),
                    IF found.more THEN "chunked"
                    ELSE IF left + found.size > 0 THEN "end-chunk" ELSE "new-request",
                    left + found.size, 0)

\* A return alone is none of the cases, and the place to look from is then not assigned:
\* the coroutine raises.
_endChunk[s \in Seq(STRING), nb \in Nat] ==
    LET header == Drop(s, nb)
    IN  IF IsPrefix(<<"r", "n">>, header) THEN Result(<<>>, s, "new-request", nb + 2, 0)
        ELSE IF IsPrefix(<<"n">>, header) THEN Result(<<>>, s, "new-request", nb + 1, 0)
        ELSE IF header \in {<<>>, <<"r">>} THEN Result(<<>>, s, "raised", nb, 0)
        ELSE Result(<<>>, s, "extra-headers", nb, nb)

\* The data begins where the buffer does, with the chunks before the headers.
_headers[s \in Seq(STRING), nb \in Nat] ==
    LET found == checkRequest(s, seek)
    IN  IF found.closes THEN Result(<<>>, s, "closed", nb, 0)
        ELSE IF found.request = <<>> THEN Result(<<>>, s, "extra-headers", nb, found.seek)
        ELSE Result(found.request, found.rest, "new-request", nb, 0)

process(m, s, nb) ==
    CASE m = "passthrough" -> Result(s, <<>>, m, 0, 0)
      [] m = "transfer" -> _transfer(s, nb)
      [] m = "chunked" -> _chunked[s, nb]
      [] m = "end-chunk" -> _endChunk[s, nb]
      [] m = "extra-headers" -> _headers[s, nb]
-----------------------------------------------------------------------------
(* The coroutine: once round its loop for each call.                       *)

Reads(kind, text) == read' = IF text = <<>> THEN read ELSE Append(read, <<kind, text>>)

readHeader(s) ==
    LET found == checkRequest(lstrip(s), seek)
    IN  /\ Reads("request", found.request)
        /\ asked' = (found.request # <<>>)
        /\ r_buffer' = found.rest
        /\ mode' = IF found.closes THEN "closed" ELSE "http"
        /\ seek' = IF asked' THEN 0 ELSE found.seek
        /\ UNCHANGED nb_to_send

readContent(m, s, nb) ==
    \E result \in {process(m, s, nb)} :
      /\ Reads("content", result.data)
      /\ r_buffer' = result.r_buffer /\ seek' = result.seek
      /\ mode' = result.mode /\ nb_to_send' = result.nb_to_send
      /\ asked' = FALSE

\* A variant: what is left of a body is looked for in the socket first.
resume_AlwaysReceives(m, nb) ==
    LET receives == m # "new-request"
        s == IF receives THEN r_buffer \o socket ELSE r_buffer
    IN  IF receives /\ socket = <<>>
        THEN /\ mode' = m /\ nb_to_send' = nb /\ asked' = FALSE
             /\ UNCHANGED <<r_buffer, seek, socket, read>>
        ELSE /\ socket' = IF receives THEN <<>> ELSE socket
             /\ IF m \in {"new-request", "http"} THEN readHeader(s) ELSE readContent(m, s, nb)

\* The socket is read, unless there is a buffer to look at first; if it has nothing the
\* call returns with nothing.
resume(m, nb) ==
    LET receives == m # "new-request" /\ (m # "transfer" \/ r_buffer = <<>>)
        s == IF receives THEN r_buffer \o socket ELSE r_buffer
    IN  IF receives /\ socket = <<>>
        THEN /\ mode' = m /\ nb_to_send' = nb /\ asked' = FALSE
             /\ UNCHANGED <<r_buffer, seek, socket, read>>
        ELSE /\ socket' = IF receives THEN <<>> ELSE socket
             /\ IF m \in {"new-request", "http"} THEN readHeader(s) ELSE readContent(m, s, nb)

readData ==
    /\ socket # <<>> /\ ~asked /\ mode \notin {"closed", "raised"}
    /\ resume(mode, nb_to_send)
    /\ UNCHANGED <<script, unsent>>

\* The decision about a request says how its body is read.
readRelated ==
    /\ asked /\ Requests <= Len(script)
    /\ LET message == script[Requests]
           length == IF message.mode = "transfer" THEN Len(message.body) ELSE 0
       IN  resume(IF message.mode = "transfer" /\ length = 0 THEN "new-request" ELSE message.mode,
                  length)
    /\ UNCHANGED <<script, unsent>>
-----------------------------------------------------------------------------
Next == (\E n \in DOMAIN unsent : send(n)) \/ readData \/ readRelated

Spec == Init /\ [][Next]_vars

Sent == Len(Labels(Expected(script))) - Len(unsent)
ClientWaits == unsent = <<>> \/ ~MaySend(1)

\* A message whose header is found whatever came with it: the header does not begin with
\* the end of a line, closes its quotes and is not too long, its end comes nowhere else in
\* it and the other kind of end not at all, nor in the body if it is the one looked for
\* first.
Plain(message) ==
    LET header == Header(message)
        at == Len(message.lines)
    IN  /\ message.lines # <<>> /\ message.lines[1] \notin LineEnds /\ Balanced(message.lines)
        /\ MaxBuffer # 0 => Len(header) <= MaxBuffer
        /\ \A pos \in 0..Len(header) : Occurs(header, pos, message.end) => pos = at
        /\ message.end = CRLF => \A pos \in 0..Len(header) : ~Occurs(header, pos, LF)
        /\ message.end = LF =>
             \A pos \in 0..Len(header \o message.body) : ~Occurs(header \o message.body, pos, CRLF)

\* Headers are read as requests and bodies as content, character by character and in
\* order, wherever the pieces were cut (reactor/client/http.py:112-190).
AsSent == IsPrefix(Labels(read), Labels(Expected(script)))

\* It is so if every header can be found.
ReadAsSent == (\A i \in DOMAIN script : Plain(script[i])) => AsSent

\* "content any text which is related to the current request after the headers"
\* (reactor/client/http.py:116): when the client waits and its socket is empty, all of
\* what it sent has been read.
BodyGoesThrough ==
    ClientWaits /\ socket = <<>> /\ ~asked => Relayed = Sent

\* It is so for requests whose headers can be found and whose bodies have a length, whatever
\* came with the header (reactor/client/http.py:139).
TransfersGoThrough ==
    (\A i \in DOMAIN script : Plain(script[i]) /\ script[i].mode = "transfer") => BodyGoesThrough
=============================================================================
