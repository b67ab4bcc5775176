----------------------------- MODULE MessageBox -----------------------------
(***************************************************************************)
(* Messages over a pipe (util/messagebox.py): a message is written as its  *)
(* length, a colon, its text and a comma, and read with calls that wait    *)
(* for a number of characters or for the end of the pipe.  The text may    *)
(* hold any character; numbers are written in a base of two, so that short *)
(* texts have lengths of several digits.  The writer may die at any        *)
(* moment, and what it wrote so far remains to be read.                    *)
(*                                                                         *)
(* A signal interrupts a call that waits (the redirector has an alarm each *)
(* second).  A write then fails, however much of the message the pipe has  *)
(* taken, and the whole message is written again.  A read returns what it  *)
(* has; if it has nothing it fails, and is tried again in the length of a  *)
(* message, while in its text the reader begins again.                     *)
(***************************************************************************)
EXTENDS Integers, Sequences, SequencesExt

CONSTANTS Texts,         \* the texts that are sent
          MaxMessages,   \* bound: how many are sent
          MaxInterrupts  \* bound: calls that a signal interrupts

VARIABLES writing,    \* what is left to write of a message
          pipe,       \* what is written and not read
          open,       \* the pipe has a writer
          place, message_s, pickled, remaining,   \* the reader
          interrupts,                             \* calls that were interrupted
          sent, received, broken                  \* histories

reader == <<place, message_s, pickled, remaining>>
history == <<sent, received, broken>>
vars == <<writing, pipe, open, reader, interrupts, history>>

Digit == {"0", "1"}
Value == [d \in Digit |-> IF d = "1" THEN 1 ELSE 0]
Digits[n \in Nat] ==
    LET d == IF n % 2 = 1 THEN "1" ELSE "0"
    IN  IF n < 2 THEN <<d>> ELSE Append(Digits[n \div 2], d)
Number(digits) ==
    LET value[i \in 0..Len(digits)] ==
          IF i = 0 THEN 0 ELSE 2 * value[i - 1] + Value[digits[i]]
    IN  value[Len(digits)]

IsDigits(s) == s # <<>> /\ \A i \in DOMAIN s : s[i] \in Digit

Encoded(text) == Digits[Len(text)] \o <<":">> \o text \o <<",">>

Init ==
    /\ writing = <<>> /\ pipe = <<>> /\ open = TRUE
    /\ place = "get" /\ message_s = <<>> /\ pickled = <<>> /\ remaining = 0
    /\ interrupts = 0
    /\ sent = <<>> /\ received = <<>> /\ broken = {}

Interrupt == interrupts < MaxInterrupts /\ interrupts' = interrupts + 1
-----------------------------------------------------------------------------
(* The writer.                                                             *)

put(text) ==
    /\ open /\ writing = <<>> /\ Len(sent) < MaxMessages
    /\ writing' = Encoded(text)
    /\ sent' = Append(sent, text)
    /\ UNCHANGED <<pipe, open, reader, interrupts, received, broken>>

\* The pipe takes a part of the message, or all of it.
write(n) ==
    /\ open /\ n \in 1..Len(writing)
    /\ pipe' = pipe \o SubSeq(writing, 1, n)
    /\ writing' = SubSeq(writing, n + 1, Len(writing))
    /\ UNCHANGED <<open, reader, interrupts, history>>

\* The loop writes the whole message again, whatever the pipe has taken of it.
interruptWrite ==
    /\ open /\ writing # <<>> /\ Interrupt
    /\ writing' = Encoded(Last(sent))
    /\ broken' = IF writing = Encoded(Last(sent)) THEN broken ELSE broken \cup {"write"}
    /\ UNCHANGED <<pipe, open, reader, sent, received>>

die ==
    /\ open /\ open' = FALSE
    /\ UNCHANGED <<writing, pipe, reader, interrupts, history>>

Torn == ~open /\ writing # <<>> /\ writing # Encoded(Last(sent))
-----------------------------------------------------------------------------
(* The reader.                                                             *)

\* What a call for n characters returns: fewer only at the end of the pipe, or if it
\* was interrupted while it waited for more.
Returns(n, data) ==
    /\ \/ (Len(pipe) >= n \/ ~open) /\ UNCHANGED interrupts
       \/ open /\ pipe # <<>> /\ Len(pipe) < n /\ Interrupt
    /\ data = SubSeq(pipe, 1, IF Len(pipe) < n THEN Len(pipe) ELSE n)
    /\ pipe' = SubSeq(pipe, Len(data) + 1, Len(pipe))

Available == {SubSeq(pipe, 1, n) : n \in 0..Len(pipe)}

\* A variant: the comma after the text is not counted.
begin_NoComma(text) ==
    LET colon == {i \in DOMAIN text : text[i] = ":" /\ \A j \in 1..(i - 1) : text[j] # ":"}
    IN  IF IsDigits(text) THEN place' = "digits" /\ UNCHANGED <<pickled, remaining>>
        ELSE IF \E i \in colon : IsDigits(SubSeq(text, 1, i - 1))
        THEN \E i \in colon :
               /\ pickled' = SubSeq(text, i + 1, Len(text))
               /\ remaining' = Number(SubSeq(text, 1, i - 1)) - (Len(text) - i)
               /\ place' = "body"
        ELSE place' = "none" /\ UNCHANGED <<pickled, remaining>>

\* A variant: nothing was read, so more is waited for.
begin_WaitsForMore(text) ==
    LET colon == {i \in DOMAIN text : text[i] = ":" /\ \A j \in 1..(i - 1) : text[j] # ":"}
    IN  IF IsDigits(text) \/ text = <<>>
        THEN place' = "digits" /\ UNCHANGED <<pickled, remaining>>
        ELSE IF \E i \in colon : IsDigits(SubSeq(text, 1, i - 1))
        THEN \E i \in colon :
               /\ pickled' = SubSeq(text, i + 1, Len(text))
               /\ remaining' = Number(SubSeq(text, 1, i - 1)) + 1 - (Len(text) - i)
               /\ place' = "body"
        ELSE place' = "none" /\ UNCHANGED <<pickled, remaining>>

\* The place after the length has been looked for in what was read.
begin(text) ==
    LET colon == {i \in DOMAIN text : text[i] = ":" /\ \A j \in 1..(i - 1) : text[j] # ":"}
    IN  IF IsDigits(text) THEN place' = "digits" /\ UNCHANGED <<pickled, remaining>>
        ELSE IF \E i \in colon : IsDigits(SubSeq(text, 1, i - 1))
        THEN \E i \in colon :
               /\ pickled' = SubSeq(text, i + 1, Len(text))
               /\ remaining' = Number(SubSeq(text, 1, i - 1)) + 1 - (Len(text) - i)
               /\ place' = "body"
        ELSE place' = "none" /\ UNCHANGED <<pickled, remaining>>

\* A message has three characters at least.
get ==
    /\ place = "get"
    /\ \E data \in Available :
         /\ Returns(3, data)
         /\ message_s' = data
         /\ begin(data)
    /\ UNCHANGED <<writing, open, history>>

\* The loop goes on while all that was read are digits, at the end of the pipe too.
readDigit ==
    /\ place = "digits"
    /\ \E data \in Available :
         /\ Returns(1, data)
         /\ message_s' = message_s \o data
         /\ begin(message_s \o data)
    /\ UNCHANGED <<writing, open, history>>

readBody ==
    /\ place = "body" /\ remaining > 0
    /\ \E data \in Available :
         /\ Returns(remaining, data)
         /\ remaining' = remaining - Len(data)
         /\ pickled' = pickled \o data
    /\ UNCHANGED <<writing, open, place, message_s, history>>

\* A call that had read nothing fails: it is made again, or the message is given up for
\* what follows it.
interruptRead ==
    /\ place = "get" \/ place = "digits" \/ (place = "body" /\ remaining > 0)
    /\ open /\ pipe = <<>> /\ Interrupt
    /\ IF place = "body" THEN place' = "get" /\ broken' = broken \cup {"read"}
       ELSE UNCHANGED <<place, broken>>
    /\ UNCHANGED <<writing, pipe, open, message_s, pickled, remaining, sent, received>>

Ended(text) == text # <<>> /\ Last(text) = ","

\* The text, without the comma that ends it, is the message; what is not one that was
\* written may be anything to pickle, and only some of its exceptions are handled.
load ==
    /\ place = "body" /\ remaining <= 0
    /\ \/ /\ Ended(pickled) /\ Front(pickled) \in Texts
          /\ received' = Append(received, Front(pickled)) /\ place' = "get"
       \/ /\ ~(Ended(pickled) /\ Front(pickled) \in Texts)
          /\ place' = "none" \/ (Ended(pickled) /\ place' = "failed")
          /\ UNCHANGED received
    /\ UNCHANGED <<writing, pipe, open, message_s, pickled, remaining, interrupts, sent, broken>>
-----------------------------------------------------------------------------
Writer == (\E text \in Texts : put(text)) \/ \E n \in DOMAIN writing : write(n)
Reader == get \/ readDigit \/ readBody \/ load
Next == Writer \/ interruptWrite \/ die \/ Reader \/ interruptRead

\* The reader and the writer are scheduled; the writer sends when it likes.
Fairness == WF_vars(Reader) /\ WF_vars(\E n \in DOMAIN writing : write(n))

Spec == Init /\ [][Next]_vars /\ Fairness
-----------------------------------------------------------------------------
\* Messages are received whole, in order, and nothing else is: the reader takes no
\* character of the message after, however the writes were cut, whatever the texts
\* contain and whatever was interrupted, unless a write was interrupted after a part of
\* the message, or a read when all that came of the message was read and some is to come
\* (util/messagebox.py:10-52, 94-112).
ReceivedAsSent == broken = {} => IsPrefix(received, sent)

\* Until then the reader says that there is no message only at the end of the pipe.
NoneOnlyAtEnd ==
    broken = {} => /\ place = "none" => ~open /\ pipe = <<>>
                   /\ place # "failed"

\* Until then every message that was written is received.
AllReceived == \A n \in 1..MaxMessages :
    (Len(sent) = n /\ writing = <<>>) ~> Len(received) >= n \/ broken # {}

\* The reader comes to the end of the pipe, unless the writer died in the middle of a
\* message: it then reads the empty string again and again (util/messagebox.py:20-24,
\* 45-48).
EndIsSeen == ~open ~> place = "none" \/ Torn \/ broken # {}
=============================================================================
