---------------------------- MODULE EventStream ----------------------------
(***************************************************************************)
(* One client's event stream on its way from the admin's sseWriter to the   *)
(* sseController: lines of JSON over a connection that can break off, read  *)
(* through LineReader, which hands io.ReadAll one line at a time in pieces  *)
(* as large as its buffer.                                                  *)
(*                                                                          *)
(* The k-th byte of message m is <<m, k>>.  Session takes this stream for a *)
(* queue of events; the properties below are what makes it one.             *)
(***************************************************************************)
EXTENDS Integers, Sequences, SequencesExt

CONSTANTS Messages,   \* the sequence of messages the admin has to send
          Size,       \* their length in bytes
          MaxRead     \* bound on the room in the buffer of io.ReadAll

Newline == <<"newline", 0>>

ASSUME StreamAssumption == /\ Size \in [ToSet(Messages) -> Nat \ {0}]
                           /\ MaxRead \in Nat \ {0}

VARIABLES sent,        \* how many messages the admin has written
          wire,        \* bytes written and not yet scanned
          connection,  \* "open", or "broken" off
          rest,        \* LineReader.remainingPrevLine
          got,         \* the bytes io.ReadAll has so far
          handled,     \* the messages sseController has parsed
          reader       \* "reading", or "done" once sseController returned

vars == <<sent, wire, connection, rest, got, handled, reader>>

Init == /\ sent = 0
        /\ wire = <<>>
        /\ connection = "open"
        /\ rest = <<>>
        /\ got = <<>>
        /\ handled = <<>>
        /\ reader = "reading"

JSON(m) == [k \in 1..Size[m] |-> <<m, k>>]

-----------------------------------------------------------------------------
(* The admin and the network *)

\* Mutant: the line is not ended.
WithoutNewline(m) == JSON(m)

\* WriteJsonWithNewline: Encode ends the line, and then an empty one follows.
WriteJsonWithNewline(m) == JSON(m) \o <<Newline, Newline>>

\* The admin may go on writing to a connection that broke off without noticing.
writeEventMessage ==
    /\ sent < Len(Messages)
    /\ wire' = IF connection = "open"
               THEN wire \o WriteJsonWithNewline(Messages[sent + 1]) ELSE wire
    /\ sent' = sent + 1
    /\ UNCHANGED <<connection, rest, got, handled, reader>>

\* The connection breaks off, or the timeout of the client's http.Client, which
\* covers the body, runs out.  What the client has not got by then is lost.
BreakOff == /\ connection = "open"
            /\ connection' = "broken"
            /\ \E n \in 0..Len(wire) : wire' = SubSeq(wire, 1, n)
            /\ UNCHANGED <<sent, rest, got, handled, reader>>

-----------------------------------------------------------------------------
(* The reader *)

Newlines == {i \in 1..Len(wire) : wire[i] = Newline}
FirstNewline == CHOOSE i \in Newlines : \A j \in Newlines : i <= j

\* bufio.Scanner waits for a newline; at the end of the data it gives what is left.
HasLine == Newlines # {} \/ (connection = "broken" /\ wire # <<>>)
NextLine == IF Newlines = {} THEN wire ELSE SubSeq(wire, 1, FirstNewline - 1)
AfterLine == IF Newlines = {} THEN <<>> ELSE SubSeq(wire, FirstNewline + 1, Len(wire))

\* LineReader.Read with nothing left of the last line.  An empty line is skipped by
\* scanning again.
Scan == /\ reader = "reading"
        /\ rest = <<>>
        /\ HasLine
        /\ rest' = NextLine
        /\ wire' = AfterLine
        /\ UNCHANGED <<sent, connection, got, handled, reader>>

\* json.Decode makes a message of a whole line and fails on a part of one.
Parses(bytes, m) == bytes = JSON(m)

\* Mutant: what is left of the line is forgotten.
flushOnce(n) ==
    LET bytes == got \o SubSeq(rest, 1, IF n < Len(rest) THEN n ELSE Len(rest))
    IN  /\ got' = <<>>
        /\ rest' = <<>>
        /\ \/ \E m \in ToSet(Messages) :
                Parses(bytes, m) /\ handled' = Append(handled, m) /\ UNCHANGED reader
           \/ /\ \A m \in ToSet(Messages) : ~Parses(bytes, m)
              /\ reader' = IF handled = <<>> THEN "done" ELSE reader
              /\ UNCHANGED handled

\* flushCurrentLine copies what fits.  With the last byte of a line it returns EOF,
\* so that ReadAll is done and the line is parsed: one that fails is skipped, unless
\* it is the first.
flushCurrentLine(n) ==
    IF n < Len(rest)
    THEN /\ got' = got \o SubSeq(rest, 1, n)
         /\ rest' = SubSeq(rest, n + 1, Len(rest))
         /\ UNCHANGED <<handled, reader>>
    ELSE LET bytes == got \o rest
         IN  /\ got' = <<>>
             /\ rest' = <<>>
             /\ \/ \E m \in ToSet(Messages) :
                     Parses(bytes, m) /\ handled' = Append(handled, m) /\ UNCHANGED reader
                \/ /\ \A m \in ToSet(Messages) : ~Parses(bytes, m)
                   /\ reader' = IF handled = <<>> THEN "done" ELSE reader
                   /\ UNCHANGED handled

Flush == /\ reader = "reading"
         /\ rest # <<>>
         /\ \E n \in 1..MaxRead : flushCurrentLine(n)
         /\ UNCHANGED <<sent, wire, connection>>

\* No line is left: Read returns ErrDoneReadingLines, or the scanner's error, and
\* sseController returns.
DoneReadingLines ==
    /\ reader = "reading"
    /\ rest = <<>> /\ ~HasLine /\ connection = "broken"
    /\ reader' = "done"
    /\ UNCHANGED <<sent, wire, connection, rest, got, handled>>

Next == writeEventMessage \/ BreakOff \/ Scan \/ Flush \/ DoneReadingLines

Spec == Init /\ [][Next]_vars

\* The client keeps reading; nothing is assumed of the admin or the network.
FairSpec == Spec /\ WF_vars(Scan) /\ WF_vars(Flush) /\ WF_vars(DoneReadingLines)

-----------------------------------------------------------------------------

\* The client handles the admin's messages whole, each once, in their order and
\* without a gap: no buffer boundary, empty line or line torn by a broken connection
\* makes a message of its own or swallows one.
HandledInOrder == IsPrefix(handled, SubSeq(Messages, 1, sent))

\* A message the admin has written is handled unless the connection breaks off, and
\* then the client notices.
EverythingHandled ==
    /\ \A k \in 1..Len(Messages) :
         sent >= k ~> (Len(handled) >= k \/ connection = "broken")
    /\ connection = "broken" ~> reader = "done"

=============================================================================
