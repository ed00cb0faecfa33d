------------------------------ MODULE EventLines ------------------------------
(***************************************************************************)
(* The line protocol of an execution: the worker writes one JSON object per *)
(* line, the network cuts the bytes wherever it likes, and the host puts   *)
(* the lines together again.  Two hosts have this loop, runner::execute    *)
(* and the pooled Worker::execute.                                         *)
(*                                                                         *)
(* A line is its kind, a text of one-byte ("narrow") and two-byte ("lead", *)
(* "tail") characters, the closing brace and the newline.  JSON escapes a  *)
(* newline inside of it, and all of its own punctuation is one byte wide,  *)
(* so that a damaged text still parses and a line cut short never does.    *)
(* The characters of the host are written byte by byte like those of the   *)
(* wire; a replacement character ("mark") stands where one byte was.       *)
(***************************************************************************)
EXTENDS Naturals, Sequences

CONSTANTS
  Hosts,     \* the loops: a subset of {"runner", "pool"}
  Texts,     \* texts a line may carry
  MaxLines   \* bound: lines the worker writes

\* Every character has both of its bytes.
Whole(text) ==
  \A i \in DOMAIN text :
    /\ text[i] = "lead" => i < Len(text) /\ text[i + 1] = "tail"
    /\ text[i] = "tail" => i > 1 /\ text[i - 1] = "lead"

ASSUME LinesAssumption ==
  /\ Hosts \subseteq {"runner", "pool"}
  /\ \A t \in Texts : t \in Seq({"narrow", "lead", "tail"}) /\ Whole(t)
  /\ MaxLines \in Nat

VARIABLES
  host,     \* whose loop reads
  script,   \* the user's code: running, finished, or its writer closed
  sent,     \* history: the lines written
  ends,     \* history: of each, where it ends in all that was written
  wire,     \* bytes on their way
  pc,       \* the loop: reading, leftover, ending, done
  failed,   \* whether reading ended by an error, or by the caller's leave
  buffer,   \* characters received and not yet taken as a line
  events,   \* events yielded
  told,     \* history: of each, the number of the line it tells; 0 for the host's own
  taken,    \* history: lines taken from the buffer
  torn      \* history: where in all that was written a chunk ended inside a character

written == <<sent, ends, wire>>
yielded == <<events, told, taken>>
vars == <<host, script, written, pc, failed, buffer, yielded, torn>>

\* What parse_event and serde's JsExecEvent make an event of.
Readable == {"console", "returned", "error"}

\* Outcomes the host cannot parse: a value that JSON omits or a message that is
\* no string; of the pooled worker also an error whose stack has a frame without
\* a location, which StackFrame requires.
Unreadable(h) == IF h = "pool" THEN {"invalid", "frameless"} ELSE {"invalid"}
Kinds == {"console", "returned", "error", "invalid", "frameless"}

Line == [kind : Kinds, text : Texts]
Bytes == Kinds \cup {"narrow", "lead", "tail", "close", "newline"}
Chars == Bytes \cup {"mark"}

StreamError == [kind |-> "error", text |-> <<"host">>]

-----------------------------------------------------------------------------
(* The worker *)

\* JSON.stringify(event) + '\n', encoded as UTF-8.
Encode(l) == <<l.kind>> \o l.text \o <<"close", "newline">>

\* Where the k-th line starts.
StartOf(k) == IF k = 1 THEN 0 ELSE ends[k - 1]

Write(kind) ==
  /\ Len(sent) < MaxLines
  /\ \E t \in Texts :
       LET l == [kind |-> kind, text |-> t]
       IN  /\ sent' = Append(sent, l)
           /\ ends' = Append(ends, StartOf(Len(sent) + 1) + Len(Encode(l)))
           /\ wire' = wire \o Encode(l)

\* A console call, also one that runs when the result is written.
WriteConsole ==
  /\ script # "closed" /\ pc # "done"
  /\ Write("console")
  /\ UNCHANGED <<host, script, pc, failed, buffer, yielded, torn>>

\* The result or the error; nothing when what was thrown is null or undefined.
\*
\* Assumption on the user's code: the runner's generated worker has `writer` and
\* `encoder` in its scope, and it writes no line of its own.  Nothing in the code
\* enforces that; executor.js keeps both out of its reach.
WriteOutcome ==
  /\ script = "running" /\ pc # "done"
  /\ script' = "finished"
  /\ \/ \E kind \in {"returned", "error"} \cup Unreadable(host) : Write(kind)
     \/ UNCHANGED written
  /\ UNCHANGED <<host, pc, failed, buffer, yielded, torn>>

CloseWriter ==
  /\ script = "finished" /\ pc # "done"
  /\ script' = "closed"
  /\ UNCHANGED <<host, written, pc, failed, buffer, yielded, torn>>

-----------------------------------------------------------------------------
(* The host *)

\* Mutant: anything but ASCII is replaced.
DecodeAscii(chunk) ==
  [k \in 1 .. Len(chunk) |-> IF chunk[k] \in {"lead", "tail"} THEN "mark" ELSE chunk[k]]

\* String::from_utf8_lossy: a character of which the chunk holds one half only is
\* replaced, here and again in the chunk that holds the other half.
Decode(chunk) ==
  [k \in 1 .. Len(chunk) |->
     IF (chunk[k] = "lead" /\ k = Len(chunk)) \/ (chunk[k] = "tail" /\ k = 1) THEN "mark"
     ELSE chunk[k]]

NewlineAt == {i \in 1 .. Len(buffer) : buffer[i] = "newline"}
HasLine == NewlineAt # {}
FirstNewline == CHOOSE i \in NewlineAt : \A j \in NewlineAt : i <= j

\* Mutant: the type of the event is not looked at.
ParsesAnyKind(chars) == Len(chars) >= 2 /\ chars[1] \in Kinds /\ chars[Len(chars)] = "close"

\* An empty line and one that does not parse are skipped.
Parses(chars) == Len(chars) >= 2 /\ chars[1] \in Readable /\ chars[Len(chars)] = "close"

Event(chars) == [kind |-> chars[1], text |-> SubSeq(chars, 2, Len(chars) - 1)]

Yield(event, line) == events' = Append(events, event) /\ told' = Append(told, line)

\* How much of what was written has come in, and what is lost of it when a chunk
\* ends after n more bytes.
Received == StartOf(taken + 1) + Len(buffer)
TornAfter(n) == IF wire[n] = "lead" THEN torn \cup {Received + n} ELSE torn

\* Mutant: a chunk is taken for a whole number of lines.
ReadChunkReplaces ==
  /\ pc = "reading" /\ ~HasLine
  /\ \E n \in 1 .. Len(wire) :
       /\ torn' = TornAfter(n)
       /\ buffer' = Decode(SubSeq(wire, 1, n))
       /\ wire' = SubSeq(wire, n + 1, Len(wire))
  /\ UNCHANGED <<host, script, sent, ends, pc, failed, yielded>>

\* The next chunk, of whatever size.
ReadChunk ==
  /\ pc = "reading" /\ ~HasLine
  /\ \E n \in 1 .. Len(wire) :
       /\ torn' = TornAfter(n)
       /\ buffer' = buffer \o Decode(SubSeq(wire, 1, n))
       /\ wire' = SubSeq(wire, n + 1, Len(wire))
  /\ UNCHANGED <<host, script, sent, ends, pc, failed, yielded>>

\* One turn of the inner loop, up to the yield.
TakeLine ==
  LET line == SubSeq(buffer, 1, FirstNewline - 1)
  IN  /\ pc = "reading" /\ HasLine
      /\ IF Parses(line) THEN Yield(Event(line), taken + 1) ELSE UNCHANGED <<events, told>>
      /\ taken' = taken + 1
      /\ buffer' = SubSeq(buffer, FirstNewline + 1, Len(buffer))
      /\ UNCHANGED <<host, script, written, pc, failed, torn>>

\* The worker closed its writer and everything it wrote has come in.
ReadEnd ==
  /\ pc = "reading" /\ ~HasLine /\ wire = <<>> /\ script = "closed"
  /\ pc' = "leftover"
  /\ UNCHANGED <<host, script, written, failed, buffer, yielded, torn>>

\* The worker died, the connection broke, or the client's timeout is over: the
\* runner breaks out of the loop, the pooled worker yields an error and returns,
\* as it does when the request fails before the first chunk.
ReadError ==
  /\ pc = "reading" /\ ~HasLine
  /\ failed' = TRUE
  /\ IF host = "runner"
     THEN pc' = "leftover" /\ UNCHANGED yielded
     ELSE pc' = "done" /\ Yield(StreamError, 0) /\ UNCHANGED taken
  /\ UNCHANGED <<host, script, written, buffer, torn>>

\* What is left in the buffer when the loop is over: at most a line whose newline
\* did not come in.
Leftover ==
  /\ pc = "leftover"
  /\ IF Parses(buffer)
     THEN Yield(Event(buffer), taken + 1) /\ taken' = taken + 1
     ELSE UNCHANGED yielded
  /\ pc' = "ending"
  /\ UNCHANGED <<host, script, written, failed, buffer, torn>>

Return ==
  /\ pc = "ending"
  /\ pc' = "done"
  /\ UNCHANGED <<host, script, written, failed, buffer, yielded, torn>>

\* The caller drops the stream.
Drop ==
  /\ pc # "done" /\ pc' = "done" /\ failed' = TRUE
  /\ UNCHANGED <<host, script, written, buffer, yielded, torn>>

-----------------------------------------------------------------------------

Init ==
  /\ host \in Hosts
  /\ script = "running"
  /\ sent = <<>> /\ ends = <<>> /\ wire = <<>> /\ buffer = <<>>
  /\ events = <<>> /\ told = <<>> /\ taken = 0
  /\ pc = "reading" /\ failed = FALSE
  /\ torn = {}

Read == ReadChunk \/ TakeLine \/ ReadEnd \/ Leftover \/ Return

Next == WriteConsole \/ WriteOutcome \/ CloseWriter \/ Read \/ ReadError \/ Drop

Spec == Init /\ [][Next]_vars

\* The caller keeps polling the stream and the connection carries what was
\* written; nothing is assumed of the user's code, nor that reading ever fails.
FairSpec == Spec /\ WF_vars(Read)

-----------------------------------------------------------------------------
(* Properties *)

TypeOK ==
  /\ host \in Hosts
  /\ script \in {"running", "finished", "closed"}
  /\ sent \in Seq(Line) /\ ends \in Seq(Nat) /\ Len(ends) = Len(sent)
  /\ wire \in Seq(Bytes)
  /\ pc \in {"reading", "leftover", "ending", "done"}
  /\ failed \in BOOLEAN
  /\ buffer \in Seq(Chars)
  /\ events \in Seq([kind : Readable, text : Seq(Chars)] \cup {StreamError})
  /\ told \in Seq(Nat) /\ Len(told) = Len(events)
  /\ taken \in Nat
  /\ torn \subseteq Nat

\* The j-th byte of the k-th line as the host has it: a byte of a character that
\* fell on two chunks is lost.
ByteOf(k, j) == Encode(sent[k])[j]
Lost(k, j) ==
  \/ ByteOf(k, j) = "lead" /\ StartOf(k) + j \in torn
  \/ ByteOf(k, j) = "tail" /\ StartOf(k) + j - 1 \in torn
CharOf(k, j) == IF Lost(k, j) THEN "mark" ELSE ByteOf(k, j)

\* The event a line makes when all of it has come in.
EventOf(k) ==
  [kind |-> sent[k].kind, text |-> [i \in 1 .. Len(sent[k].text) |-> CharOf(k, i + 1)]]

\* An event tells one line exactly as it was written but for the characters inside
\* of which a chunk ended: a split costs that character two marks and nothing else,
\* so output that comes in whole lines, as the worker writes it, arrives as it was.
DamageNeedsSplit ==
  \A e \in 1 .. Len(events) :
    IF told[e] = 0 THEN events[e] = StreamError
    ELSE told[e] \in 1 .. Len(sent) /\ events[e] = EventOf(told[e])

\* What makes these inductive.  Lines lie one after the other in what was written.
LinesInOrder ==
  /\ \A k \in 1 .. Len(sent) : ends[k] = StartOf(k) + Len(Encode(sent[k]))
  /\ \A i, k \in 1 .. Len(sent) + 1 : i <= k => StartOf(i) <= StartOf(k)

\* What was written and not yet taken is in the buffer or on the wire, each byte at
\* its place.
Pending ==
  pc \in {"reading", "leftover"} =>
    /\ Received + Len(wire) = StartOf(Len(sent) + 1)
    /\ \A p \in torn : p <= Received
    /\ \A k \in taken + 1 .. Len(sent) : \A j \in 1 .. Len(Encode(sent[k])) :
         LET p == StartOf(k) + j
         IN  IF p <= Received THEN buffer[p - StartOf(taken + 1)] = CharOf(k, j)
             ELSE wire[p - Received] = ByteOf(k, j)

\* The wire holds whole characters, but that the first half of its first one may
\* have come in with the last chunk.
WireWhole ==
  pc = "reading" =>
    \A i \in 1 .. Len(wire) :
      /\ wire[i] = "lead" => i < Len(wire) /\ wire[i + 1] = "tail"
      /\ wire[i] = "tail" => IF i = 1 THEN Received \in torn ELSE wire[i - 1] = "lead"

\* Lines are told once they are taken, and the end of the stream tells that all are.
Progress ==
  /\ taken <= Len(sent)
  /\ \A e \in 1 .. Len(events) : told[e] <= taken
  /\ pc # "reading" /\ ~failed => script = "closed" /\ taken = Len(sent)
  /\ pc = "leftover" => ~HasLine

IInv ==
  TypeOK /\ LinesInOrder /\ Pending /\ WireWhole /\ Progress /\ DamageNeedsSplit

\* The messages of an EventChannel are the lines, and its queue what is not taken yet.
Channel == INSTANCE EventChannel WITH
  Messages <- Line,
  Legible <- Readable,
  Failure <- StreamError,
  phase <- IF pc # "done" THEN "open" ELSE IF failed THEN "broken" ELSE "ended",
  writing <- script # "closed",
  queue <- SubSeq(sent, taken + 1, Len(sent)),
  delivered <- events

\* However the network cuts the bytes, and wherever the stream breaks off, the
\* host yields the lines the worker wrote, in order, none of them lost but at
\* the end of a broken stream, none torn, merged or invented, and their text
\* exact but for wide characters that fell on two chunks; and it comes to the
\* end of a stream whose writer is closed.
ImplementsChannel == Channel!FairSpec

===============================================================================
