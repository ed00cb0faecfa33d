--------------------------- MODULE EventLinesProofs ---------------------------
(***************************************************************************)
(* Proofs about EventLines, for any texts, any number of lines and any way *)
(* of cutting their bytes: what is told of a line, and that the host's     *)
(* loops implement an EventChannel.                                        *)
(***************************************************************************)
EXTENDS EventLines, SequenceTheorems, TLAPS

-----------------------------------------------------------------------------
(* Lines and their bytes *)

\* A line is its kind, its text, the closing brace and the newline, one byte each
\* but for the text.
LEMMA EncodeFacts ==
  ASSUME NEW l \in Line
  PROVE  /\ Len(l.text) \in Nat
         /\ Encode(l) \in Seq(Bytes)
         /\ Len(Encode(l)) = Len(l.text) + 3
         /\ Encode(l)[1] = l.kind
         /\ \A i \in 1 .. Len(l.text) : Encode(l)[i + 1] = l.text[i]
         /\ Encode(l)[Len(l.text) + 2] = "close"
         /\ Encode(l)[Len(l.text) + 3] = "newline"
<1>1. l.kind \in Kinds /\ l.text \in Seq({"narrow", "lead", "tail"})
  BY LinesAssumption DEF Line
<1>2. l.text \in Seq(Bytes) /\ <<l.kind>> \in Seq(Bytes) /\ <<"close", "newline">> \in Seq(Bytes)
  BY <1>1 DEF Bytes
<1> DEFINE front == <<l.kind>> \o l.text
<1>3. /\ front \in Seq(Bytes) /\ Len(front) = Len(l.text) + 1 /\ front[1] = l.kind
      /\ \A i \in 1 .. Len(l.text) : front[i + 1] = l.text[i]
  BY <1>2
<1>4. Encode(l) = front \o <<"close", "newline">>
  BY DEF Encode
<1> HIDE DEF front
<1>. QED
  BY <1>2, <1>3, <1>4

\* Where the bytes of a line are found.
LEMMA EncodePlaces ==
  ASSUME NEW l \in Line, NEW j \in 1 .. Len(Encode(l))
  PROVE  /\ Encode(l)[j] \in Bytes
         /\ Encode(l)[j] = "newline" <=> j = Len(Encode(l))
         /\ Encode(l)[j] = "close" <=> j = Len(Encode(l)) - 1
         /\ Encode(l)[j] = "lead" => j < Len(Encode(l)) /\ Encode(l)[j + 1] = "tail"
         /\ Encode(l)[j] = "tail" => j > 1 /\ Encode(l)[j - 1] = "lead"
         /\ j = 1 => Encode(l)[j] \in Kinds
<1> DEFINE n == Len(l.text)
<1>1. l.kind \in Kinds /\ l.text \in Seq({"narrow", "lead", "tail"}) /\ Whole(l.text)
  BY LinesAssumption DEF Line
<1>2. n \in Nat /\ Len(Encode(l)) = n + 3 /\ DOMAIN l.text = 1 .. n
  BY <1>1, EncodeFacts
<1>3. CASE j = 1
  BY <1>1, <1>2, <1>3, EncodeFacts DEF Kinds, Bytes
<1>4. CASE j \in 2 .. n + 1
  <2>1. j - 1 \in 1 .. n /\ Encode(l)[j] = l.text[j - 1] /\ l.text[j - 1] \in {"narrow", "lead", "tail"}
    <3>1. j - 1 \in 1 .. n /\ j = (j - 1) + 1
      BY <1>2, <1>4
    <3>. QED
      BY <1>1, <1>2, <3>1, EncodeFacts
  <2>2. l.text[j - 1] = "lead" => j < n + 1 /\ Encode(l)[j + 1] = "tail"
    <3>. SUFFICES ASSUME l.text[j - 1] = "lead" PROVE j < n + 1 /\ Encode(l)[j + 1] = "tail"
      OBVIOUS
    <3>1. j - 1 < n /\ l.text[(j - 1) + 1] = "tail"
      BY <1>1, <1>2, <2>1 DEF Whole
    <3>2. j \in 1 .. n /\ l.text[j] = "tail"
      BY <1>2, <1>4, <3>1
    <3>. QED
      BY <1>2, <3>1, <3>2, EncodeFacts
  <2>3. l.text[j - 1] = "tail" => j > 1 /\ Encode(l)[j - 1] = "lead"
    <3>. SUFFICES ASSUME l.text[j - 1] = "tail" PROVE j > 1 /\ Encode(l)[j - 1] = "lead"
      OBVIOUS
    <3>1. j - 1 > 1 /\ l.text[(j - 1) - 1] = "lead"
      BY <1>1, <1>2, <2>1 DEF Whole
    <3>2. PICK i \in 1 .. n : i = (j - 1) - 1
      BY <1>2, <1>4, <3>1
    <3>3. Encode(l)[i + 1] = "lead"
      BY <3>1, <3>2, EncodeFacts
    <3>. QED
      BY <1>2, <3>2, <3>3
  <2>4. j # 1 /\ j # n + 2 /\ j # n + 3 /\ j \in Nat
    BY <1>2, <1>4
  <2>. QED
    BY <1>2, <2>1, <2>2, <2>3, <2>4 DEF Bytes
<1>5. CASE j \in {n + 2, n + 3}
  BY <1>2, <1>5, EncodeFacts DEF Bytes
<1>. QED
  BY <1>2, <1>3, <1>4, <1>5

\* The host has the bytes of a line at their places, some of them lost.
LEMMA CharPlaces ==
  ASSUME NEW k \in 1 .. Len(sent), sent[k] \in Line, NEW j \in 1 .. Len(Encode(sent[k]))
  PROVE  /\ CharOf(k, j) \in Chars
         /\ CharOf(k, j) = "newline" <=> j = Len(Encode(sent[k]))
         /\ CharOf(k, j) = "close" <=> j = Len(Encode(sent[k])) - 1
         /\ j = 1 => CharOf(k, j) = sent[k].kind
<1>1. ByteOf(k, j) = Encode(sent[k])[j]
  BY DEF ByteOf
<1>2. CharOf(k, j) = ByteOf(k, j) \/ (CharOf(k, j) = "mark" /\ ByteOf(k, j) \in {"lead", "tail"})
  BY DEF CharOf, Lost
<1>3. j = 1 => ByteOf(k, j) \in Kinds /\ ByteOf(k, j) = sent[k].kind
  BY <1>1, EncodePlaces, EncodeFacts
<1>. QED
  BY <1>1, <1>2, <1>3, EncodePlaces DEF Chars, Kinds

\* Lines lie one after the other.
LEMMA Starts ==
  ASSUME TypeOK, LinesInOrder
  PROVE  /\ \A k \in 1 .. Len(sent) + 1 : StartOf(k) \in Nat
         /\ \A k \in 1 .. Len(sent) :
              /\ sent[k] \in Line /\ Len(Encode(sent[k])) \in Nat \ {0}
              /\ StartOf(k + 1) = StartOf(k) + Len(Encode(sent[k]))
<1>1. ASSUME NEW k \in 1 .. Len(sent) + 1
      PROVE  StartOf(k) \in Nat
  <2>1. CASE k = 1
    BY <2>1 DEF StartOf
  <2>2. CASE k - 1 \in 1 .. Len(ends)
    BY <2>2 DEF StartOf, TypeOK
  <2>. QED
    BY <2>1, <2>2 DEF TypeOK
<1>2. ASSUME NEW k \in 1 .. Len(sent)
      PROVE  /\ sent[k] \in Line /\ Len(Encode(sent[k])) \in Nat \ {0}
             /\ StartOf(k + 1) = StartOf(k) + Len(Encode(sent[k]))
  <2>1. sent[k] \in Line
    BY DEF TypeOK
  <2>2. ends[k] = StartOf(k) + Len(Encode(sent[k]))
    BY DEF LinesInOrder
  <2>3. k + 1 # 1 /\ (k + 1) - 1 = k
    OBVIOUS
  <2>. QED
    BY <2>1, <2>2, <2>3, EncodeFacts DEF StartOf
<1>. QED
  BY <1>1, <1>2

\* What the invariant says of the line that is next to be taken.
LEMMA NextLine ==
  ASSUME IInv, pc \in {"reading", "leftover"}, taken < Len(sent)
  PROVE  LET k == taken + 1
             n == Len(Encode(sent[k]))
         IN  /\ k \in 1 .. Len(sent) /\ sent[k] \in Line /\ sent[k].text \in Seq(Chars)
             /\ n = Len(sent[k].text) + 3 /\ Len(sent[k].text) \in Nat
             /\ StartOf(k) \in Nat /\ StartOf(k + 1) = StartOf(k) + n
             /\ \A j \in 1 .. n : j <= Len(buffer) => buffer[j] = CharOf(k, j)
<1> DEFINE k == taken + 1
           n == Len(Encode(sent[k]))
<1>1. k \in 1 .. Len(sent) /\ sent[k] \in Line /\ buffer \in Seq(Chars)
  BY DEF IInv, TypeOK
<1>2. n = Len(sent[k].text) + 3 /\ Len(sent[k].text) \in Nat /\ sent[k].text \in Seq(Chars)
  <2>1. sent[k].text \in Seq({"narrow", "lead", "tail"})
    BY <1>1, LinesAssumption DEF Line
  <2>2. sent[k].text \in Seq(Chars)
    BY <2>1 DEF Chars, Bytes
  <2>. QED
    BY <1>1, <2>2, EncodeFacts
<1>3. StartOf(k) \in Nat /\ StartOf(k + 1) = StartOf(k) + n
  BY <1>1, Starts DEF IInv
<1>4. ASSUME NEW j \in 1 .. n, j <= Len(buffer)
      PROVE  buffer[j] = CharOf(k, j)
  <2>1. StartOf(k) + j <= Received
    BY <1>2, <1>3, <1>4 DEF Received, IInv, TypeOK
  <2>2. buffer[(StartOf(k) + j) - StartOf(k)] = CharOf(k, j)
    BY <1>1, <2>1 DEF IInv, Pending
  <2>. QED
    BY <1>2, <1>3, <2>2
<1>. QED
  BY <1>1, <1>2, <1>3, <1>4

\* The first newline in the buffer is the one of that line.
LEMMA NewlineFound ==
  ASSUME IInv, pc \in {"reading", "leftover"}
  PROVE  LET n == Len(Encode(sent[taken + 1]))
         IN  /\ HasLine <=> taken < Len(sent) /\ n <= Len(buffer)
             /\ HasLine => FirstNewline = n
<1> DEFINE k == taken + 1
           n == Len(Encode(sent[k]))
<1>0. taken \in Nat /\ Len(sent) \in Nat /\ taken <= Len(sent) /\ Len(buffer) \in Nat
      /\ Len(wire) \in Nat /\ StartOf(Len(sent) + 1) \in Nat
  BY DEF IInv, TypeOK, Progress, StartOf
<1>1. CASE taken = Len(sent)
  <2>1. Len(buffer) = 0
    BY <1>0, <1>1 DEF IInv, Pending, Received
  <2>. QED
    BY <1>0, <1>1, <2>1 DEF HasLine, NewlineAt
<1>2. CASE taken < Len(sent)
  <2>1. k \in 1 .. Len(sent) /\ sent[k] \in Line /\ n \in Nat \ {0}
    BY <1>2, NextLine
  <2>2. ASSUME NEW j \in 1 .. n, j <= Len(buffer)
        PROVE  buffer[j] = "newline" <=> j = n
    <3>1. buffer[j] = CharOf(k, j)
      BY <1>2, <2>2, NextLine
    <3>. QED
      BY <2>1, <3>1, CharPlaces
  <2> HIDE DEF k, n
  <2>3. ASSUME n <= Len(buffer)
        PROVE  HasLine /\ FirstNewline = n
    <3>1. n \in NewlineAt
      BY <1>0, <2>1, <2>2, <2>3 DEF NewlineAt
    <3>2. ASSUME NEW i \in NewlineAt
          PROVE  n <= i
      BY <1>0, <2>1, <2>2, <3>2 DEF NewlineAt
    <3>3. \A i \in NewlineAt : i \in Nat
      BY <1>0 DEF NewlineAt
    <3>4. \A j \in NewlineAt : n <= j
      BY <3>2
    <3>5. FirstNewline \in NewlineAt /\ \A j \in NewlineAt : FirstNewline <= j
      BY <3>1, <3>4 DEF FirstNewline
    <3>. QED
      BY <2>1, <3>1, <3>3, <3>4, <3>5 DEF HasLine
  <2>4. ASSUME n > Len(buffer)
        PROVE  ~HasLine
    BY <1>0, <2>1, <2>2, <2>4 DEF HasLine, NewlineAt
  <2>. QED
    BY <1>0, <1>2, <2>1, <2>3, <2>4 DEF k, n
<1>. QED
  BY <1>0, <1>1, <1>2

\* All of a line but its newline is parsed as the event of that line.
LEMMA ParsesLine ==
  ASSUME NEW k \in 1 .. Len(sent), sent[k] \in Line, NEW chars \in Seq(Chars),
         Len(chars) = Len(Encode(sent[k])) - 1,
         \A j \in 1 .. Len(chars) : chars[j] = CharOf(k, j)
  PROVE  /\ Parses(chars) <=> sent[k].kind \in Readable
         /\ Event(chars) = EventOf(k)
<1> DEFINE n == Len(sent[k].text)
<1>1. Len(Encode(sent[k])) = n + 3 /\ n \in Nat /\ Len(chars) = n + 2
  BY EncodeFacts
<1>2. chars[1] = sent[k].kind /\ chars[n + 2] = "close"
  BY <1>1, CharPlaces
<1>3. SubSeq(chars, 2, n + 1) = [i \in 1 .. n |-> CharOf(k, i + 1)]
  <2>1. SubSeq(chars, 2, n + 1) = [i \in 1 .. n |-> chars[i + 1]]
    BY <1>1
  <2>2. \A i \in 1 .. n : chars[i + 1] = CharOf(k, i + 1)
    BY <1>1
  <2>. QED
    BY <2>1, <2>2
<1>4. Len(chars) - 1 = n + 1 /\ Len(chars) >= 2
  BY <1>1
<1>5. Parses(chars) <=> sent[k].kind \in Readable
  BY <1>1, <1>2, <1>4 DEF Parses
<1>6. Event(chars) = [kind |-> sent[k].kind, text |-> [i \in 1 .. n |-> CharOf(k, i + 1)]]
  BY <1>2, <1>3, <1>4 DEF Event
<1>. QED
  BY <1>5, <1>6 DEF EventOf

\* A line of which the newline has not come in is parsed when nothing else is missing.
LEMMA ParsesRest ==
  ASSUME IInv, pc \in {"reading", "leftover"}, ~HasLine, Parses(buffer)
  PROVE  taken < Len(sent) /\ Len(buffer) = Len(Encode(sent[taken + 1])) - 1
<1> DEFINE k == taken + 1
           n == Len(Encode(sent[k]))
<1>1. buffer \in Seq(Chars) /\ Len(buffer) >= 2 /\ buffer[Len(buffer)] = "close"
  BY DEF Parses, IInv, TypeOK
<1>2. taken < Len(sent)
  <2>. SUFFICES ASSUME taken >= Len(sent) PROVE Len(buffer) = 0
    BY <1>1 DEF IInv, TypeOK
  <2>1. taken = Len(sent) /\ StartOf(Len(sent) + 1) \in Nat
    BY DEF IInv, TypeOK, Progress, StartOf
  <2>. QED
    BY <2>1 DEF IInv, TypeOK, Pending, Received
<1>3. Len(buffer) < n /\ n \in Nat /\ k \in 1 .. Len(sent) /\ sent[k] \in Line
  BY <1>1, <1>2, NewlineFound, NextLine
<1>4. CharOf(k, Len(buffer)) = "close"
  <2>1. Len(buffer) \in 1 .. n /\ Len(buffer) <= Len(buffer)
    BY <1>1, <1>3
  <2>2. \A j \in 1 .. n : j <= Len(buffer) => buffer[j] = CharOf(k, j)
    BY <1>2, NextLine
  <2>. QED
    BY <1>1, <2>1, <2>2
<1>. QED
  BY <1>1, <1>2, <1>3, <1>4, CharPlaces

-----------------------------------------------------------------------------
(* The steps keep the invariant *)

\* A line that is added leaves the ones before it as they are.
LEMMA LineAdded ==
  ASSUME TypeOK, LinesInOrder, NEW l \in Line, torn' = torn,
         sent' = Append(sent, l), ends' = Append(ends, StartOf(Len(sent) + 1) + Len(Encode(l)))
  PROVE  /\ sent' \in Seq(Line) /\ ends' \in Seq(Nat)
         /\ Len(sent') = Len(sent) + 1 /\ Len(ends') = Len(sent')
         /\ sent'[Len(sent) + 1] = l /\ \A k \in 1 .. Len(sent) : sent'[k] = sent[k]
         /\ \A k \in 1 .. Len(sent) + 1 : StartOf(k)' = StartOf(k)
         /\ StartOf(Len(sent) + 1)' = StartOf(Len(sent) + 1) + Len(Encode(l))
         /\ \A k \in 1 .. Len(sent) : EventOf(k)' = EventOf(k)
         /\ \A k \in 1 .. Len(sent) : \A j \in Nat :
              ByteOf(k, j)' = ByteOf(k, j) /\ CharOf(k, j)' = CharOf(k, j)
         /\ LinesInOrder'
<1> DEFINE end == StartOf(Len(sent) + 1) + Len(Encode(l))
<1>1. Len(sent) \in Nat /\ Len(ends) = Len(sent) /\ sent \in Seq(Line) /\ ends \in Seq(Nat)
  BY DEF TypeOK
<1>2. StartOf(Len(sent) + 1) \in Nat /\ Len(Encode(l)) \in Nat /\ end \in Nat
  BY <1>1, Starts, EncodeFacts
<1> HIDE DEF end
<1>3. /\ sent' \in Seq(Line) /\ Len(sent') = Len(sent) + 1
      /\ sent'[Len(sent) + 1] = l /\ \A k \in 1 .. Len(sent) : sent'[k] = sent[k]
  BY <1>1
<1>4. /\ ends' \in Seq(Nat) /\ Len(ends') = Len(sent) + 1
      /\ ends'[Len(sent) + 1] = end /\ \A k \in 1 .. Len(sent) : ends'[k] = ends[k]
  BY <1>1, <1>2 DEF end
<1>5. ASSUME NEW k \in 1 .. Len(sent) + 1
      PROVE  StartOf(k)' = StartOf(k)
  <2>1. CASE k = 1
    BY <2>1 DEF StartOf
  <2>2. CASE k - 1 \in 1 .. Len(sent)
    BY <2>2, <1>4 DEF StartOf
  <2>. QED
    BY <1>1, <2>1, <2>2
<1>6. StartOf(Len(sent) + 1)' = end
  BY <1>1, <1>3, <1>4 DEF StartOf
<1>7. ASSUME NEW k \in 1 .. Len(sent), NEW j \in Nat
      PROVE  ByteOf(k, j)' = ByteOf(k, j) /\ CharOf(k, j)' = CharOf(k, j)
  <2>1. ByteOf(k, j)' = ByteOf(k, j)
    BY <1>3 DEF ByteOf
  <2>2. StartOf(k)' = StartOf(k)
    BY <1>1, <1>5
  <2>. QED
    BY <2>1, <2>2 DEF CharOf, Lost
<1>8. ASSUME NEW k \in 1 .. Len(sent)
      PROVE  EventOf(k)' = EventOf(k)
  <2>1. sent'[k] = sent[k] /\ Len(sent[k].text) \in Nat
    BY <1>1, <1>3, EncodeFacts
  <2>2. \A i \in 1 .. Len(sent[k].text) : CharOf(k, i + 1)' = CharOf(k, i + 1)
    BY <1>7, <2>1
  <2>. QED
    BY <2>1, <2>2 DEF EventOf
<1>9. LinesInOrder'
  <2>1. ASSUME NEW k \in 1 .. Len(sent')
        PROVE  ends'[k] = StartOf(k)' + Len(Encode(sent'[k]))
    <3>1. CASE k \in 1 .. Len(sent)
      <4>1. k \in 1 .. Len(sent) + 1 /\ ends[k] = StartOf(k) + Len(Encode(sent[k]))
        BY <3>1, <1>1 DEF LinesInOrder
      <4>. QED
        BY <3>1, <4>1, <1>3, <1>4, <1>5
    <3>2. CASE k = Len(sent) + 1
      BY <3>2, <1>1, <1>3, <1>4, <1>5 DEF end
    <3>. QED
      BY <1>1, <1>3, <3>1, <3>2
  <2>2. ASSUME NEW i \in 1 .. Len(sent') + 1, NEW k \in 1 .. Len(sent') + 1, i <= k
        PROVE  StartOf(i)' <= StartOf(k)'
    <3>1. CASE k <= Len(sent) + 1
      BY <3>1, <2>2, <1>1, <1>3, <1>5 DEF LinesInOrder
    <3>2. CASE i <= Len(sent) + 1 /\ k = Len(sent') + 1
      <4>1. StartOf(i)' = StartOf(i) /\ StartOf(i) \in Nat /\ StartOf(i) <= StartOf(Len(sent) + 1)
        BY <3>2, <1>1, <1>5, Starts DEF LinesInOrder
      <4>. QED
        BY <3>2, <4>1, <1>2, <1>6 DEF end
    <3>3. CASE i = Len(sent') + 1 /\ k = Len(sent') + 1
      BY <3>3, <1>2, <1>6
    <3>. QED
      BY <1>1, <1>3, <2>2, <3>1, <3>2, <3>3
  <2>. QED
    BY <2>1, <2>2 DEF LinesInOrder
<1>. QED
  BY <1>1, <1>3, <1>4, <1>5, <1>6, <1>7, <1>8, <1>9 DEF end

\* What is written waits on the wire, behind what was written before.
LEMMA WriteStep ==
  ASSUME IInv, NEW kind \in Kinds, Write(kind), script # "closed", pc # "done",
         script' \in {"running", "finished"},
         UNCHANGED <<host, pc, failed, buffer, yielded, torn>>
  PROVE  IInv'
<1>1. PICK t \in Texts :
        LET l == [kind |-> kind, text |-> t]
        IN  /\ sent' = Append(sent, l)
            /\ ends' = Append(ends, StartOf(Len(sent) + 1) + Len(Encode(l)))
            /\ wire' = wire \o Encode(l)
  BY DEF Write
<1> DEFINE l == [kind |-> kind, text |-> t]
<1>2. /\ l \in Line /\ sent' = Append(sent, l)
      /\ ends' = Append(ends, StartOf(Len(sent) + 1) + Len(Encode(l)))
      /\ wire' = wire \o Encode(l)
  BY <1>1 DEF Line
<1> HIDE DEF l
<1> USE DEF yielded
<1>3. /\ TypeOK /\ LinesInOrder
      /\ taken \in Nat /\ Len(sent) \in Nat /\ Len(buffer) \in Nat /\ Len(wire) \in Nat
      /\ wire \in Seq(Bytes) /\ Encode(l) \in Seq(Bytes) /\ Len(Encode(l)) \in Nat
      /\ taken <= Len(sent)
  BY <1>2, EncodeFacts DEF IInv, TypeOK, Progress
<1>4. /\ sent' \in Seq(Line) /\ ends' \in Seq(Nat)
      /\ Len(sent') = Len(sent) + 1 /\ Len(ends') = Len(sent')
      /\ sent'[Len(sent) + 1] = l /\ \A k \in 1 .. Len(sent) : sent'[k] = sent[k]
      /\ \A k \in 1 .. Len(sent) + 1 : StartOf(k)' = StartOf(k)
      /\ StartOf(Len(sent) + 1)' = StartOf(Len(sent) + 1) + Len(Encode(l))
      /\ \A k \in 1 .. Len(sent) : EventOf(k)' = EventOf(k)
      /\ \A k \in 1 .. Len(sent) : \A j \in Nat :
           ByteOf(k, j)' = ByteOf(k, j) /\ CharOf(k, j)' = CharOf(k, j)
      /\ LinesInOrder'
  BY <1>2, <1>3, LineAdded
<1>5. /\ wire' \in Seq(Bytes) /\ Len(wire') = Len(wire) + Len(Encode(l))
      /\ \A i \in 1 .. Len(wire) : wire'[i] = wire[i]
      /\ \A j \in 1 .. Len(Encode(l)) : wire'[Len(wire) + j] = Encode(l)[j]
  BY <1>2, <1>3
<1>6. TypeOK'
  BY <1>4, <1>5 DEF IInv, TypeOK
<1>7. Received' = Received /\ Received \in Nat
  <2>1. taken + 1 \in 1 .. Len(sent) + 1
    BY <1>3
  <2>2. StartOf(taken + 1) \in Nat
    BY <1>3, <2>1, Starts
  <2>3. StartOf(taken + 1)' = StartOf(taken + 1)
    BY <1>4, <2>1
  <2>. QED
    BY <1>3, <2>2, <2>3 DEF Received
<1>8. Pending'
  <2>. SUFFICES ASSUME pc \in {"reading", "leftover"} PROVE Pending'
    BY DEF Pending
  <2>1. /\ Received + Len(wire) = StartOf(Len(sent) + 1)
        /\ \A p \in torn : p <= Received
    BY DEF IInv, Pending
  <2>2. Received' + Len(wire') = StartOf(Len(sent) + 1)'
    BY <2>1, <1>3, <1>4, <1>5, <1>7
  <2>3. ASSUME NEW k \in taken + 1 .. Len(sent'), NEW j \in 1 .. Len(Encode(sent'[k])),
               NEW p, p = StartOf(k)' + j
        PROVE  IF p <= Received' THEN buffer'[p - StartOf(taken + 1)'] = CharOf(k, j)'
               ELSE wire'[p - Received'] = ByteOf(k, j)'
    <3>1. StartOf(taken + 1)' = StartOf(taken + 1)
      BY <1>3, <1>4
    <3>2. CASE k \in 1 .. Len(sent)
      <4>1. /\ sent'[k] = sent[k] /\ StartOf(k)' = StartOf(k) /\ j \in Nat
            /\ ByteOf(k, j)' = ByteOf(k, j) /\ CharOf(k, j)' = CharOf(k, j)
            /\ k \in taken + 1 .. Len(sent) /\ j \in 1 .. Len(Encode(sent[k]))
        <5>1. k \in 1 .. Len(sent) + 1 /\ k \in taken + 1 .. Len(sent) /\ sent'[k] = sent[k]
          BY <3>2, <1>3, <1>4
        <5>2. j \in Nat /\ j \in 1 .. Len(Encode(sent[k]))
          BY <5>1
        <5>. QED
          BY <3>2, <5>1, <5>2, <1>4
      <4>2. IF p <= Received THEN buffer[p - StartOf(taken + 1)] = CharOf(k, j)
            ELSE wire[p - Received] = ByteOf(k, j)
        BY <2>3, <4>1 DEF IInv, Pending
      <4>3. p \in Nat /\ p <= Received + Len(wire)
        <5>1. /\ StartOf(k) \in Nat /\ Len(Encode(sent[k])) \in Nat
              /\ StartOf(k + 1) = StartOf(k) + Len(Encode(sent[k]))
          BY <1>3, <3>2, Starts
        <5>2. StartOf(k + 1) <= StartOf(Len(sent) + 1)
          <6>1. k + 1 \in 1 .. Len(sent) + 1 /\ Len(sent) + 1 \in 1 .. Len(sent) + 1
                /\ k + 1 <= Len(sent) + 1
            BY <1>3, <3>2
          <6>. QED
            BY <1>3, <6>1 DEF LinesInOrder
        <5>3. StartOf(Len(sent) + 1) \in Nat
          BY <1>3, Starts
        <5>. QED
          BY <2>1, <2>3, <4>1, <5>1, <5>2, <5>3, <1>3
      <4>4. p > Received => wire'[p - Received] = wire[p - Received]
        <5>. SUFFICES ASSUME p > Received PROVE p - Received \in 1 .. Len(wire)
          BY <1>5
        <5>. QED
          BY <4>3, <1>3, <1>7
      <4>. QED
        BY <3>1, <4>1, <4>2, <4>3, <4>4, <1>7
    <3>3. CASE k = Len(sent) + 1
      <4>1. sent'[k] = l /\ j \in 1 .. Len(Encode(l)) /\ ByteOf(k, j)' = Encode(l)[j]
        BY <3>3, <1>4 DEF ByteOf
      <4>2. p = Received + Len(wire) + j /\ StartOf(k) \in Nat
        BY <2>1, <2>3, <3>3, <1>3, <1>4, Starts
      <4>3. p \in Nat /\ p > Received /\ p - Received = Len(wire) + j
        BY <4>1, <4>2, <1>3, <1>7
      <4>4. wire'[p - Received] = ByteOf(k, j)'
        BY <4>1, <4>3, <1>5
      <4>. QED
        BY <4>3, <4>4, <1>7
    <3>. QED
      BY <3>2, <3>3, <1>3, <1>4
  <2>. QED
    BY <2>1, <2>2, <2>3, <1>7 DEF Pending
<1>9. WireWhole'
  <2>. SUFFICES ASSUME pc = "reading", NEW i \in 1 .. Len(wire')
                PROVE  /\ wire'[i] = "lead" => i < Len(wire') /\ wire'[i + 1] = "tail"
                       /\ wire'[i] = "tail" => IF i = 1 THEN Received \in torn ELSE wire'[i - 1] = "lead"
    BY <1>7 DEF WireWhole
  <2>1. CASE i \in 1 .. Len(wire)
    <3>1. /\ wire[i] = "lead" => i < Len(wire) /\ wire[i + 1] = "tail"
          /\ wire[i] = "tail" => IF i = 1 THEN Received \in torn ELSE wire[i - 1] = "lead"
      BY <2>1 DEF IInv, WireWhole
    <3>2. i < Len(wire) => i + 1 \in 1 .. Len(wire)
      BY <2>1, <1>3
    <3>3. i # 1 => i - 1 \in 1 .. Len(wire)
      BY <2>1, <1>3
    <3>4. wire'[i] = wire[i] /\ i \in Nat
      BY <2>1, <1>5
    <3>5. ASSUME wire[i] = "lead"
          PROVE  i < Len(wire') /\ wire'[i + 1] = "tail"
      BY <3>1, <3>2, <3>4, <3>5, <1>3, <1>5
    <3>6. ASSUME wire[i] = "tail"
          PROVE  IF i = 1 THEN Received \in torn ELSE wire'[i - 1] = "lead"
      BY <3>1, <3>3, <3>4, <3>6, <1>3, <1>5
    <3>. QED
      BY <3>4, <3>5, <3>6
  <2>2. CASE i > Len(wire)
    <3>1. PICK j \in 1 .. Len(Encode(l)) : i = Len(wire) + j
      <4>1. i - Len(wire) \in 1 .. Len(Encode(l)) /\ i = Len(wire) + (i - Len(wire))
        BY <2>2, <1>3, <1>5
      <4>. QED
        BY <4>1
    <3>2. wire'[i] = Encode(l)[j]
      BY <3>1, <1>5
    <3>3. wire'[i] = "lead" => i < Len(wire') /\ wire'[i + 1] = "tail"
      <4>. SUFFICES ASSUME wire'[i] = "lead" PROVE i < Len(wire') /\ wire'[i + 1] = "tail"
        OBVIOUS
      <4>1. j < Len(Encode(l)) /\ Encode(l)[j + 1] = "tail"
        BY <3>2, <1>2, EncodePlaces
      <4>2. i + 1 = Len(wire) + (j + 1) /\ j + 1 \in 1 .. Len(Encode(l))
        BY <3>1, <4>1, <1>3
      <4>. QED
        BY <4>1, <4>2, <1>3, <1>5
    <3>4. wire'[i] = "tail" => i # 1 /\ wire'[i - 1] = "lead"
      <4>. SUFFICES ASSUME wire'[i] = "tail" PROVE i # 1 /\ wire'[i - 1] = "lead"
        OBVIOUS
      <4>1. j > 1 /\ Encode(l)[j - 1] = "lead"
        BY <3>2, <1>2, EncodePlaces
      <4>2. i # 1 /\ i - 1 = Len(wire) + (j - 1) /\ j - 1 \in 1 .. Len(Encode(l))
        BY <3>1, <4>1, <1>3
      <4>. QED
        BY <4>1, <4>2, <1>5
    <3>. QED
      BY <3>3, <3>4
  <2>. QED
    BY <2>1, <2>2, <1>3
<1>10. Progress'
  BY <1>3, <1>4 DEF IInv, TypeOK, Progress, HasLine, NewlineAt
<1>11. DamageNeedsSplit'
  <2>. SUFFICES ASSUME NEW e \in 1 .. Len(events)
                PROVE  IF told[e] = 0 THEN events[e] = StreamError
                       ELSE told[e] \in 1 .. Len(sent') /\ events[e] = EventOf(told[e])'
    BY DEF DamageNeedsSplit
  <2>1. IF told[e] = 0 THEN events[e] = StreamError
        ELSE told[e] \in 1 .. Len(sent) /\ events[e] = EventOf(told[e])
    BY DEF IInv, DamageNeedsSplit
  <2>. QED
    BY <2>1, <1>3, <1>4
<1>. QED
  BY <1>4, <1>6, <1>8, <1>9, <1>10, <1>11 DEF IInv

\* Steps that touch neither the lines nor what has come in of them.
LEMMA Untouched ==
  ASSUME UNCHANGED <<sent, ends, torn>>
  PROVE  /\ \A k : StartOf(k)' = StartOf(k) /\ EventOf(k)' = EventOf(k)
         /\ \A k, j : ByteOf(k, j)' = ByteOf(k, j) /\ CharOf(k, j)' = CharOf(k, j)
         /\ LinesInOrder <=> LinesInOrder'
<1>1. \A k : StartOf(k)' = StartOf(k)
  BY DEF StartOf
<1>2. \A k, j : ByteOf(k, j)' = ByteOf(k, j)
  BY DEF ByteOf
<1>3. \A k, j : CharOf(k, j)' = CharOf(k, j)
  BY <1>1, <1>2 DEF CharOf, Lost
<1>4. \A k : EventOf(k)' = EventOf(k)
  BY <1>3 DEF EventOf
<1>5. LinesInOrder <=> LinesInOrder'
  BY <1>1 DEF LinesInOrder
<1>. QED
  BY <1>1, <1>2, <1>3, <1>4, <1>5

\* So does a step that moves the loop on and at most reports an error.
LEMMA LoopStep ==
  ASSUME IInv,
         UNCHANGED <<host, written, buffer, taken, torn>>,
         script' \in {"running", "finished", "closed"}, script = "closed" => script' = "closed",
         pc' \in {"reading", "leftover", "ending", "done"}, failed' \in BOOLEAN,
         failed => failed',
         pc' = "reading" => pc = "reading",
         pc' = "leftover" => pc = "leftover" \/ (pc = "reading" /\ ~HasLine),
         pc' # "reading" /\ ~failed' =>
           pc # "reading" \/ (script' = "closed" /\ wire = <<>> /\ ~HasLine),
         \/ UNCHANGED <<events, told>>
         \/ Yield(StreamError, 0)
  PROVE  IInv'
<1> USE DEF written
<1>1. /\ \A k : StartOf(k)' = StartOf(k) /\ EventOf(k)' = EventOf(k)
      /\ \A k, j : ByteOf(k, j)' = ByteOf(k, j) /\ CharOf(k, j)' = CharOf(k, j)
      /\ LinesInOrder <=> LinesInOrder'
  BY Untouched
<1>2. TypeOK /\ LinesInOrder /\ LinesInOrder' /\ HasLine' = HasLine
  BY <1>1 DEF IInv, HasLine, NewlineAt
<1>3. Received' = Received
  BY <1>1 DEF Received
<1>4. /\ events' \in Seq([kind : Readable, text : Seq(Chars)] \cup {StreamError})
      /\ told' \in Seq(Nat) /\ Len(told') = Len(events')
      /\ \A e \in 1 .. Len(events') :
           \/ e \in 1 .. Len(events) /\ events'[e] = events[e] /\ told'[e] = told[e]
           \/ events'[e] = StreamError /\ told'[e] = 0
  <2>1. CASE UNCHANGED <<events, told>>
    BY <2>1, <1>2 DEF TypeOK
  <2>2. CASE Yield(StreamError, 0)
    <3> DEFINE Told == [kind : Readable, text : Seq(Chars)] \cup {StreamError}
    <3>1. events \in Seq(Told) /\ told \in Seq(Nat) /\ Len(told) = Len(events) /\ StreamError \in Told
      BY <1>2 DEF TypeOK
    <3> HIDE DEF Told
    <3>2. events' = Append(events, StreamError) /\ told' = Append(told, 0)
      BY <2>2 DEF Yield
    <3>3. events' \in Seq(Told) /\ told' \in Seq(Nat) /\ Len(told') = Len(events')
      BY <3>1, <3>2
    <3>4. ASSUME NEW e \in 1 .. Len(events')
          PROVE  \/ e \in 1 .. Len(events) /\ events'[e] = events[e] /\ told'[e] = told[e]
                 \/ events'[e] = StreamError /\ told'[e] = 0
      BY <3>1, <3>2
    <3>. QED
      BY <3>3, <3>4 DEF Told
  <2>. QED
    BY <2>1, <2>2
<1>5. TypeOK'
  BY <1>2, <1>4 DEF TypeOK
<1>6. Pending'
  <2>. SUFFICES ASSUME pc' \in {"reading", "leftover"} PROVE Pending'
    BY DEF Pending
  <2>1. pc \in {"reading", "leftover"}
    OBVIOUS
  <2>2. /\ Received + Len(wire) = StartOf(Len(sent) + 1)
        /\ \A p \in torn : p <= Received
        /\ \A k \in taken + 1 .. Len(sent) : \A j \in 1 .. Len(Encode(sent[k])) :
             LET p == StartOf(k) + j
             IN  IF p <= Received THEN buffer[p - StartOf(taken + 1)] = CharOf(k, j)
                 ELSE wire[p - Received] = ByteOf(k, j)
    BY <2>1 DEF IInv, Pending
  <2>. QED
    BY <2>2, <1>1, <1>3 DEF Pending
<1>7. WireWhole'
  BY <1>3 DEF IInv, WireWhole
<1>8. Progress'
  <2>1. taken \in Nat /\ Len(sent) \in Nat /\ taken <= Len(sent)
    BY <1>2 DEF IInv, TypeOK, Progress
  <2>2. \A e \in 1 .. Len(events') : told'[e] <= taken'
    BY <1>4, <2>1 DEF IInv, Progress
  <2>3. ASSUME pc' # "reading", ~failed'
        PROVE  script' = "closed" /\ taken = Len(sent)
    <3>1. CASE pc # "reading"
      BY <2>3, <3>1 DEF IInv, Progress
    <3>2. CASE pc = "reading"
      <4>1. script' = "closed" /\ wire = <<>> /\ ~HasLine
        BY <2>3, <3>2
      <4>2. SUFFICES ASSUME taken < Len(sent) PROVE FALSE
        BY <2>1, <4>1
      <4>3. /\ StartOf(taken + 1) \in Nat /\ Len(Encode(sent[taken + 1])) \in Nat
            /\ StartOf(taken + 2) = StartOf(taken + 1) + Len(Encode(sent[taken + 1]))
            /\ StartOf(Len(sent) + 1) \in Nat
        BY <2>1, <4>2, <1>2, Starts
      <4>4. StartOf(taken + 2) <= StartOf(Len(sent) + 1)
        <5>1. taken + 2 \in 1 .. Len(sent) + 1 /\ Len(sent) + 1 \in 1 .. Len(sent) + 1
              /\ taken + 2 <= Len(sent) + 1
          BY <2>1, <4>2
        <5>. QED
          BY <5>1, <1>2 DEF LinesInOrder
      <4>5. Len(buffer) = StartOf(Len(sent) + 1) - StartOf(taken + 1) /\ Len(buffer) \in Nat
        BY <3>2, <4>1, <4>3, <1>2 DEF IInv, Pending, Received, TypeOK
      <4>6. Len(Encode(sent[taken + 1])) <= Len(buffer)
        BY <4>3, <4>4, <4>5
      <4>. QED
        BY <3>2, <4>1, <4>2, <4>6, NewlineFound
    <3>. QED
      BY <3>1, <3>2
  <2>4. pc' = "leftover" => ~HasLine'
    BY <1>2 DEF IInv, Progress
  <2>. QED
    BY <2>1, <2>2, <2>3, <2>4 DEF Progress
<1>9. DamageNeedsSplit'
  <2>. SUFFICES ASSUME NEW e \in 1 .. Len(events')
                PROVE  IF told'[e] = 0 THEN events'[e] = StreamError
                       ELSE told'[e] \in 1 .. Len(sent) /\ events'[e] = EventOf(told[e])'
    BY DEF DamageNeedsSplit
  <2>1. CASE e \in 1 .. Len(events) /\ events'[e] = events[e] /\ told'[e] = told[e]
    BY <2>1, <1>1 DEF IInv, DamageNeedsSplit
  <2>2. CASE events'[e] = StreamError /\ told'[e] = 0
    BY <2>2
  <2>. QED
    BY <2>1, <2>2, <1>4
<1>. QED
  BY <1>2, <1>5, <1>6, <1>7, <1>8, <1>9 DEF IInv

\* A chunk brings the next bytes to their places, with marks for the characters of
\* which it brings one half.
LEMMA ReadChunkStep ==
  ASSUME IInv, ReadChunk
  PROVE  IInv'
<1>1. PICK n \in 1 .. Len(wire) :
        /\ torn' = TornAfter(n)
        /\ buffer' = buffer \o Decode(SubSeq(wire, 1, n))
        /\ wire' = SubSeq(wire, n + 1, Len(wire))
  BY DEF ReadChunk
<1>2. /\ pc = "reading" /\ UNCHANGED <<host, script, sent, ends, pc, failed, events, told, taken>>
      /\ TypeOK /\ LinesInOrder
  BY DEF ReadChunk, yielded, IInv
<1>3. /\ wire \in Seq(Bytes) /\ buffer \in Seq(Chars) /\ taken \in Nat /\ torn \subseteq Nat
      /\ Len(wire) \in Nat /\ Len(buffer) \in Nat /\ Len(sent) \in Nat /\ taken <= Len(sent)
      /\ n \in Nat \ {0} /\ n <= Len(wire)
  BY <1>2 DEF TypeOK, IInv, Progress
<1>4. StartOf(taken + 1) \in Nat /\ StartOf(taken + 1)' = StartOf(taken + 1) /\ Received \in Nat
  <2>1. StartOf(taken + 1) \in Nat
    BY <1>2, <1>3, Starts
  <2>2. StartOf(taken + 1)' = StartOf(taken + 1)
    BY <1>2 DEF StartOf
  <2>. QED
    BY <2>1, <2>2, <1>3 DEF Received
<1>5. /\ wire' \in Seq(Bytes) /\ Len(wire') = Len(wire) - n
      /\ \A i \in 1 .. Len(wire') : wire'[i] = wire[n + i]
  BY <1>1, <1>3
<1> DEFINE part == Decode(SubSeq(wire, 1, n))
<1>6. /\ part \in Seq(Chars) /\ Len(part) = n
      /\ \A i \in 1 .. n :
           part[i] = IF (wire[i] = "lead" /\ i = n) \/ (wire[i] = "tail" /\ i = 1) THEN "mark"
                     ELSE wire[i]
  <2>1. /\ SubSeq(wire, 1, n) \in Seq(Bytes) /\ Len(SubSeq(wire, 1, n)) = n
        /\ \A i \in 1 .. n : SubSeq(wire, 1, n)[i] = wire[i] /\ wire[i] \in Bytes
    BY <1>3
  <2>2. part = [i \in 1 .. n |->
                  IF (wire[i] = "lead" /\ i = n) \/ (wire[i] = "tail" /\ i = 1) THEN "mark"
                  ELSE wire[i]]
    BY <2>1 DEF Decode
  <2>3. \A i \in 1 .. n : wire[i] \in Chars /\ "mark" \in Chars
    BY <2>1 DEF Chars
  <2> HIDE DEF part
  <2>. QED
    BY <2>2, <2>3, <1>3
<1>7. /\ buffer' \in Seq(Chars) /\ Len(buffer') = Len(buffer) + n
      /\ \A i \in 1 .. Len(buffer) : buffer'[i] = buffer[i]
      /\ \A i \in 1 .. n : buffer'[Len(buffer) + i] = part[i]
  <2> HIDE DEF part
  <2>1. buffer' = buffer \o part
    BY <1>1 DEF part
  <2>2. buffer \in Seq(Chars) /\ part \in Seq(Chars) /\ Len(part) = n
    BY <1>3, <1>6
  <2>3. /\ buffer' \in Seq(Chars) /\ Len(buffer') = Len(buffer) + Len(part)
        /\ \A i \in 1 .. Len(buffer) : buffer'[i] = buffer[i]
        /\ \A i \in 1 .. Len(part) : buffer'[Len(buffer) + i] = part[i]
    BY <2>1, <2>2
  <2>. QED
    BY <2>2, <2>3
<1> HIDE DEF part
<1>8. Received' = Received + n
  BY <1>3, <1>4, <1>7 DEF Received
<1>9. torn' = IF wire[n] = "lead" THEN torn \cup {Received + n} ELSE torn
  BY <1>1 DEF TornAfter
<1>10. /\ Received + Len(wire) = StartOf(Len(sent) + 1)
       /\ \A p \in torn : p <= Received
  BY <1>2 DEF IInv, Pending
<1>11. /\ \A k : StartOf(k)' = StartOf(k)
       /\ \A k, j : ByteOf(k, j)' = ByteOf(k, j)
       /\ LinesInOrder'
  <2>1. \A k : StartOf(k)' = StartOf(k)
    BY <1>2 DEF StartOf
  <2>. QED
    BY <1>2, <2>1 DEF ByteOf, LinesInOrder
\* What has come in before is torn no further.
<1>12. ASSUME NEW k \in 1 .. Len(sent), NEW j \in Nat, StartOf(k) + j <= Received
       PROVE  CharOf(k, j)' = CharOf(k, j)
  <2>1. StartOf(k) \in Nat
    BY <1>2, Starts
  <2>2. StartOf(k) + j # Received + n /\ StartOf(k) + j - 1 # Received + n
    BY <2>1, <1>3, <1>4, <1>12
  <2>3. /\ StartOf(k) + j \in torn' <=> StartOf(k) + j \in torn
        /\ StartOf(k) + j - 1 \in torn' <=> StartOf(k) + j - 1 \in torn
    BY <2>2, <1>9
  <2>. QED
    BY <2>3, <1>11 DEF CharOf, Lost
<1>13. ASSUME NEW k \in 1 .. taken, NEW j \in 1 .. Len(Encode(sent[k]))
       PROVE  CharOf(k, j)' = CharOf(k, j)
  <2>1. /\ StartOf(k) \in Nat /\ Len(Encode(sent[k])) \in Nat
        /\ StartOf(k + 1) = StartOf(k) + Len(Encode(sent[k]))
    BY <1>2, <1>3, Starts
  <2>2. StartOf(k + 1) <= StartOf(taken + 1)
    <3>1. k + 1 \in 1 .. Len(sent) + 1 /\ taken + 1 \in 1 .. Len(sent) + 1 /\ k + 1 <= taken + 1
      BY <1>3
    <3>. QED
      BY <3>1, <1>2 DEF LinesInOrder
  <2>3. StartOf(k) + j <= Received /\ j \in Nat /\ k \in 1 .. Len(sent)
    BY <2>1, <2>2, <1>3, <1>4 DEF Received
  <2>. QED
    BY <2>3, <1>12
<1>14. TypeOK'
  <2>1. torn' \subseteq Nat
    BY <1>3, <1>4, <1>9
  <2>. QED
    BY <2>1, <1>2, <1>5, <1>7 DEF TypeOK
<1>15. Pending'
  <2>1. Received' + Len(wire') = StartOf(Len(sent) + 1)'
    BY <1>2, <1>3, <1>4, <1>5, <1>8, <1>10, <1>11
  <2>2. \A p \in torn' : p <= Received'
    BY <1>3, <1>4, <1>8, <1>9, <1>10
  <2>3. ASSUME NEW k \in taken + 1 .. Len(sent), NEW j \in 1 .. Len(Encode(sent[k])),
               NEW p, p = StartOf(k) + j
        PROVE  IF p <= Received' THEN buffer'[p - StartOf(taken + 1)] = CharOf(k, j)'
               ELSE wire'[p - Received'] = ByteOf(k, j)
    <3>1. IF p <= Received THEN buffer[p - StartOf(taken + 1)] = CharOf(k, j)
          ELSE wire[p - Received] = ByteOf(k, j)
      BY <1>2, <2>3 DEF IInv, Pending
    <3>2. /\ k \in 1 .. Len(sent) /\ j \in Nat \ {0} /\ StartOf(k) \in Nat /\ p \in Nat
          /\ StartOf(taken + 1) < p /\ p <= Received + Len(wire)
      <4>1. /\ k \in 1 .. Len(sent) /\ StartOf(k) \in Nat /\ Len(Encode(sent[k])) \in Nat
            /\ StartOf(k + 1) = StartOf(k) + Len(Encode(sent[k]))
        BY <1>2, <1>3, Starts
      <4>2. StartOf(k + 1) <= StartOf(Len(sent) + 1) /\ StartOf(taken + 1) <= StartOf(k)
        <5>1. /\ k \in 1 .. Len(sent) + 1 /\ k + 1 \in 1 .. Len(sent) + 1
              /\ Len(sent) + 1 \in 1 .. Len(sent) + 1 /\ taken + 1 \in 1 .. Len(sent) + 1
              /\ k + 1 <= Len(sent) + 1 /\ taken + 1 <= k
          BY <1>3
        <5>. QED
          BY <5>1, <1>2 DEF LinesInOrder
      <4>3. StartOf(Len(sent) + 1) \in Nat
        BY <1>2, <1>3, Starts
      <4>. QED
        BY <2>3, <4>1, <4>2, <4>3, <1>4, <1>10
    <3>3. CASE p <= Received
      <4>1. p - StartOf(taken + 1) \in 1 .. Len(buffer)
        BY <3>2, <3>3, <1>3, <1>4 DEF Received
      <4>2. buffer'[p - StartOf(taken + 1)] = CharOf(k, j)'
        BY <2>3, <3>1, <3>2, <3>3, <4>1, <1>7, <1>12
      <4>. QED
        BY <3>2, <3>3, <4>2, <1>3, <1>4, <1>8
    <3>4. CASE p > Received /\ p <= Received + n
      <4>1. PICK i \in 1 .. n : p = Received + i
        <5>1. p - Received \in 1 .. n /\ p = Received + (p - Received)
          BY <3>2, <3>4, <1>3, <1>4
        <5>. QED
          BY <5>1
      <4>2. wire[i] = ByteOf(k, j)
        <5>1. p - Received = i /\ ~(p <= Received)
          BY <4>1, <1>3, <1>4
        <5>. QED
          BY <3>1, <5>1
      <4>3. buffer'[p - StartOf(taken + 1)] = part[i]
        <5>1. p - StartOf(taken + 1) = Len(buffer) + i
          BY <4>1, <1>3, <1>4 DEF Received
        <5>. QED
          BY <5>1, <1>7
      <4>4. ByteOf(k, j) = "lead" => (p \in torn' <=> i = n)
        <5>1. p \notin torn
          BY <3>2, <3>4, <1>4, <1>10
        <5>2. p = Received + n <=> i = n
          BY <4>1, <1>3, <1>4
        <5>. QED
          BY <4>2, <5>1, <5>2, <1>9
      <4>5. ByteOf(k, j) = "tail" => (p - 1 \in torn' <=> i = 1)
        <5>1. p - 1 # Received + n
          BY <4>1, <1>3, <1>4
        <5>2. p - 1 \in torn => i = 1
          BY <3>2, <4>1, <1>3, <1>4, <1>10
        <5>3. i = 1 => p - 1 = Received
          BY <4>1, <1>4
        <5>4. ByteOf(k, j) = "tail" /\ i = 1 => Received \in torn
          BY <4>2, <1>2, <1>3 DEF IInv, WireWhole
        <5>. QED
          BY <5>1, <5>2, <5>3, <5>4, <1>9
      <4>6. CharOf(k, j)' = IF \/ ByteOf(k, j) = "lead" /\ p \in torn'
                               \/ ByteOf(k, j) = "tail" /\ p - 1 \in torn'
                            THEN "mark" ELSE ByteOf(k, j)
        <5>1. StartOf(k)' = StartOf(k) /\ ByteOf(k, j)' = ByteOf(k, j)
          BY <1>11
        <5>2. Lost(k, j)' <=> \/ ByteOf(k, j)' = "lead" /\ StartOf(k)' + j \in torn'
                              \/ ByteOf(k, j)' = "tail" /\ StartOf(k)' + j - 1 \in torn'
          BY DEF Lost
        <5>3. Lost(k, j)' <=> \/ ByteOf(k, j) = "lead" /\ p \in torn'
                              \/ ByteOf(k, j) = "tail" /\ p - 1 \in torn'
          BY <2>3, <3>2, <5>1, <5>2
        <5>. QED
          BY <5>1, <5>3 DEF CharOf
      <4>7. part[i] = CharOf(k, j)'
        BY <4>2, <4>4, <4>5, <4>6, <1>6
      <4>. QED
        BY <3>4, <4>3, <4>7, <1>8
    <3>5. CASE p > Received + n
      <4>1. p - Received' \in 1 .. Len(wire') /\ n + (p - Received') = p - Received
        BY <3>2, <3>5, <1>3, <1>4, <1>5, <1>8
      <4>2. ~(p <= Received) /\ ~(p <= Received')
        BY <3>2, <3>5, <1>3, <1>4, <1>8
      <4>. QED
        BY <3>1, <4>1, <4>2, <1>5
    <3>. QED
      BY <3>2, <3>3, <3>4, <3>5, <1>3, <1>4
  <2>. QED
    BY <2>1, <2>2, <2>3, <1>2, <1>4, <1>11 DEF Pending
<1>16. WireWhole'
  <2>. SUFFICES ASSUME NEW i \in 1 .. Len(wire')
                PROVE  /\ wire'[i] = "lead" => i < Len(wire') /\ wire'[i + 1] = "tail"
                       /\ wire'[i] = "tail" => IF i = 1 THEN Received' \in torn' ELSE wire'[i - 1] = "lead"
    BY DEF WireWhole
  <2>1. wire'[i] = wire[n + i] /\ n + i \in 1 .. Len(wire) /\ n + i # 1
    BY <1>3, <1>5
  <2>2. /\ wire[n + i] = "lead" => n + i < Len(wire) /\ wire[(n + i) + 1] = "tail"
        /\ wire[n + i] = "tail" => wire[(n + i) - 1] = "lead"
    BY <2>1, <1>2 DEF IInv, WireWhole
  <2>3. ASSUME wire'[i] = "lead"
        PROVE  i < Len(wire') /\ wire'[i + 1] = "tail"
    <3>1. i + 1 \in 1 .. Len(wire') /\ n + (i + 1) = (n + i) + 1 /\ i < Len(wire')
      BY <2>1, <2>2, <2>3, <1>3, <1>5
    <3>. QED
      BY <2>1, <2>2, <2>3, <3>1, <1>5
  <2>4. ASSUME wire'[i] = "tail", i = 1
        PROVE  Received' \in torn'
    <3>1. (n + i) - 1 = n
      BY <2>4, <1>3
    <3>. QED
      BY <2>1, <2>2, <2>4, <3>1, <1>8, <1>9
  <2>5. ASSUME wire'[i] = "tail", i # 1
        PROVE  wire'[i - 1] = "lead"
    <3>1. i - 1 \in 1 .. Len(wire') /\ n + (i - 1) = (n + i) - 1
      BY <2>5, <1>3, <1>5
    <3>. QED
      BY <2>1, <2>2, <2>5, <3>1, <1>5
  <2>. QED
    BY <2>3, <2>4, <2>5
<1>17. Progress'
  BY <1>2 DEF IInv, Progress
<1>18. DamageNeedsSplit'
  <2>. SUFFICES ASSUME NEW e \in 1 .. Len(events)
                PROVE  IF told[e] = 0 THEN events[e] = StreamError
                       ELSE told[e] \in 1 .. Len(sent) /\ events[e] = EventOf(told[e])'
    BY <1>2 DEF DamageNeedsSplit
  <2>1. IF told[e] = 0 THEN events[e] = StreamError
        ELSE told[e] \in 1 .. Len(sent) /\ events[e] = EventOf(told[e])
    BY DEF IInv, DamageNeedsSplit
  <2>2. ASSUME told[e] # 0
        PROVE  EventOf(told[e])' = EventOf(told[e])
    <3>1. PICK k \in 1 .. Len(sent) : k = told[e]
      BY <2>1, <2>2
    <3>2. k \in 1 .. taken
      BY <3>1, <1>3 DEF IInv, Progress
    <3>3. Len(sent[k].text) \in Nat /\ Len(Encode(sent[k])) = Len(sent[k].text) + 3
      BY <3>1, <1>2, Starts, EncodeFacts
    <3>4. ASSUME NEW i \in 1 .. Len(sent[k].text)
          PROVE  CharOf(k, i + 1)' = CharOf(k, i + 1)
      <4>1. i + 1 \in 1 .. Len(Encode(sent[k]))
        BY <3>3
      <4>. QED
        BY <3>2, <4>1, <1>13
    <3>5. EventOf(k)' = EventOf(k)
      BY <3>4, <1>2 DEF EventOf
    <3>. QED
      BY <3>1, <3>5, <1>2
  <2>. QED
    BY <2>1, <2>2
<1>. QED
  BY <1>11, <1>14, <1>15, <1>16, <1>17, <1>18 DEF IInv

\* What the host tells of a line it takes.
LEMMA LineTold ==
  ASSUME TypeOK, LinesInOrder, Progress, DamageNeedsSplit, taken < Len(sent),
         UNCHANGED <<sent, ends, torn>>, taken' = taken + 1,
         \/ sent[taken + 1].kind \in Readable /\ Yield(EventOf(taken + 1), taken + 1)
         \/ UNCHANGED <<events, told>>
  PROVE  /\ events' \in Seq([kind : Readable, text : Seq(Chars)] \cup {StreamError})
         /\ told' \in Seq(Nat) /\ Len(told') = Len(events')
         /\ \A e \in 1 .. Len(events') : told'[e] <= taken'
         /\ DamageNeedsSplit'
<1> DEFINE Told == [kind : Readable, text : Seq(Chars)] \cup {StreamError}
           k == taken + 1
<1>1. /\ events \in Seq(Told) /\ told \in Seq(Nat) /\ Len(told) = Len(events)
      /\ taken \in Nat /\ k \in 1 .. Len(sent) /\ k # 0 /\ sent[k] \in Line
  BY DEF TypeOK
<1>2. \A e \in 1 .. Len(events) :
        /\ told[e] \in Nat /\ told[e] <= taken
        /\ IF told[e] = 0 THEN events[e] = StreamError
           ELSE told[e] \in 1 .. Len(sent) /\ events[e] = EventOf(told[e])
  BY <1>1 DEF Progress, DamageNeedsSplit
<1>3. \A i : EventOf(i)' = EventOf(i)
  BY Untouched
<1>4. CASE UNCHANGED <<events, told>>
  <2>1. \A e \in 1 .. Len(events) : told[e] <= taken'
    BY <1>1, <1>2
  <2>2. DamageNeedsSplit'
    BY <1>2, <1>3, <1>4 DEF DamageNeedsSplit
  <2>. QED
    BY <1>1, <1>4, <2>1, <2>2
<1>5. CASE sent[k].kind \in Readable /\ Yield(EventOf(k), k)
  <2>1. EventOf(k) \in Told
    <3>1. Len(sent[k].text) \in Nat /\ Len(Encode(sent[k])) = Len(sent[k].text) + 3
      BY <1>1, EncodeFacts
    <3>2. \A i \in 1 .. Len(sent[k].text) : CharOf(k, i + 1) \in Chars
      <4>. SUFFICES ASSUME NEW i \in 1 .. Len(sent[k].text) PROVE CharOf(k, i + 1) \in Chars
        OBVIOUS
      <4>1. i + 1 \in 1 .. Len(Encode(sent[k]))
        BY <3>1
      <4>. QED
        BY <1>1, <4>1, CharPlaces
    <3>3. [i \in 1 .. Len(sent[k].text) |-> CharOf(k, i + 1)] \in Seq(Chars)
      BY <3>1, <3>2
    <3> HIDE DEF k
    <3>. QED
      BY <1>5, <3>3 DEF EventOf
  <2> HIDE DEF Told, k
  <2>2. events' = Append(events, EventOf(k)) /\ told' = Append(told, k) /\ k \in Nat
    BY <1>1, <1>5 DEF Yield, k
  <2>3. events' \in Seq(Told) /\ told' \in Seq(Nat) /\ Len(told') = Len(events')
    BY <1>1, <2>1, <2>2
  <2>4. ASSUME NEW e \in 1 .. Len(events')
        PROVE  \/ e \in 1 .. Len(events) /\ events'[e] = events[e] /\ told'[e] = told[e]
               \/ events'[e] = EventOf(k) /\ told'[e] = k
    BY <1>1, <2>1, <2>2
  <2>5. ASSUME NEW e \in 1 .. Len(events')
        PROVE  /\ told'[e] <= taken'
               /\ IF told'[e] = 0 THEN events'[e] = StreamError
                  ELSE told'[e] \in 1 .. Len(sent) /\ events'[e] = EventOf(told[e])'
    <3>1. CASE e \in 1 .. Len(events) /\ events'[e] = events[e] /\ told'[e] = told[e]
      <4>1. told'[e] <= taken'
        BY <1>1, <1>2, <3>1
      <4>2. EventOf(told[e])' = EventOf(told[e])
        BY <1>3, <3>1 DEF EventOf
      <4>. QED
        BY <1>2, <3>1, <4>1, <4>2
    <3>2. CASE events'[e] = EventOf(k) /\ told'[e] = k
      <4>1. told'[e] <= taken'
        BY <1>1, <3>2 DEF k
      <4>2. PICK i : i = told'[e]
        OBVIOUS
      <4>3. EventOf(told[e])' = EventOf(i)'
        BY <4>2 DEF EventOf
      <4>. QED
        BY <1>1, <1>3, <3>2, <4>1, <4>2, <4>3
    <3>. QED
      BY <2>4, <3>1, <3>2
  <2>6. DamageNeedsSplit'
    BY <2>5 DEF DamageNeedsSplit
  <2>. QED
    BY <2>3, <2>5, <2>6 DEF Told
<1>. QED
  BY <1>4, <1>5

\* The characters up to the first newline are the next line, and what follows them
\* moves up.
LEMMA TakeLineStep ==
  ASSUME IInv, TakeLine
  PROVE  /\ IInv'
         /\ taken < Len(sent)
         /\ IF sent[taken + 1].kind \in Readable
            THEN Yield(EventOf(taken + 1), taken + 1)
            ELSE UNCHANGED <<events, told>>
<1> DEFINE k == taken + 1
           n == Len(Encode(sent[k]))
           line == SubSeq(buffer, 1, FirstNewline - 1)
<1>1. /\ pc = "reading" /\ HasLine
      /\ IF Parses(line) THEN Yield(Event(line), k) ELSE UNCHANGED <<events, told>>
      /\ taken' = k /\ buffer' = SubSeq(buffer, FirstNewline + 1, Len(buffer))
      /\ UNCHANGED <<host, script, sent, ends, wire, pc, failed, torn>>
  BY DEF TakeLine, written
<1>2. /\ taken < Len(sent) /\ n <= Len(buffer) /\ FirstNewline = n
      /\ TypeOK /\ LinesInOrder /\ Progress /\ DamageNeedsSplit
  BY <1>1, NewlineFound DEF IInv
<1>3. /\ k \in 1 .. Len(sent) /\ sent[k] \in Line /\ n \in Nat \ {0}
      /\ StartOf(k) \in Nat /\ StartOf(k + 1) = StartOf(k) + n
      /\ \A j \in 1 .. n : j <= Len(buffer) => buffer[j] = CharOf(k, j)
      /\ buffer \in Seq(Chars) /\ taken \in Nat /\ Len(sent) \in Nat /\ Len(buffer) \in Nat
      /\ Len(wire) \in Nat
  BY <1>1, <1>2, NextLine, Starts DEF TypeOK
<1> HIDE DEF n
<1>4. /\ line \in Seq(Chars) /\ Len(line) = n - 1
      /\ \A j \in 1 .. Len(line) : line[j] = CharOf(k, j)
  <2>1. line = SubSeq(buffer, 1, n - 1)
    BY <1>2
  <2> HIDE DEF line
  <2>2. /\ line \in Seq(Chars) /\ Len(line) = n - 1
        /\ \A j \in 1 .. n - 1 : line[j] = buffer[j]
    BY <2>1, <1>2, <1>3
  <2>. QED
    BY <2>2, <1>2, <1>3
<1>5. /\ Parses(line) <=> sent[k].kind \in Readable
      /\ Event(line) = EventOf(k)
  <2> HIDE DEF line, k
  <2>. QED
    BY <1>3, <1>4, ParsesLine DEF n
<1>6. IF sent[k].kind \in Readable THEN Yield(EventOf(k), k) ELSE UNCHANGED <<events, told>>
  <2> HIDE DEF line, k
  <2>. QED
    BY <1>1, <1>5
<1>7. /\ events' \in Seq([kind : Readable, text : Seq(Chars)] \cup {StreamError})
      /\ told' \in Seq(Nat) /\ Len(told') = Len(events')
      /\ \A e \in 1 .. Len(events') : told'[e] <= taken'
      /\ DamageNeedsSplit'
  BY <1>1, <1>2, <1>6, LineTold
<1>8. /\ buffer' \in Seq(Chars) /\ Len(buffer') = Len(buffer) - n
      /\ \A i \in 1 .. Len(buffer') : buffer'[i] = buffer[n + i]
  <2>1. buffer' = SubSeq(buffer, n + 1, Len(buffer))
    BY <1>1, <1>2
  <2>. QED
    BY <2>1, <1>2, <1>3
<1>9. /\ \A i : StartOf(i)' = StartOf(i)
      /\ \A i, j : ByteOf(i, j)' = ByteOf(i, j) /\ CharOf(i, j)' = CharOf(i, j)
      /\ LinesInOrder'
  BY <1>1, <1>2, Untouched
<1>10. StartOf(taken + 1)' = StartOf(k + 1) /\ k + 1 = taken' + 1
  BY <1>1, <1>9 DEF StartOf
<1>11. Received' = Received /\ Received \in Nat /\ Received = StartOf(k) + Len(buffer)
  BY <1>2, <1>3, <1>8, <1>10 DEF Received
<1>12. TypeOK'
  BY <1>1, <1>2, <1>3, <1>7, <1>8 DEF TypeOK
<1>13. Pending'
  <2>1. /\ Received + Len(wire) = StartOf(Len(sent) + 1)
        /\ \A p \in torn : p <= Received
    BY <1>1 DEF IInv, Pending
  <2>2. Received' + Len(wire') = StartOf(Len(sent) + 1)'
    BY <2>1, <1>1, <1>9, <1>11
  <2>3. ASSUME NEW i \in k + 1 .. Len(sent), NEW j \in 1 .. Len(Encode(sent[i])),
               NEW p, p = StartOf(i) + j
        PROVE  IF p <= Received THEN buffer'[p - StartOf(k + 1)] = CharOf(i, j)
               ELSE wire[p - Received] = ByteOf(i, j)
    <3>1. IF p <= Received THEN buffer[p - StartOf(k)] = CharOf(i, j)
          ELSE wire[p - Received] = ByteOf(i, j)
      <4>1. i \in taken + 1 .. Len(sent)
        BY <1>3
      <4>. QED
        BY <1>1, <2>3, <4>1 DEF IInv, Pending
    <3>2. p \in Nat /\ p > StartOf(k + 1)
      <4>1. i \in 1 .. Len(sent) + 1 /\ k + 1 \in 1 .. Len(sent) + 1 /\ k + 1 <= i
        BY <1>3
      <4>2. StartOf(i) \in Nat /\ StartOf(k + 1) <= StartOf(i)
        BY <4>1, <1>2, Starts DEF LinesInOrder
      <4>. QED
        BY <2>3, <4>2, <1>3
    <3>3. ASSUME p <= Received
          PROVE  buffer'[p - StartOf(k + 1)] = CharOf(i, j)
      <4>1. /\ p - StartOf(k + 1) \in 1 .. Len(buffer')
            /\ n + (p - StartOf(k + 1)) = p - StartOf(k)
        <5>1. /\ Len(buffer') = Len(buffer) - n /\ Len(buffer) \in Nat /\ n \in Nat
              /\ StartOf(k) \in Nat /\ StartOf(k + 1) = StartOf(k) + n
              /\ p <= StartOf(k) + Len(buffer)
          BY <3>3, <1>3, <1>8, <1>11
        <5> HIDE DEF k
        <5>. QED
          BY <3>2, <5>1
      <4>. QED
        BY <3>1, <3>3, <4>1, <1>8
    <3>. QED
      BY <3>1, <3>3
  <2>. QED
    <3>1. ASSUME NEW i \in (taken + 1)' .. Len(sent'), NEW j \in 1 .. Len(Encode(sent'[i])),
                 NEW p, p = StartOf(i)' + j
          PROVE  IF p <= Received' THEN buffer'[p - StartOf(taken + 1)'] = CharOf(i, j)'
                 ELSE wire'[p - Received'] = ByteOf(i, j)'
      <4>1. i \in k + 1 .. Len(sent) /\ j \in 1 .. Len(Encode(sent[i])) /\ p = StartOf(i) + j
        BY <3>1, <1>1, <1>9
      <4>. QED
        BY <2>3, <4>1, <1>1, <1>9, <1>10, <1>11
    <3>2. \A p \in torn' : p <= Received'
      BY <2>1, <1>1, <1>11
    <3>. QED
      BY <2>2, <3>1, <3>2 DEF Pending
<1>14. WireWhole'
  BY <1>1, <1>11 DEF IInv, WireWhole
<1>15. Progress'
  BY <1>1, <1>2, <1>3, <1>7 DEF Progress
<1>. QED
  BY <1>2, <1>6, <1>7, <1>9, <1>12, <1>13, <1>14, <1>15 DEF IInv

\* What is left at the end is a line but for its newline, or nothing to tell.
LEMMA LeftoverStep ==
  ASSUME IInv, Leftover
  PROVE  /\ IInv'
         /\ IF Parses(buffer)
            THEN /\ taken < Len(sent) /\ sent[taken + 1].kind \in Readable
                 /\ Yield(EventOf(taken + 1), taken + 1) /\ taken' = taken + 1
            ELSE UNCHANGED yielded
<1>1. /\ pc = "leftover" /\ pc' = "ending"
      /\ IF Parses(buffer) THEN Yield(Event(buffer), taken + 1) /\ taken' = taken + 1
         ELSE UNCHANGED <<events, told, taken>>
      /\ UNCHANGED <<host, script, sent, ends, wire, failed, buffer, torn>>
  BY DEF Leftover, written, yielded
<1>2. TypeOK /\ LinesInOrder /\ Progress /\ DamageNeedsSplit /\ ~HasLine
  BY <1>1 DEF IInv, Progress
<1>3. Pending' /\ WireWhole'
  BY <1>1 DEF Pending, WireWhole
<1>4. LinesInOrder' /\ \A k : EventOf(k)' = EventOf(k)
  BY <1>1, <1>2, Untouched
<1>5. CASE Parses(buffer)
  <2>1. taken < Len(sent) /\ Len(buffer) = Len(Encode(sent[taken + 1])) - 1
    BY <1>1, <1>2, <1>5, ParsesRest
  <2>2. /\ taken + 1 \in 1 .. Len(sent) /\ sent[taken + 1] \in Line /\ buffer \in Seq(Chars)
        /\ \A j \in 1 .. Len(buffer) : buffer[j] = CharOf(taken + 1, j)
    <3>1. /\ taken + 1 \in 1 .. Len(sent) /\ sent[taken + 1] \in Line
          /\ Len(Encode(sent[taken + 1])) \in Nat
      BY <1>2, <2>1, Starts DEF TypeOK
    <3>2. \A j \in 1 .. Len(Encode(sent[taken + 1])) :
            j <= Len(buffer) => buffer[j] = CharOf(taken + 1, j)
      BY <1>1, <2>1, NextLine
    <3>. QED
      BY <2>1, <3>1, <3>2, <1>2 DEF TypeOK
  <2>3. sent[taken + 1].kind \in Readable /\ Event(buffer) = EventOf(taken + 1)
    BY <1>5, <2>1, <2>2, ParsesLine
  <2>4. Yield(EventOf(taken + 1), taken + 1) /\ taken' = taken + 1
    BY <1>1, <1>5, <2>3
  <2>5. /\ events' \in Seq([kind : Readable, text : Seq(Chars)] \cup {StreamError})
        /\ told' \in Seq(Nat) /\ Len(told') = Len(events')
        /\ \A e \in 1 .. Len(events') : told'[e] <= taken'
        /\ DamageNeedsSplit'
    BY <1>1, <1>2, <2>1, <2>3, <2>4, LineTold
  <2>6. TypeOK'
    BY <1>1, <1>2, <2>4, <2>5 DEF TypeOK
  <2>7. Progress'
    BY <1>1, <1>2, <2>1, <2>4, <2>5 DEF TypeOK, Progress
  <2>. QED
    BY <1>3, <1>4, <1>5, <2>1, <2>3, <2>4, <2>5, <2>6, <2>7 DEF IInv
<1>6. CASE ~Parses(buffer)
  <2>1. TypeOK'
    BY <1>1, <1>2, <1>6 DEF TypeOK
  <2>2. Progress' /\ DamageNeedsSplit'
    BY <1>1, <1>2, <1>4, <1>6 DEF Progress, DamageNeedsSplit
  <2>. QED
    BY <1>1, <1>3, <1>4, <1>6, <2>1, <2>2 DEF IInv, yielded
<1>. QED
  BY <1>5, <1>6

LEMMA WritesStep ==
  ASSUME IInv, WriteConsole \/ WriteOutcome
  PROVE  /\ IInv'
         /\ \/ /\ \E l \in Line : sent' = Append(sent, l)
               /\ script # "closed" /\ UNCHANGED <<pc, failed, events, taken>>
            \/ UNCHANGED <<sent, pc, failed, events, taken>>
         /\ (script = "closed") <=> (script' = "closed")
<1>1. ASSUME NEW kind \in Kinds, Write(kind)
      PROVE  \E l \in Line : sent' = Append(sent, l)
  BY <1>1 DEF Write, Line
<1>2. CASE WriteConsole
  <2>1. /\ Write("console") /\ "console" \in Kinds /\ script # "closed" /\ pc # "done"
        /\ script \in {"running", "finished"} /\ UNCHANGED script
        /\ UNCHANGED <<host, pc, failed, buffer, yielded, torn>>
    BY <1>2 DEF WriteConsole, Kinds, IInv, TypeOK
  <2>. QED
    BY <1>1, <2>1, WriteStep DEF yielded
<1>3. CASE WriteOutcome
  <2>1. /\ script = "running" /\ pc # "done" /\ script' = "finished"
        /\ UNCHANGED <<host, pc, failed, buffer, yielded, torn>>
    BY <1>3 DEF WriteOutcome
  <2>2. ASSUME NEW kind \in {"returned", "error"} \cup Unreadable(host), Write(kind)
        PROVE  IInv' /\ \E l \in Line : sent' = Append(sent, l)
    <3>1. kind \in Kinds
      BY DEF Kinds, Unreadable
    <3>. QED
      BY <2>1, <2>2, <3>1, <1>1, WriteStep
  <2>3. ASSUME UNCHANGED written
        PROVE  IInv' /\ sent' = sent
    BY <2>1, <2>3, LoopStep DEF IInv, TypeOK, written, yielded
  <2>. QED
    BY <2>1, <2>2, <2>3, <1>3 DEF WriteOutcome, yielded
<1>. QED
  BY <1>2, <1>3

LEMMA InitialState == Init => IInv
<1>. SUFFICES ASSUME Init PROVE IInv
  OBVIOUS
<1> USE DEF Init
<1>1. TypeOK
  <2>1. /\ Len(ends) = Len(sent) /\ Len(told) = Len(events)
        /\ sent \in Seq(Line) /\ ends \in Seq(Nat) /\ wire \in Seq(Bytes) /\ buffer \in Seq(Chars)
        /\ told \in Seq(Nat)
        /\ events \in Seq([kind : Readable, text : Seq(Chars)] \cup {StreamError})
    OBVIOUS
  <2>. QED
    BY <2>1 DEF TypeOK
<1>2. LinesInOrder
  <2>1. StartOf(1) = 0
    BY DEF StartOf
  <2>. QED
    BY <2>1 DEF LinesInOrder
<1>3. Pending
  <2>1. StartOf(1) = 0
    BY DEF StartOf
  <2>2. Received = 0 /\ Received + Len(wire) = StartOf(Len(sent) + 1)
    BY <2>1 DEF Received
  <2>3. taken + 1 .. Len(sent) = {} /\ torn = {}
    OBVIOUS
  <2>. QED
    BY <2>2, <2>3 DEF Pending
<1>4. WireWhole /\ Progress /\ DamageNeedsSplit
  BY DEF WireWhole, Progress, DamageNeedsSplit
<1>. QED
  BY <1>1, <1>2, <1>3, <1>4 DEF IInv

\* The lines, the pieces of them on their way and what was told of them stay in step
\* whatever the network and the caller do.
THEOREM EventLinesInvariance == Spec => []IInv
<1>1. ASSUME IInv, [Next]_vars
      PROVE  IInv'
  <2>1. CASE WriteConsole \/ WriteOutcome
    BY <1>1, <2>1, WritesStep
  <2>2. CASE CloseWriter
    BY <1>1, <2>2, LoopStep DEF CloseWriter, IInv, TypeOK, yielded, Progress
  <2>3. CASE ReadChunk
    BY <1>1, <2>3, ReadChunkStep
  <2>4. CASE TakeLine
    BY <1>1, <2>4, TakeLineStep
  <2>5. CASE ReadEnd
    BY <1>1, <2>5, LoopStep DEF ReadEnd, IInv, TypeOK, yielded, written
  <2>6. CASE Leftover
    BY <1>1, <2>6, LeftoverStep
  <2>7. CASE Return
    BY <1>1, <2>7, LoopStep DEF Return, IInv, TypeOK, yielded, written
  <2>8. CASE ReadError
    BY <1>1, <2>8, LoopStep DEF ReadError, IInv, TypeOK, yielded, written
  <2>9. CASE Drop
    BY <1>1, <2>9, LoopStep DEF Drop, IInv, TypeOK, yielded, written
  <2>10. CASE UNCHANGED vars
    BY <1>1, <2>10, LoopStep DEF vars, IInv, TypeOK, Progress, yielded, written
  <2>. QED
    BY <1>1, <2>1, <2>2, <2>3, <2>4, <2>5, <2>6, <2>7, <2>8, <2>9, <2>10 DEF Next, Read
<1>. QED
  BY <1>1, InitialState, PTL DEF Spec

\* The state of a host's loop and its histories keep their types.
THEOREM EventLinesTypeCorrect == Spec => []TypeOK
<1>1. IInv => TypeOK
  BY DEF IInv
<1>. QED
  BY <1>1, EventLinesInvariance, PTL

\* Every event the hosts yield tells one line exactly, but for the characters inside
\* of which a chunk ended, or is the host's own word on a broken stream.
THEOREM OnlySplitsDamage == Spec => []DamageNeedsSplit
<1>1. IInv => DamageNeedsSplit
  BY DEF IInv
<1>. QED
  BY <1>1, EventLinesInvariance, PTL

-----------------------------------------------------------------------------
(* The loops implement an EventChannel *)

\* The messages that are not taken yet: a line is added at the end and taken at the head.
LEMMA QueueFacts ==
  ASSUME NEW S, NEW s \in Seq(S), NEW k \in 1 .. Len(s) + 1
  PROVE  /\ k = Len(s) + 1 <=> SubSeq(s, k, Len(s)) = <<>>
         /\ k <= Len(s) => /\ Head(SubSeq(s, k, Len(s))) = s[k]
                          /\ Tail(SubSeq(s, k, Len(s))) = SubSeq(s, k + 1, Len(s))
         /\ \A x \in S : SubSeq(Append(s, x), k, Len(s) + 1) = Append(SubSeq(s, k, Len(s)), x)
<1> DEFINE rest == SubSeq(s, k, Len(s))
           m == Len(s) + 1 - k
<1>1. /\ Len(s) \in Nat /\ m \in Nat /\ k \in Nat \ {0} /\ rest \in Seq(S) /\ Len(rest) = m
      /\ \A i \in 1 .. m : rest[i] = s[(k - 1) + i]
  OBVIOUS
<1> HIDE DEF rest
<1>2. k = Len(s) + 1 <=> rest = <<>>
  <2>1. rest = <<>> <=> Len(rest) = 0
    BY <1>1
  <2>. QED
    BY <1>1, <2>1
<1>3. ASSUME k <= Len(s)
      PROVE  Head(rest) = s[k] /\ Tail(rest) = SubSeq(s, k + 1, Len(s))
  <2>1. m >= 1 /\ 1 \in 1 .. m /\ (k - 1) + 1 = k
    BY <1>1, <1>3
  <2>2. Head(rest) = s[k] /\ rest # <<>>
    BY <1>1, <2>1
  <2>3. Tail(rest) \in Seq(S) /\ Len(Tail(rest)) = m - 1
    BY <1>1, <2>1, <2>2
  <2>4. SubSeq(s, k + 1, Len(s)) \in Seq(S) /\ Len(SubSeq(s, k + 1, Len(s))) = m - 1
    BY <1>1, <1>3
  <2>5. ASSUME NEW i \in 1 .. m - 1
        PROVE  Tail(rest)[i] = SubSeq(s, k + 1, Len(s))[i]
    <3>1. i + 1 \in 1 .. m /\ (k - 1) + (i + 1) = k + i
      BY <1>1
    <3>2. Tail(rest)[i] = rest[i + 1]
      BY <1>1, <2>1, <2>2
    <3>3. SubSeq(s, k + 1, Len(s))[i] = s[k + i]
      BY <1>1, <1>3
    <3>. QED
      BY <1>1, <3>1, <3>2, <3>3
  <2>. QED
    BY <2>2, <2>3, <2>4, <2>5, SeqEqual
<1>4. ASSUME NEW x \in S
      PROVE  SubSeq(Append(s, x), k, Len(s) + 1) = Append(rest, x)
  <2> DEFINE left == SubSeq(Append(s, x), k, Len(s) + 1)
             right == Append(rest, x)
  <2>1. /\ Append(s, x) \in Seq(S) /\ Len(Append(s, x)) = Len(s) + 1
        /\ Append(s, x)[Len(s) + 1] = x /\ \A i \in 1 .. Len(s) : Append(s, x)[i] = s[i]
    OBVIOUS
  <2>2. /\ left \in Seq(S) /\ Len(left) = m + 1
        /\ \A i \in 1 .. m + 1 : left[i] = Append(s, x)[(k - 1) + i]
    <3>1. ASSUME NEW t \in Seq(S), Len(t) = Len(s) + 1
          PROVE  /\ SubSeq(t, k, Len(s) + 1) \in Seq(S) /\ Len(SubSeq(t, k, Len(s) + 1)) = m + 1
                 /\ \A i \in 1 .. m + 1 : SubSeq(t, k, Len(s) + 1)[i] = t[(k - 1) + i]
      BY <1>1, <3>1
    <3>. QED
      BY <2>1, <3>1
  <2>3. /\ right \in Seq(S) /\ Len(right) = m + 1
        /\ right[m + 1] = x /\ \A i \in 1 .. m : right[i] = rest[i]
    <3>1. ASSUME NEW t \in Seq(S)
          PROVE  /\ Append(t, x) \in Seq(S) /\ Len(Append(t, x)) = Len(t) + 1
                 /\ Append(t, x)[Len(t) + 1] = x /\ \A i \in 1 .. Len(t) : Append(t, x)[i] = t[i]
      OBVIOUS
    <3> HIDE DEF m
    <3>. QED
      BY <1>1, <3>1
  <2> HIDE DEF left, right
  <2>4. ASSUME NEW i \in 1 .. m + 1
        PROVE  left[i] = right[i]
    <3>1. CASE i = m + 1
      <4>1. (k - 1) + i = Len(s) + 1
        BY <1>1, <3>1
      <4>. QED
        BY <2>1, <2>2, <2>3, <3>1, <4>1
    <3>2. CASE i \in 1 .. m
      <4>1. (k - 1) + i \in 1 .. Len(s)
        BY <1>1, <3>2
      <4>2. Append(s, x)[(k - 1) + i] = s[(k - 1) + i]
        BY <2>1, <4>1
      <4>3. left[i] = Append(s, x)[(k - 1) + i]
        BY <2>2
      <4>4. right[i] = s[(k - 1) + i]
        BY <1>1, <2>3, <3>2
      <4>. QED
        BY <4>2, <4>3, <4>4
    <3>3. i = m + 1 \/ i \in 1 .. m
      <4>. HIDE DEF m
      <4>. QED
        BY <1>1
    <3>. QED
      BY <3>1, <3>2, <3>3
  <2>5. left = right
    BY <2>2, <2>3, <2>4, SeqEqual
  <2>. QED
    BY <2>5 DEF left, right
<1>. QED
  BY <1>2, <1>3, <1>4 DEF rest

\* What the host has of a line is a reading of it.
LEMMA ReadsLine ==
  ASSUME NEW k \in 1 .. Len(sent), sent[k] \in Line
  PROVE  EventOf(k) \in Channel!Readings(sent[k])
<1> DEFINE text == sent[k].text
           n == Len(text)
           split == {i \in Channel!Leads(text) : StartOf(k) + (i + 1) \in torn}
<1>1. /\ text \in Seq({"narrow", "lead", "tail"}) /\ Whole(text) /\ n \in Nat
      /\ DOMAIN text = 1 .. n /\ DOMAIN sent[k] = {"kind", "text"}
  BY LinesAssumption DEF Line
<1>2. ASSUME NEW i \in 1 .. n
      PROVE  CharOf(k, i + 1) = IF i \in split \/ i - 1 \in split THEN "mark" ELSE text[i]
  <2>1. ByteOf(k, i + 1) = text[i] /\ StartOf(k) + (i + 1) - 1 = StartOf(k) + ((i - 1) + 1)
    BY EncodeFacts DEF ByteOf
  <2>2. i \in split <=> text[i] = "lead" /\ StartOf(k) + (i + 1) \in torn
    BY <1>1 DEF Channel!Leads
  <2>3. i - 1 \in split <=> text[i] = "tail" /\ StartOf(k) + ((i - 1) + 1) \in torn
    <3>1. text[i] = "tail" => i - 1 \in 1 .. n /\ text[i - 1] = "lead"
      BY <1>1 DEF Whole
    <3>2. ASSUME i - 1 \in 1 .. n, text[i - 1] = "lead"
          PROVE  text[i] = "tail"
      <4>1. text[(i - 1) + 1] = "tail"
        BY <1>1, <3>2 DEF Whole
      <4>. QED
        BY <4>1
    <3>. QED
      BY <1>1, <3>1, <3>2 DEF Channel!Leads
  <2>. QED
    BY <2>1, <2>2, <2>3 DEF CharOf, Lost
<1>3. EventOf(k).text = Channel!Blur(text, split)
  BY <1>2 DEF EventOf, Channel!Blur
<1>4. EventOf(k) = [sent[k] EXCEPT !.text = Channel!Blur(text, split)]
  <2>1. sent[k] = [kind |-> sent[k].kind, text |-> text]
    BY DEF Line
  <2>2. EventOf(k) = [kind |-> sent[k].kind, text |-> EventOf(k).text]
    BY DEF EventOf
  <2> HIDE DEF text, split
  <2>. QED
    BY <1>3, <2>1, <2>2
<1>5. split \in SUBSET Channel!Leads(text)
  OBVIOUS
<1>. QED
  BY <1>4, <1>5 DEF Channel!Readings

\* A line that is taken is delivered, or skipped when the host has no event for it.
LEMMA TakenIsDelivered ==
  ASSUME TypeOK, pc # "done", pc' # "done", taken < Len(sent), taken' = taken + 1,
         UNCHANGED <<sent, script>>,
         IF sent[taken + 1].kind \in Readable
         THEN events' = Append(events, EventOf(taken + 1))
         ELSE UNCHANGED events
  PROVE  Channel!Next
<1> DEFINE k == taken + 1
           queue == SubSeq(sent, k, Len(sent))
<1>1. /\ sent \in Seq(Line) /\ k \in 1 .. Len(sent) + 1 /\ k <= Len(sent) /\ k # Len(sent) + 1
      /\ k \in 1 .. Len(sent) /\ sent[k] \in Line
  BY DEF TypeOK
<1>2. queue # <<>> /\ Head(queue) = sent[k] /\ Tail(queue) = SubSeq(sent, k + 1, Len(sent))
  BY <1>1, QueueFacts
<1>3. Tail(queue) = SubSeq(sent', taken' + 1, Len(sent'))
  BY <1>2
<1>4. CASE sent[k].kind \in Readable
  <2>1. Channel!Deliver
    BY <1>1, <1>2, <1>3, <1>4, ReadsLine DEF Channel!Deliver
  <2>. QED
    BY <2>1 DEF Channel!Next
<1>5. CASE sent[k].kind \notin Readable
  <2>1. Channel!Skip
    BY <1>2, <1>3, <1>5 DEF Channel!Skip
  <2>. QED
    BY <2>1 DEF Channel!Next
<1>. QED
  BY <1>4, <1>5

\* Every step of the loops is a step of the channel or none.
LEMMA ChannelStep ==
  ASSUME IInv, [Next]_vars
  PROVE  [Channel!Next]_(Channel!channel)
<1>1. CASE WriteConsole \/ WriteOutcome
  <2>1. CASE UNCHANGED <<sent, pc, failed, events, taken>>
    BY <1>1, <2>1, WritesStep DEF Channel!channel
  <2>2. ASSUME NEW l \in Line, sent' = Append(sent, l), script # "closed",
               UNCHANGED <<pc, failed, events, taken>>
        PROVE  Channel!Next
    <3>1. sent \in Seq(Line) /\ taken + 1 \in 1 .. Len(sent) + 1 /\ Len(sent') = Len(sent) + 1
      BY <2>2 DEF IInv, TypeOK, Progress
    <3>2. SubSeq(sent', taken + 1, Len(sent')) = Append(SubSeq(sent, taken + 1, Len(sent)), l)
      BY <2>2, <3>1, QueueFacts
    <3>3. script' # "closed"
      BY <1>1, <2>2, WritesStep
    <3>4. Channel!Send
      BY <2>2, <3>2, <3>3 DEF Channel!Send
    <3>. QED
      BY <3>4 DEF Channel!Next
  <2>. QED
    BY <1>1, <2>1, <2>2, WritesStep
<1>2. CASE CloseWriter
  <2>1. Channel!CloseWriter
    BY <1>2 DEF CloseWriter, Channel!CloseWriter, written, yielded
  <2>. QED
    BY <2>1 DEF Channel!Next
<1>3. CASE ReadChunk \/ ReadEnd
  BY <1>3 DEF ReadChunk, ReadEnd, Channel!channel, written, yielded
<1>4. CASE TakeLine
  <2>1. pc # "done" /\ pc' # "done" /\ taken' = taken + 1 /\ UNCHANGED <<sent, script>>
    BY <1>4 DEF TakeLine, written
  <2>. QED
    BY <1>4, <2>1, TakeLineStep, TakenIsDelivered DEF IInv, Yield
<1>5. CASE Leftover
  <2>1. pc # "done" /\ pc' # "done" /\ UNCHANGED <<sent, script, failed>>
    BY <1>5 DEF Leftover, written
  <2>2. CASE Parses(buffer)
    BY <1>5, <2>1, <2>2, LeftoverStep, TakenIsDelivered DEF IInv, Yield
  <2>3. CASE UNCHANGED yielded
    BY <2>1, <2>3 DEF Channel!channel, yielded
  <2>. QED
    BY <1>5, <2>2, <2>3, LeftoverStep
<1>6. CASE Return
  <2>1. pc = "ending" /\ pc' = "done" /\ UNCHANGED <<script, sent, failed, events, taken>>
    BY <1>6 DEF Return, written, yielded
  <2>2. CASE failed
    <3>1. Channel!Break
      BY <2>1, <2>2 DEF Channel!Break
    <3>. QED
      BY <3>1 DEF Channel!Next
  <2>3. CASE ~failed
    <3>1. script = "closed" /\ taken = Len(sent) /\ sent \in Seq(Line)
      BY <2>1, <2>3 DEF IInv, Progress, TypeOK
    <3>2. SubSeq(sent, taken + 1, Len(sent)) = <<>>
      BY <3>1, QueueFacts
    <3>3. Channel!End
      BY <2>1, <2>3, <3>1, <3>2 DEF Channel!End
    <3>. QED
      BY <3>3 DEF Channel!Next
  <2>. QED
    BY <2>2, <2>3
<1>7. CASE ReadError
  <2>1. pc = "reading" /\ failed' = TRUE /\ UNCHANGED <<script, sent, taken>>
    BY <1>7 DEF ReadError, written, yielded
  <2>2. CASE pc' = "leftover" /\ UNCHANGED events
    BY <2>1, <2>2 DEF Channel!channel
  <2>3. CASE pc' = "done" /\ events' = Append(events, StreamError)
    <3>1. Channel!Break
      BY <2>1, <2>3 DEF Channel!Break
    <3>. QED
      BY <3>1 DEF Channel!Next
  <2>. QED
    BY <1>7, <2>2, <2>3 DEF ReadError, Yield, yielded
<1>8. CASE Drop
  <2>1. Channel!Break
    BY <1>8 DEF Drop, Channel!Break, written, yielded
  <2>. QED
    BY <2>1 DEF Channel!Next
<1>9. CASE UNCHANGED vars
  BY <1>9 DEF vars, Channel!channel, written, yielded
<1>. QED
  BY <1>1, <1>2, <1>3, <1>4, <1>5, <1>6, <1>7, <1>8, <1>9 DEF Next, Read

\* The loops implement the channel: whatever the chunks, the lines arrive in order,
\* none lost but at the end of a broken stream, repeated, merged or invented.
THEOREM LinesAreAChannel == Spec => Channel!Spec
<1>1. Init => Channel!Init
  <2>. SUFFICES ASSUME Init PROVE Channel!Init
    OBVIOUS
  <2>. QED
    BY DEF Init, Channel!Init
<1>2. IInv /\ [Next]_vars => [Channel!Next]_(Channel!channel)
  BY ChannelStep
<1>. QED
  BY <1>1, <1>2, EventLinesInvariance, PTL DEF Spec, Channel!Spec

===============================================================================
