----------------------------- MODULE EventChannel -----------------------------
(***************************************************************************)
(* What the pipe between the user's code and the reader of its events      *)
(* promises: events arrive one by one, in the order they were written, and *)
(* none is lost, repeated or merged, but for messages the reader has no     *)
(* event for; a channel that breaks loses a tail.  The one damage it may do *)
(* is to a character of two bytes, which may arrive as two marks.          *)
(***************************************************************************)
EXTENDS Naturals, Sequences

CONSTANTS
  Messages,  \* records [kind, text], the text a sequence of the bytes of its characters
  Legible,   \* kinds of message the reader has an event for
  Failure    \* the reader's own word on a broken channel

VARIABLES
  phase,      \* open, ended or broken
  writing,    \* whether the writer may still write
  queue,      \* messages written and not yet delivered
  delivered   \* what the reader was given

channel == <<phase, writing, queue, delivered>>

\* Where the text's characters of two bytes begin.
Leads(text) == {i \in DOMAIN text : text[i] = "lead"}

\* The text with the characters that begin at `split` replaced.
Blur(text, split) ==
  [i \in 1 .. Len(text) |-> IF i \in split \/ i - 1 \in split THEN "mark" ELSE text[i]]

Readings(m) == {[m EXCEPT !.text = Blur(m.text, split)] : split \in SUBSET Leads(m.text)}

-----------------------------------------------------------------------------

Init ==
  /\ phase = "open" /\ writing = TRUE
  /\ queue = <<>> /\ delivered = <<>>

Send ==
  /\ writing
  /\ \E m \in Messages : queue' = Append(queue, m)
  /\ UNCHANGED <<phase, writing, delivered>>

CloseWriter ==
  /\ writing /\ writing' = FALSE
  /\ UNCHANGED <<phase, queue, delivered>>

Deliver ==
  /\ phase = "open" /\ queue # <<>> /\ Head(queue).kind \in Legible
  /\ \E r \in Readings(Head(queue)) : delivered' = Append(delivered, r)
  /\ queue' = Tail(queue)
  /\ UNCHANGED <<phase, writing>>

Skip ==
  /\ phase = "open" /\ queue # <<>> /\ Head(queue).kind \notin Legible
  /\ queue' = Tail(queue)
  /\ UNCHANGED <<phase, writing, delivered>>

End ==
  /\ phase = "open" /\ ~writing /\ queue = <<>>
  /\ phase' = "ended"
  /\ UNCHANGED <<writing, queue, delivered>>

Break ==
  /\ phase = "open" /\ phase' = "broken"
  /\ delivered' \in {delivered, Append(delivered, Failure)}
  /\ UNCHANGED <<writing, queue>>

Next == Send \/ CloseWriter \/ Deliver \/ Skip \/ End \/ Break

Spec == Init /\ [][Next]_channel

FairSpec == Spec /\ WF_channel(Deliver \/ Skip) /\ WF_channel(End)

===============================================================================
