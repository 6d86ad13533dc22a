------------------------------- MODULE Output -------------------------------
(***************************************************************************)
(* How the executor captures and compares output (exec.go cappedBuffer,    *)
(* executor judge.go OutputsMatch).  A text is a sequence of characters,   *)
(* of which NewLine and the members of Blank are told apart.               *)
(***************************************************************************)
EXTENDS Integers, Sequences, FiniteSetsExt, SequencesExt

CONSTANTS NewLine, Blank

-----------------------------------------------------------------------------
(* Comparison of outputs.                                                  *)

LinesOf(text) ==
  FoldLeft(LAMBDA lines, c :
             IF c = NewLine THEN Append(lines, <<>>)
             ELSE [lines EXCEPT ![Len(lines)] = Append(@, c)],
           << <<>> >>, text)

\* The shortest prefix of s with every element that is kept.
UpToLast(s, Kept(_)) == SubSeq(s, 1, Max({0} \cup {i \in DOMAIN s : Kept(s[i])}))

TrimRight(line) == UpToLast(line, LAMBDA c : c \notin Blank)

\* Deviation: every blank line is dropped, not only those at the end.
WithoutBlankLines(text) ==
  SelectSeq([i \in DOMAIN LinesOf(text) |-> TrimRight(LinesOf(text)[i])],
            LAMBDA line : line # <<>>)

Canonicalize(text) ==
  LET lines == [i \in DOMAIN LinesOf(text) |-> TrimRight(LinesOf(text)[i])]
  IN UpToLast(lines, LAMBDA line : line # <<>>)

OutputsMatch(expected, actual) == Canonicalize(expected) = Canonicalize(actual)

\* Reference: a character is significant when a visible one follows, for a
\* blank on its own line, for a line end anywhere.
Significant(text, i) ==
  LET Visible(j) == text[j] \notin Blank \cup {NewLine}
  IN \E j \in i..Len(text) :
       Visible(j) /\ (text[i] \in Blank => \A k \in i..j : text[k] # NewLine)

SignificantText(text) ==
  LET kept == SelectSeq([i \in DOMAIN text |-> i], LAMBDA i : Significant(text, i))
  IN [k \in DOMAIN kept |-> text[kept[k]]]

-----------------------------------------------------------------------------
(* Capture of a stream: the writer is always told that all was written.    *)

\* Deviation: a chunk that does not fit is dropped whole.
WriteWhole(limit, buf, chunk) ==
  IF Len(buf) + Len(chunk) > limit THEN buf ELSE buf \o chunk

Write(limit, buf, chunk) ==
  LET remaining == limit - Len(buf)
  IN IF remaining <= 0 THEN buf
     ELSE IF Len(chunk) > remaining THEN buf \o SubSeq(chunk, 1, remaining)
     ELSE buf \o chunk

Captured(limit, chunks) == FoldLeft(LAMBDA buf, chunk : Write(limit, buf, chunk), <<>>, chunks)
=============================================================================
