-------------------------------- MODULE Text --------------------------------
(* Texts are sequences of tokens: a separator is a token of its own, and    *)
(* so is each maximal piece of text no operation of the SDK looks into.     *)
EXTENDS Naturals, Sequences, SequencesExt

CONSTANT None   \* absent: Option::None

\* A sequence, of tokens or of anything else.
IsSeq(s) == Len(s) \in Nat /\ s = [i \in 1..Len(s) |-> s[i]]

\* Iterator::filter.
Where(s, Test(_)) == FoldLeft(LAMBDA kept, x : IF Test(x) THEN Append(kept, x) ELSE kept, <<>>, s)

\* str::splitn(2, sep): the text before the first separator and, when there
\* is one, the text after it.
SplitOnce(s, sep) ==
  LET i == SelectInSeq(s, LAMBDA x : x = sep)
  IN  IF i = 0 THEN <<s>> ELSE <<SubSeq(s, 1, i - 1), SubSeq(s, i + 1, Len(s))>>

\* str::split(sep): all the pieces between separators; a separator starts the next.
Split(s, sep) ==
  FoldLeft(LAMBDA pieces, x : IF x = sep THEN Append(pieces, <<>>)
                              ELSE [pieces EXCEPT ![Len(pieces)] = Append(@, x)], << <<>> >>, s)

\* str::trim_matches(x): x removed from both ends.
TrimMatches(s, x) ==
  LET kept == { i \in DOMAIN s : s[i] # x }
  IN  IF kept = {} THEN <<>> ELSE SubSeq(s, Min(kept), Max(kept))

\* str::rsplitn(2, sep): the text after the last separator, then the rest.
SplitLast(s, sep) ==
  LET i == SelectLastInSeq(s, LAMBDA x : x = sep)
  IN  IF i = 0 THEN <<s>> ELSE <<SubSeq(s, i + 1, Len(s)), SubSeq(s, 1, i - 1)>>
=============================================================================
