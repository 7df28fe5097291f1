---------------------------- MODULE Stacktraces -----------------------------
(***************************************************************************)
(* Stack traces: which frames are marked as the application's own.  A      *)
(* stack trace is a sequence of frames, a frame has the text of its        *)
(* function, or None, and the mark in_app, or None while undecided.        *)
(***************************************************************************)
EXTENDS Text

\* The prefixes of WELL_KNOWN_NOT_IN_APP the model's functions can match.
WELL_KNOWN_NOT_IN_APP == { <<"std", "::">>, <<"core", "::">>, <<"sentry", "::">>, <<"_start">> }

\* str::trim_start_matches.
TrimStart(s, x) ==
  LET kept == { i \in DOMAIN s : s[i] # x }
  IN  IF kept = {} THEN <<>> ELSE SubSeq(s, Min(kept), Len(s))

\* The text starts with the pattern; in a symbol ".." stands for "::".
StartsWith(func, pattern) ==
  /\ Len(pattern) <= Len(func)
  /\ \A i \in DOMAIN pattern : func[i] = pattern[i] \/ (func[i] = ".." /\ pattern[i] = "::")

Openings == {"<F as ", "<", "_<"}

\* function_starts_with: each "<" the pattern starts with takes one opening of
\* the function; a pattern without one looks behind all of them.
FunctionStartsWith(func, pattern) ==
  LET rest == TrimStart(pattern, "<")
      n    == Len(pattern) - Len(rest)
  IN  IF n = 0 THEN StartsWith(TrimStart(TrimStart(TrimStart(func, "<F as "), "<"), "_<"), pattern)
      ELSE /\ n <= Len(func) /\ \A i \in 1..n : func[i] \in Openings
           /\ StartsWith(SubSeq(func, n + 1, Len(func)), rest)

MatchesAny(func, patterns) == \E p \in patterns : FunctionStartsWith(func, p)

\* Mutant: the exclusions are looked at first.
FrameMark_ExcludeFirst(frame, include, exclude) ==
  IF frame.function = None \/ frame.in_app # None THEN frame.in_app
  ELSE IF MatchesAny(frame.function, exclude \cup WELL_KNOWN_NOT_IN_APP) THEN FALSE
  ELSE IF MatchesAny(frame.function, include) THEN TRUE ELSE None

\* The mark process_event_stacktrace gives a frame in its first loop.
FrameMark(frame, include, exclude) ==
  IF frame.function = None \/ frame.in_app # None THEN frame.in_app
  ELSE IF MatchesAny(frame.function, include) THEN TRUE
  ELSE IF MatchesAny(frame.function, exclude \cup WELL_KNOWN_NOT_IN_APP) THEN FALSE ELSE None

\* When no frame was found to be in the application, all those still undecided are.
Decided(marked) ==
  IF \E i \in DOMAIN marked : marked[i].function # None /\ marked[i].in_app = TRUE THEN marked
  ELSE [i \in DOMAIN marked |-> [marked[i] EXCEPT !.in_app = IF @ = None THEN TRUE ELSE @]]

\* process_event_stacktrace: the two loops.
ProcessStacktrace(frames, include, exclude) ==
  Decided([i \in DOMAIN frames |-> [frames[i] EXCEPT !.in_app = FrameMark(frames[i], include, exclude)]])
=============================================================================
