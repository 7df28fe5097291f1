---------------------------- MODULE RateLimiter ----------------------------
(***************************************************************************)
(* The clock and the headers of the rate limiter: what the answers of the  *)
(* server make of it, answer after answer, while time passes.  What is     *)
(* then kept back is module TransportThread's, where a limit may end any   *)
(* time.  An answer is [groups, retry_after, status]; a group of the       *)
(* header X-Sentry-Rate-Limits is its text beside what the server meant,   *)
(* [text, asks], where asks is a set of names of limits.                   *)
(***************************************************************************)
EXTENDS Text, Integers

CONSTANTS
  TenthsOf,      \* texts that are numbers, with their value in tenths of a second
  DateOf,        \* texts that are dates, with their time
  Answers,       \* answers the server may give
  DefaultDelay,  \* DEFAULT_DELAY
  LastTime,      \* the latest time a SystemTime can hold
  MaxAnswers,    \* bound: answers of one behaviour
  MaxNow         \* bound: the clock

\* The clock ends long after every time a behaviour reaches; the text of a
\* number is no separator and no date, and an absent limit is no time.
ASSUME LimiterAssumption ==
  /\ DefaultDelay \in Nat /\ LastTime \in Nat /\ MaxNow \in Nat /\ MaxAnswers \in Nat
  /\ MaxNow + DefaultDelay <= LastTime
  /\ \A text \in DOMAIN TenthsOf : TenthsOf[text] \in Int
  /\ \A text \in DOMAIN DateOf : DateOf[text] \in Int
  /\ DOMAIN TenthsOf \cap (DOMAIN DateOf \cup {",", ":", ";", " "}) = {}
  /\ None \notin Int \cup DOMAIN TenthsOf \cup DOMAIN DateOf

VARIABLES
  limits,   \* when each limit ends, or None
  now,      \* SystemTime::now()
  answers   \* history: the answers so far and when they came

limiterVars == <<limits, now, answers>>

LimitCategories == {"error", "session", "transaction", "attachment", "log_item", "trace_metric"}
Limits == LimitCategories \cup {"global"}

\* What a group asks for, by the places of its separators: a number of seconds,
\* categories up to the next colon, and more text.
Asks(text) ==
  LET ends == { n \in 3..Len(text) : text[n] = ":" }
      Names(l) == \E i \in 3..(Min(ends) - 1) :
                    text[i] = l /\ text[i - 1] \in {":", ";"} /\ text[i + 1] \in {":", ";"}
  IN  IF text[1] \notin DOMAIN TenthsOf \/ ends = {} \/ text[2] # ":" THEN {}
      ELSE IF 3 \in ends THEN {"global"} ELSE { l \in LimitCategories : Names(l) }

\* Groups are not empty, keep clear of what separates them, and mean what their
\* text says.
ASSUME AnswersAssumption ==
  \A a \in Answers : a.groups # None =>
    /\ IsSeq(a.groups)
    /\ \A i \in DOMAIN a.groups :
         LET text == a.groups[i].text IN
         /\ IsSeq(text) /\ text # <<>> /\ \A j \in DOMAIN text : text[j] # ","
         /\ text[1] # " " /\ Last(text) # " "
         /\ a.groups[i].asks = Asks(text)

LimiterInit == limits = [l \in Limits |-> None] /\ now = 0 /\ answers = <<>>

IsSeconds(text) == Len(text) = 1 /\ text[1] \in DOMAIN TenthsOf

\* value.ceil() as u64, which saturates.
WholeSeconds(number) ==
  LET ceil == (TenthsOf[number] + 9) \div 10 IN IF ceil < 0 THEN 0 ELSE ceil

TimeAfterDefaultDelay == IF now + DefaultDelay > LastTime THEN now ELSE now + DefaultDelay
TimeAfter(seconds) == IF now + seconds > LastTime THEN TimeAfterDefaultDelay ELSE now + seconds

UpdateFromRetryAfter(header) ==
  [limits EXCEPT !.global = CASE IsSeconds(<<header>>)      -> TimeAfter(WholeSeconds(header))
                              [] header \in DOMAIN DateOf  -> DateOf[header]
                              [] OTHER                     -> TimeAfterDefaultDelay]

\* The limits a list of categories is about; others are ignored.
NamedBy(categories) ==
  IF categories = <<>> THEN {"global"}
  ELSE { l \in LimitCategories : \E c \in ToSet(Split(categories, ";")) : c = <<l>> }

\* One group of the header: seconds, categories and scope, or nothing at all.
ParseGroup(ls, group) ==
  LET splits == Split(group, ":")
  IN  IF ~IsSeconds(splits[1]) \/ Len(splits) < 3 THEN ls
      ELSE [l \in Limits |-> IF l \in NamedBy(splits[2]) THEN TimeAfter(WholeSeconds(splits[1][1])) ELSE ls[l]]

UpdateFromSentryHeader(header) ==
  LET groups == Split(header, ",")
  IN  FoldLeft(ParseGroup, limits, [i \in DOMAIN groups |-> TrimMatches(groups[i], " ")])

UpdateFrom429 == [limits EXCEPT !.global = TimeAfterDefaultDelay]

HeaderText(groups) ==
  FoldLeft(LAMBDA text, g : IF text = <<>> THEN g.text ELSE text \o <<",", " ">> \o g.text, <<>>, groups)

\* The answer to a request, in any of the transports: the first of the header
\* with categories, the general one and the status that is there.
Answer(a) ==
  /\ Len(answers) < MaxAnswers
  /\ limits' = CASE a.groups # None      -> UpdateFromSentryHeader(HeaderText(a.groups))
                 [] a.groups = None /\ a.retry_after # None -> UpdateFromRetryAfter(a.retry_after)
                 [] a.groups = None /\ a.retry_after = None /\ a.status = 429 -> UpdateFrom429
                 [] OTHER                -> limits
  /\ answers' = Append(answers, [at |-> now, answer |-> a])
  /\ UNCHANGED now

Tick == now < MaxNow /\ now' = now + 1 /\ UNCHANGED <<limits, answers>>

LimiterNext == Tick \/ \E a \in Answers : Answer(a)
LimiterSpec == LimiterInit /\ [][LimiterNext]_limiterVars

\* Mutant: a category with a limit of its own, over or not, is not asked for
\* the general one.
IsDisabled_Shadowed(category) ==
  LET Left(l) == limits[l] # None /\ limits[l] >= now
  IN  IF category = "any" \/ limits[category] = None THEN Left("global") ELSE Left(category)

\* A limit holds up to and with the second it ends in.
IsDisabled(category) ==
  LET Left(l) == limits[l] # None /\ limits[l] >= now
  IN  Left("global") \/ (category # "any" /\ Left(category))
-----------------------------------------------------------------------------
\* What the answers have asked for, in their order: which limits, and until when.
Orders(entry) ==
  LET a == entry.answer
      After(tenths) == CHOOSE t \in entry.at..LastTime : 10 * (t - entry.at) >= tenths
                                           /\ \A u \in entry.at..(t - 1) : 10 * (u - entry.at) < tenths
      Until(text) ==
        IF text \in DOMAIN TenthsOf /\ TenthsOf[text] <= 10 * (LastTime - entry.at) THEN After(TenthsOf[text])
        ELSE IF text \in DOMAIN DateOf THEN DateOf[text] ELSE entry.at + DefaultDelay
  IN  CASE a.groups # None -> [i \in DOMAIN a.groups |-> [names |-> a.groups[i].asks, until |-> Until(a.groups[i].text[1])]]
        [] a.groups = None /\ (a.retry_after # None \/ a.status = 429) ->
             << [names |-> {"global"}, until |-> Until(a.retry_after)] >>
        [] OTHER -> <<>>

\* A category is kept back exactly as long as the server asked last, for the
\* category or for everything, whatever earlier answers said and however long
\* their limits run: a malformed group or one for others changes nothing, a
\* delay beyond the clock's end is the default delay (ratelimit.rs, all updates
\* and is_disabled).
LimitsAsAsked ==
  LET orders == FoldLeft(LAMBDA all, entry : all \o Orders(entry), <<>>, answers)
      Held(l) == LET i == SelectLastInSeq(orders, LAMBDA o : l \in o.names) IN i # 0 /\ orders[i].until >= now
  IN  /\ \A c \in LimitCategories : IsDisabled(c) <=> Held("global") \/ Held(c)
      /\ IsDisabled("any") <=> Held("global")
=============================================================================
