------------------------------ MODULE Crontab -------------------------------
(***************************************************************************)
(* The validator of crontab schedules (MonitorSchedule::from_crontab), and *)
(* the grammar of the schedules it should accept.  A schedule is a         *)
(* sequence of segments, a segment a text of numbers, names and *, / - ,   *)
(***************************************************************************)
EXTENDS Text
CONSTANT NumberOf   \* the number each numeric token stands for

Month == {"jan", "feb", "mar", "apr", "may", "jun", "jul", "aug", "sep", "oct", "nov", "dec"}
Day   == {"sun", "mon", "tue", "wed", "thu", "fri", "sat"}

\* The values each of the five segments may have.
ALLOWED_VALUES ==
  << [numeric_range |-> 0..59, single_values |-> {}],
     [numeric_range |-> 0..23, single_values |-> {}],
     [numeric_range |-> 1..31, single_values |-> {}],
     [numeric_range |-> 1..12, single_values |-> Month],
     [numeric_range |-> 0..6,  single_values |-> Day] >>

\* str::parse::<u64>.
IsNumber(s) == Len(s) = 1 /\ s[1] \in DOMAIN NumberOf
Number(s) == NumberOf[s[1]]

\* Mutant: the two ends may stand in any order.
ValidateRange_AnyOrder(range, allowed) ==
  \/ range = <<"*">>
  \/ LET limits == Split(range, "-") IN
     /\ Len(limits) = 2
     /\ \A i \in 1..2 : IsNumber(limits[i]) /\ Number(limits[i]) \in allowed.numeric_range

ValidateRange(range, allowed) ==
  \/ range = <<"*">>
  \/ LET limits == Split(range, "-") IN
     /\ Len(limits) = 2
     /\ \A i \in 1..2 : IsNumber(limits[i]) /\ Number(limits[i]) \in allowed.numeric_range
     /\ Number(limits[1]) <= Number(limits[2])

ValidateStep(step) == IsNumber(step) /\ Number(step) > 0

ValidateStepRange(steprange, allowed) ==
  LET parts == SplitOnce(steprange, "/") IN
  ValidateRange(parts[1], allowed) /\ (Len(parts) = 2 => ValidateStep(parts[2]))

ValidateListItem(item, allowed) ==
  IF IsNumber(item) THEN Number(item) \in allowed.numeric_range
  ELSE ValidateStepRange(item, allowed)

ValidateList(list, allowed) ==
  LET items == Split(list, ",") IN \A i \in DOMAIN items : ValidateListItem(items[i], allowed)

ValidateSegment(segment, allowed) ==
  \/ Len(segment) = 1 /\ segment[1] \in allowed.single_values
  \/ ValidateList(segment, allowed)

\* crontab_validator::validate.
Validate(segments) ==
  /\ Len(segments) = 5
  /\ \A i \in 1..5 : ValidateSegment(segments[i], ALLOWED_VALUES[i])
-----------------------------------------------------------------------------
\* The grammar, written as the segments it generates: a name, or a list of one
\* or two items, or of three items of one token (all of at most five tokens).
Item(allowed) ==
  LET num   == { t \in DOMAIN NumberOf : NumberOf[t] \in allowed.numeric_range }
      range == { <<"*">> } \cup { <<p[1], "-", p[2]>> : p \in { q \in num \X num : NumberOf[q[1]] <= NumberOf[q[2]] } }
      step  == { r \o <<"/", t>> : r \in range, t \in { u \in DOMAIN NumberOf : NumberOf[u] > 0 } }
  IN  { <<t>> : t \in num } \cup range \cup step

Grammar(allowed) ==
  { <<name>> : name \in allowed.single_values } \cup Item(allowed)
    \cup { i \o <<",">> \o j : i \in Item(allowed), j \in Item(allowed) }
    \cup { <<i, ",", j, ",", k>> : i, j, k \in { item[1] : item \in { x \in Item(allowed) : Len(x) = 1 } } }
=============================================================================
