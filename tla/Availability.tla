---------------------------- MODULE Availability ----------------------------
(* check_availability: from the merged free/busy codes that Exchange sends *)
(* for each mailbox to intervals with a status.  Times are counted from    *)
(* the start of the window; a code is a number, 9 stands for any character *)
(* that is no code, and NoMerged for a response without a merged string or *)
(* an exception in its place.                                              *)
EXTENDS Integers, FiniteSets, SequencesExt

CONSTANTS
    NoMerged,
    Spans, Steps, Codes,   \* windows, sample widths and codes of a request
    Guests,                \* its attendee lists
    Nothing                \* no report

(* A window ends after it starts, and a sample has a width.                *)
ASSUME AvailabilityAssumption ==
    /\ Spans \subseteq Nat \ {0} /\ Steps \subseteq Nat \ {0}
    /\ Guests \subseteq Seq(UNION {ToSet(g) : g \in Guests})

VARIABLE report   \* the request, the calendars at Exchange and the answer

_MERGED_STATUSES == [code \in 0..4 |->
    <<"free", "tentative", "busy", "oof", "unknown">>[code + 1]]

Interval(from, to, status) == [start |-> from, end |-> to, status |-> status]

(* Samples of the window; the last one may be cut off by its end.          *)
ExpectedSlots(span, step) ==
    span \div step + (IF span % step > 0 THEN 1 ELSE 0)

Unusable(merged, span, step) ==
    \/ merged = NoMerged
    \/ Len(merged) # ExpectedSlots(span, step)
    \/ ToSet(merged) \ (0..4) # {}

Least(a, b) == IF a < b THEN a ELSE b

ExtendUnclipped(intervals, i, status, span, step) ==
    IF intervals # <<>> /\ Last(intervals).status = status
    THEN Front(intervals) \o <<[Last(intervals) EXCEPT !.end = i * step]>>
    ELSE Append(intervals, Interval((i - 1) * step, i * step, status))
(* Sample i prolongs the last interval or begins a new one.                *)
Extend(intervals, i, status, span, step) ==
    LET end == Least(i * step, span)
    IN  IF intervals # <<>> /\ Last(intervals).status = status
        THEN Front(intervals) \o <<[Last(intervals) EXCEPT !.end = end]>>
        ELSE Append(intervals, Interval((i - 1) * step, end, status))

_busy_intervals(merged, span, step) ==
    IF Unusable(merged, span, step) THEN <<Interval(0, span, "unknown")>>
    ELSE FoldLeftDomain(
             LAMBDA found, i : Extend(found, i, _MERGED_STATUSES[merged[i]], span, step),
             <<>>, merged)

_window_status(intervals) ==
    LET statuses == {x.status : x \in ToSet(intervals)}
    IN  IF "unknown" \in statuses THEN "unknown"
        ELSE IF statuses = {"free"} THEN "free" ELSE "busy"

(* Each mailbox is asked for once, in the order of its first mention.      *)
Distinct(attendees) ==
    FoldLeft(LAMBDA seen, a : IF Contains(seen, a) THEN seen ELSE Append(seen, a),
             <<>>, attendees)

ViewOfUnaligned(views, asked, i) == IF i <= Len(views) THEN views[i] ELSE NoMerged
(* Responses come in the order of the request; another number of them      *)
(* cannot be attributed to anybody.                                        *)
ViewOf(views, asked, i) ==
    IF Len(views) = Len(asked) THEN views[i] ELSE NoMerged

check_availability(attendees, views, span, step) ==
    LET asked == Distinct(attendees)
    IN  [i \in 1..Len(asked) |->
            LET intervals == _busy_intervals(ViewOf(views, asked, i), span, step)
            IN  [email |-> asked[i], intervals |-> intervals,
                 status |-> _window_status(intervals)]]

(* Exchange answers with the calendar of each mailbox it was asked for, or *)
(* leaves one out.                                                         *)
Calendars(span, step) ==
    {NoMerged} \cup BoundedSeq(Codes, ExpectedSlots(span, step))

Views(asked, calendar) ==
    LET all == [i \in 1..Len(asked) |-> calendar[asked[i]]]
    IN  {all} \cup {RemoveAt(all, i) : i \in 1..Len(all)}

reportVars == <<report>>

AvailabilityInit == report = Nothing

AvailabilityNext ==
    /\ report = Nothing
    /\ \E guests \in Guests, span \in Spans, step \in Steps :
       \E calendar \in [ToSet(guests) -> Calendars(span, step)] :
       \E views \in Views(Distinct(guests), calendar) :
          report' = [span |-> span, step |-> step, calendar |-> calendar,
                     guests |-> guests,
                     aligned |-> Len(views) = Cardinality(ToSet(guests)),
                     rows |-> check_availability(guests, views, span, step)]

AvailabilitySpec == AvailabilityInit /\ [][AvailabilityNext]_reportVars

-----------------------------------------------------------------------------
(* The status of minute t according to the codes of a calendar.            *)
Sampled(calendar, step, t) == _MERGED_STATUSES[calendar[t \div step + 1]]

(* docs/availability.md: each attendee's intervals are [start, end),       *)
(* partition the window, are merged where equal, and give every minute the *)
(* status sampled for it in that attendee's own calendar; an unusable      *)
(* calendar, or a response that cannot be attributed, is unknown           *)
(* throughout.  The one-word status never says more: free only if every    *)
(* interval is, busy only if none is unknown.                              *)
IntervalsAreSamples ==
    report # Nothing =>
      /\ {r.email : r \in ToSet(report.rows)} = ToSet(report.guests)
      /\ \A r \in ToSet(report.rows) :
           LET ivs == r.intervals
               calendar == report.calendar[r.email]
               usable == report.aligned
                         /\ ~Unusable(calendar, report.span, report.step)
           IN  /\ ivs[1].start = 0 /\ Last(ivs).end = report.span
               /\ \A i \in 1..(Len(ivs) - 1) :
                     /\ ivs[i].end = ivs[i + 1].start
                     /\ ivs[i].status # ivs[i + 1].status
               /\ \A i \in 1..Len(ivs) : \A t \in ivs[i].start..(ivs[i].end - 1) :
                     ivs[i].status = IF usable THEN Sampled(calendar, report.step, t)
                                               ELSE "unknown"
               /\ r.status = "free" <=> \A i \in 1..Len(ivs) : ivs[i].status = "free"
               /\ r.status = "busy" =>
                     /\ usable
                     /\ \A i \in 1..Len(ivs) : ivs[i].status # "unknown"
=============================================================================
