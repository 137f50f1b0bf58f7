----------------------------- MODULE Catalogue -----------------------------
(***************************************************************************)
(* What a listing makes of the buckets in the archive: which of them are in *)
(* a time range (BucketFilter) and which of the formats of a bucket it      *)
(* takes (BucketFormatChooser).                                             *)
(***************************************************************************)
EXTENDS Naturals, Sequences

CONSTANTS
  Buckets,
  Formats,
  Default,   \* SPLUNK_BUCKET
  Unknown,   \* BucketFormat.UNKNOWN
  MaxTime,   \* times are instants since the epoch, up to this one
  Day,       \* how many instants a day has
  Span       \* the instants of each bucket's first and last event, from its name

ASSUME UnknownAssumption == Unknown \notin Formats
ASSUME SpanAssumption ==
  MaxTime \in Nat /\ Span \in [Buckets -> (0..MaxTime) \X (0..MaxTime)]
ASSUME DayAssumption == Day \in Nat \ {0}
\* Splunk's names, db_<latest>_<earliest>_<id>, have no bucket end before it begins.
ASSUME SpanOrderAssumption == \A b \in Buckets : Span[b][1] <= Span[b][2]

Times == 0..MaxTime

\* The ends of a range are asked for as a date or as a number of milliseconds.
Requested == [form : {"date", "millis"}, value : Nat]

\* convert: a date becomes the midnight with which it begins, whether it is the
\* first day or the last one (StringDateConverter.java:47).
Convert(end) == IF end.form = "date" THEN end.value * Day ELSE end.value

\* isBucketWithinTimeRange
IsBucketWithinTimeRange(b, from, to) ==
  ~(Span[b][2] < from) /\ ~(Span[b][1] > to)

\* filterBuckets
FilterBuckets(bs, from, to) ==
  IF from > to THEN {} ELSE {b \in bs : IsBucketWithinTimeRange(b, from, to)}

\* The formats in a list of priorities that are available, by position.
Prioritized(available, priority) ==
  {k \in DOMAIN priority : priority[k] \in available}

\* Mutant: the first priority is taken, available or not.
FirstPriority(available, priority) ==
  IF available = {} THEN {Unknown}
  ELSE IF priority # <<>> THEN {Head(priority)}
  ELSE IF Default \in available THEN {Default}
  ELSE available

\* chooseBucketFormat: the set of what it may choose, since the default of the
\* default is the first format in the order of the file system.
ChooseBucketFormat(available, priority) ==
  IF available = {} THEN {Unknown}
  ELSE IF Prioritized(available, priority) # {}
  THEN {priority[k] : k \in {k \in Prioritized(available, priority) :
                               \A j \in Prioritized(available, priority) : k <= j}}
  ELSE IF Default \in available THEN {Default}
  ELSE available
=============================================================================
