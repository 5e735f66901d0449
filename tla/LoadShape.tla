------------------------------ MODULE LoadShape ------------------------------
(***************************************************************************)
(* The load profile as the seeder walks through it, one real hour after    *)
(* the other (internal/loadshape, the loop of seeder.Run).  Time is in     *)
(* minutes since 1970, factors are in percent, rounded down.  Of the       *)
(* events of an hour only matters whether there are any; the diurnal wave  *)
(* and the noise, a cosine and a hash of the time, may have any value in   *)
(* their range.                                                            *)
(***************************************************************************)
EXTENDS Integers, Sequences, FiniteSets, Folds

CONSTANTS Refs,      \* reference times of a seed run
          Scales,    \* values of DEMO_TIME_SCALE
          Profiles,  \* profile.json as it is on disk
          Days       \* --days

ASSUME ShapeAssumption ==
    /\ Refs \subseteq Nat /\ Scales \subseteq Nat \ {0} /\ Days \in Nat \ {0}
    /\ \A p \in Profiles :
         /\ p.base \in Nat /\ p.amplitude \in 0..100 /\ p.noise \in 0..100
         /\ p.weekdays \in Seq(Nat) /\ p.trend \in Int
         /\ \A a \in p.anomalies : a.offset \in Int /\ a.hours \in Nat /\ a.multiplier \in Nat

VARIABLES
    profile, ref, scale,   \* of this run
    phase,   \* "parse", "rejected" or "walk"
    h,       \* hours generated so far
    shaped,  \* history: the anomaly windows each hour so far fell into
    empty    \* history: the last hour generated has no events

shapeVars == <<profile, ref, scale, phase, h, shaped, empty>>

Hour == 60
Day  == 24 * Hour

\* Compressed by the scale, the anomalies still begin on the minutes that time
\* is counted in here (the code counts nanoseconds).
WholeMinutes ==
    \A p \in Profiles : \A a \in p.anomalies : \A s \in Scales : (a.offset * Day) % s = 0

ShapeTypeOK ==
    /\ profile \in Profiles /\ ref \in Refs /\ scale \in Scales
    /\ phase \in {"parse", "rejected", "walk"}
    /\ h \in 0..(24 * Days)
    /\ shaped \subseteq (1..h) \X profile.anomalies
    /\ empty \in BOOLEAN

ShapeInit ==
    /\ profile \in Profiles /\ ref \in Refs /\ scale \in Scales
    /\ phase = "parse"
    /\ h = 0 /\ shaped = {} /\ empty = FALSE

-----------------------------------------------------------------------------
\* Variant: what encoding/json accepts is good enough.
ParseProfile_Unchecked(p) == TRUE

\* Seven weekdays and no anomaly of an unknown type.
ParseProfile(p) ==
    /\ Len(p.weekdays) = 7
    /\ \A a \in p.anomalies : a.type \in {"spike", "outage", "degradation"}

\* A [7]float64 filled from JSON: elements that are missing stay zero.
WeekdayCoefficients(p) == [k \in 0..6 |-> IF k < Len(p.weekdays) THEN p.weekdays[k + 1] ELSE 0]

\* Go's %, which takes the sign of the dividend.
Rem(a, n) == IF a >= 0 THEN a % n ELSE -((-a) % n)

\* Variant: the sign of a negative remainder is dropped.
mondayIndex_NoSign(t) ==
    LET d == t \div Day IN ((IF d < 0 THEN -d ELSE d) + 3) % 7

\* 0 is Monday; 1970-01-01 was a Thursday.
mondayIndex(t) == Rem(Rem(Rem(t \div Day, 7) + 3, 7) + 7, 7)

ProfileTime(t) == ref + (t - ref) * scale

\* In the scale of 1 / (10000 * Day).
TrendFactor(t) == 10000 * Day + profile.trend * (t - ref)

Start(a) == ref + a.offset * Day
End(a)   == Start(a) + a.hours * Hour

InWindow(a, t) == t >= Start(a) /\ t <= End(a)

\* The factor of an anomaly at profile time t, in percent.
anomalyFactor(a, t) ==
    IF ~InWindow(a, t) THEN 100
    ELSE IF a.type \in {"spike", "outage"} THEN a.multiplier
    ELSE IF a.type = "degradation"
         THEN 100 + (IF a.hours > 0 THEN ((t - Start(a)) * (a.multiplier - 100)) \div (a.hours * Hour)
                                    ELSE a.multiplier - 100)
    ELSE 100

Times(x, y) == (x * y) \div 100

\* The product of the anomalies' factors; the others contribute 100 percent.
AnomalyProduct(t) ==
    MapThenFoldSet(Times, 100, LAMBDA a : anomalyFactor(a, t), LAMBDA S : CHOOSE a \in S : TRUE,
                   {a \in profile.anomalies : InWindow(a, t)})

\* The range of the diurnal factor times the noise factor.
LowestWave(p)  == ((100 - p.amplitude) * (100 - p.noise)) \div 100
HighestWave(p) == ((100 + p.amplitude) * (100 + p.noise)) \div 100

\* Half an event an hour, as a product of base rate, three factors in percent
\* and the trend.
HalfAnEvent == 100 * 100 * 100 * ((10000 * Day) \div 7200)

\* What the trend may be at most if a rate of full without it is to give less
\* than half an event (trend * full < HalfAnEvent, without the large product).
Residue(full) == (HalfAnEvent - 1) \div full

\* round(3600 * Rate) at real time t is zero, where math.Max(0, raw) is zero or
\* because the rate is that low.
RoundsToZero(t, wave) ==
    LET pt   == ProfileTime(t)
        full == profile.base * wave * WeekdayCoefficients(profile)[mondayIndex(pt)]
                  * AnomalyProduct(pt)
    IN  full = 0 \/ TrendFactor(pt) <= Residue(full)

\* Variant: the length of the window is not compressed.
AnomalyRealWindow_FullLength(a) ==
    <<ref + (Start(a) - ref) \div scale, ref + (Start(a) - ref) \div scale + a.hours * Hour>>

\* The real time of an anomaly, which its annotation spans.
AnomalyRealWindow(a) == <<ref + (Start(a) - ref) \div scale, ref + (End(a) - ref) \div scale>>

-----------------------------------------------------------------------------
windowEnd   == (ref \div Hour) * Hour
windowStart == windowEnd - Days * Day

\* Variant: the walk goes by hours of profile time.
bucketMid_ProfileHours(k) == windowStart + (k - 1) * Hour * scale + 30

\* The middle of the k-th hour stands for the whole of it.
bucketMid(k) == windowStart + (k - 1) * Hour + 30

Parse ==
    /\ phase = "parse"
    /\ phase' = IF ParseProfile(profile) THEN "walk" ELSE "rejected"
    /\ UNCHANGED <<profile, ref, scale, h, shaped, empty>>

HoursLeft == h < 24 * Days

\* One turn of the loop over the hours.
GenerateHour ==
    /\ phase = "walk" /\ HoursLeft
    /\ h' = h + 1
    /\ LET t == bucketMid(h')
       IN  /\ shaped' = shaped \cup
                {<<h', a>> : a \in {x \in profile.anomalies : InWindow(x, ProfileTime(t))}}
           /\ \E wave \in LowestWave(profile)..HighestWave(profile) :
                empty' = RoundsToZero(t, wave)
    /\ UNCHANGED <<profile, ref, scale, phase>>

ShapeNext == Parse \/ GenerateHour

ShapeSpec == ShapeInit /\ [][ShapeNext]_shapeVars

-----------------------------------------------------------------------------
(* Properties.                                                             *)

\* mondayIndex is the day of the calendar, before 1970 too, where Go's
\* remainder is negative.
WeekdayOfCalendar ==
    h > 0 => mondayIndex(ProfileTime(bucketMid(h))) =
               (ProfileTime(bucketMid(h)) \div Day + 3) % 7

\* The annotation of an anomaly spans exactly the hours whose events it has
\* shaped, at every scale (AnomalyRealWindow inverts what Rate does).
AnnotationsSpanShapedHours ==
    \A k \in {h} \ {0} : \A a \in profile.anomalies :
       <<k, a>> \in shaped <=>
         AnomalyRealWindow(a)[1] <= bucketMid(k) /\ bucketMid(k) <= AnomalyRealWindow(a)[2]

\* An anomaly of at least an hour of real time that lies within the window
\* is in the history: sampled once an hour, it shapes as many hours as it
\* lasts, or one more, wherever the reference time is within its hour.
NoAnomalyIsMissed ==
    h = 24 * Days =>
       \A a \in profile.anomalies :
          LET hits == Cardinality({k \in 1..h : <<k, a>> \in shaped})
              long == a.hours \div scale
          IN  long >= 1 /\ AnomalyRealWindow(a)[1] >= windowStart
                        /\ AnomalyRealWindow(a)[2] <= windowEnd
              => hits \in long..(long + 1)

\* The only gaps in the history are outages of the profile and the time
\* before the linear trend has crossed zero, with the next day of profile time
\* at most: until then an hour can still round to no event at all.  No weekday
\* and no unknown anomaly silences an hour (ParseProfile: "a 6-element array
\* would zero out Sundays").  The trend does so 667 profile days back, which
\* is 28 real days at scale 24.
OnlyOutagesAreEmpty ==
    empty => \/ TrendFactor(ProfileTime(bucketMid(h)) - Day) <= 0
             \/ \E a \in profile.anomalies : a.type = "outage" /\ <<h, a>> \in shaped

\* As in profile.json: at any time outside the outages, with the smallest of
\* its factors, a profile has an event an hour a day after its trend has
\* crossed zero.
BusyProfiles ==
    \A p \in Profiles : \A k \in DOMAIN p.weekdays :
       LET quiet == p.base * LowestWave(p) * p.weekdays[k]
           Busy(full) == full > 0 /\ Residue(full) < p.trend * Day
       IN  /\ Busy(quiet * 100)
           /\ \A a \in p.anomalies : a.type \in {"spike", "degradation"} => Busy(quiet * a.multiplier)

\* As in profile.json: one anomaly at a time.
DisjointAnomalies ==
    \A p \in Profiles : \A a, b \in p.anomalies :
       a # b => \/ a.offset * Day + a.hours * Hour < b.offset * Day
                \/ b.offset * Day + b.hours * Hour < a.offset * Day
=============================================================================
