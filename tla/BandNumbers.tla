---------------------------- MODULE BandNumbers ----------------------------
(***************************************************************************)
(* The numbers a step is given for a band (processing/statistics.py,       *)
(* operators/normalize.py, _Measure and _measured of processing/core.py):  *)
(* the values are counted block by block into bins that hold the upper     *)
(* bits of a value's pattern, and a second look at the same values counts  *)
(* the lower bits where a percentile lies.  A value is a place on a line   *)
(* of half steps: at an even one lies a float32, at an odd one a value     *)
(* only a wider type holds.  Bin 0 is what lies below all float32, the     *)
(* last one also holds what lies above them.                               *)
(***************************************************************************)
EXTENDS Integers, Sequences, SequencesExt, FiniteSetsExt

CONSTANTS Bands,      \* a band: its type (whole numbers of more than 16 bits lie "apart" half steps), its
                      \* valid values block by block, those outside the area, the method of the step, whether it has a
                      \* band without values "beside" it: "none", or named "before" or "after" it
          PerBin,     \* float32 in a bin
          LastBin     \* the bin of the largest float32

ASSUME BandNumbersAssumption == PerBin \in Nat \ {0} /\ LastBin \in Nat \ {0}

VARIABLES band,      \* what is measured
          counts,    \* the statistics of the blocks counted so far, inside the area
          whole,     \* the statistics of the whole file
          unread,    \* the blocks the current look has yet to read
          target,    \* the second look: per bin, what was counted in it
          at,        \* counting, looking, measured, then given, refused or crashed
          given      \* the numbers the step was given

bandVars == <<band, counts, whole, unread, target, at, given>>

NotFinite == 1000
Finite(values) == SelectSeq(values, LAMBDA x : x # NotFinite)

----------------------------------------------------------------------------
\* Keys and bins.

LastKey == (LastBin + 1) * PerBin - 1
\* The largest float32 that is not above the value.
KeyOfValue(x) == IF x < 2 * PerBin THEN PerBin - 1 ELSE Min({x \div 2, LastKey})
Unkey(key) == 2 * key
BinOf(x) == IF band.type = "small" THEN x ELSE KeyOfValue(x) \div PerBin
\* A sum is kept per bin over what a value has beyond its bin, where there are floats.
Base(bin) == IF band.type \in {"narrow", "wide"} THEN 2 * PerBin * bin ELSE 0

Held(f, x) == IF x \in DOMAIN f THEN f[x] ELSE 0
Added(f, g) == [x \in DOMAIN f \cup DOMAIN g |-> Held(f, x) + Held(g, x)]
Collected(values, place(_), weight(_)) ==
  [p \in {place(values[k]) : k \in DOMAIN values} |->
     MapThenSumSet(LAMBDA k : weight(values[k]), {k \in DOMAIN values : place(values[k]) = p})]

----------------------------------------------------------------------------
\* One block, and how blocks merge; "spread" is the count times the sum of the
\* squared distances from the mean.

Nothing == [count |-> 0, minimum |-> 0, maximum |-> 0, sum |-> 0, spread |-> 0, total |-> <<>>, histogram |-> <<>>]
SumOfValues(values) == FoldLeft(LAMBDA total, x : total + x, 0, values)
Summarize(values) ==
  LET sum == SumOfValues(values)
      squares == FoldLeft(LAMBDA total, x : total + x * x, 0, values)
  IN IF values = <<>> THEN Nothing
     ELSE [count |-> Len(values), minimum |-> Min(ToSet(values)), maximum |-> Max(ToSet(values)),
           sum |-> sum, spread |-> Len(values) * squares - sum * sum,
           total |-> Collected(values, BinOf, LAMBDA x : x - Base(BinOf(x))),
           histogram |-> Collected(values, BinOf, LAMBDA x : 1)]

\* A mutant: the sums of squares are added as if the blocks had one mean.
SpreadAdded(s, b) == s.spread + b.spread
\* Chan's formula, over the distance of the two means.
SpreadOf(s, b) ==
  LET n == s.count + b.count
      apart == b.sum * s.count - s.sum * b.count
  IN (n * b.count * s.spread + n * s.count * b.spread + apart * apart) \div (s.count * b.count)
MergeBlock(s, b) ==
  IF b.count = 0 THEN s ELSE IF s.count = 0 THEN b
  ELSE [count |-> s.count + b.count, minimum |-> Min({s.minimum, b.minimum}), maximum |-> Max({s.maximum, b.maximum}),
        sum |-> s.sum + b.sum, spread |-> SpreadOf(s, b), total |-> Added(s.total, b.total),
        histogram |-> Added(s.histogram, b.histogram)]
MeanSum(s) == MapThenSumSet(LAMBDA bin : s.histogram[bin] * Base(bin) + s.total[bin], DOMAIN s.histogram)

----------------------------------------------------------------------------
\* A percentile from the bins alone: the lower edge up to the median, the upper
\* one above it, inside the range.

Upper(percent) == percent > 50
RankOf(percent, count) == Max({1, (percent * count + 99) \div 100})
\* How many lie at or before a place of a count, and the place of a rank.
UpTo(f, place) == MapThenSumSet(LAMBDA p : f[p], {p \in DOMAIN f : p <= place})
PlaceOf(f, rank) == Min({p \in DOMAIN f : UpTo(f, p) >= rank})

Outwards(edge, percent) == IF band.type # "whole" THEN edge
                           ELSE IF Upper(percent) THEN ((edge + band.apart - 1) \div band.apart) * band.apart
                           ELSE (edge \div band.apart) * band.apart
Within(edge, percent) == IF Upper(percent) THEN Min({Outwards(edge, percent), counts.maximum})
                         ELSE Max({Outwards(edge, percent), counts.minimum})
\* At the ends of the float32 the bin says nothing.
BeyondBins(percent, bin) == IF Upper(percent) THEN bin >= LastBin ELSE bin <= 1
PercentileOf(percent) ==
  LET bin == PlaceOf(counts.histogram, RankOf(percent, counts.count))
      edge == IF Upper(percent) THEN Unkey((bin + 1) * PerBin - 1) + (IF band.type = "narrow" THEN 0 ELSE 2)
              ELSE Unkey(bin * PerBin)
  IN CASE band.type = "small" -> bin
       [] band.type # "small" /\ BeyondBins(percent, bin) -> IF Upper(percent) THEN counts.maximum ELSE counts.minimum
       [] OTHER -> Within(edge, percent)

----------------------------------------------------------------------------
\* The second look.

\* The percents a method needs exactly; 0 and 100 come with the count.
Percentages(method) == CASE method.name = "percentile" -> {method.low, method.high} \ {0, 100}
                         [] method.name = "robust" -> {25, 50, 75}
                         [] OTHER -> {}
Wanted == Percentages(band.method)
BinAt(percent) == PlaceOf(counts.histogram, RankOf(percent, counts.count))
FixedAlready(percent) == band.type = "small" \/ BeyondBins(percent, BinAt(percent))
\* A mutant: the rank inside the bin counts from zero.
RankFromZero(percent) == RankOf(percent, counts.count) - UpTo(counts.histogram, BinAt(percent) - 1) - 1
RankWithin(percent) == RankOf(percent, counts.count) - UpTo(counts.histogram, BinAt(percent) - 1)

TargetBins == {BinAt(percent) : percent \in {p \in Wanted : ~FixedAlready(p)}}
EmptyBin == [low |-> <<>>, inexact |-> {}]
Low(x) == KeyOfValue(x) % PerBin
CountedIn(t, bin, values) ==
  LET hit == SelectSeq(values, LAMBDA x : BinOf(x) = bin)
  IN [low |-> Added(t.low, Collected(hit, Low, LAMBDA x : 1)),
      inexact |-> t.inexact \cup {Low(x) : x \in {y \in ToSet(hit) : Unkey(KeyOfValue(y)) # y}}]
\* The look saw the values the count saw.
SameValues == \A bin \in DOMAIN target : UpTo(target[bin].low, PerBin) = counts.histogram[bin]
\* A mutant: a value that only the wider type holds stays rounded down.
MovedNever(percent, low) == FALSE
MovesUp(percent, low) == Upper(percent) /\ low \in target[BinAt(percent)].inexact
ExactOf(percent) ==
  LET low == PlaceOf(target[BinAt(percent)].low, RankWithin(percent))
      edge == Unkey(BinAt(percent) * PerBin + low) + (IF MovesUp(percent, low) THEN 2 ELSE 0)
  IN IF FixedAlready(percent) THEN PercentileOf(percent) ELSE Within(edge, percent)

----------------------------------------------------------------------------
\* The pass that writes the band counts it, the area for itself and as a part of
\* the whole file; the second look reads the file, only
\* if a percentile needs it; then the step gets its numbers.

CountBlock ==
  /\ at = "counting" /\ unread # {}
  /\ LET b == Min(unread)
         within == Summarize(Finite(band.blocks[b]))
     IN /\ counts' = MergeBlock(counts, within)
        /\ whole' = MergeBlock(MergeBlock(whole, within), Summarize(Finite(band.outside[b])))
        /\ unread' = unread \ {b}
  /\ UNCHANGED <<band, target, at, given>>

\* A band without a value, this one or one beside it, ends it before the second look.
Looks == Wanted # {} /\ counts.count > 0 /\ band.beside = "none"
EndCount ==
  /\ at = "counting" /\ unread = {}
  /\ IF Looks THEN /\ target' = [bin \in TargetBins |-> EmptyBin]
                   /\ unread' = IF TargetBins = {} THEN {} ELSE DOMAIN band.blocks
                   /\ at' = "looking"
     ELSE at' = "measured" /\ UNCHANGED <<target, unread>>
  /\ UNCHANGED <<band, counts, whole, given>>

LookAtBlock ==
  /\ at = "looking"
  /\ \E b \in unread :
       /\ target' = [bin \in DOMAIN target |-> CountedIn(target[bin], bin, Finite(band.blocks[b]))]
       /\ unread' = unread \ {b}
  /\ UNCHANGED <<band, counts, whole, at, given>>

EndLook ==
  /\ at = "looking" /\ unread = {}
  /\ at' = IF SameValues THEN "measured" ELSE "failed"
  /\ UNCHANGED <<band, counts, whole, unread, target, given>>

\* A summary carries two percentiles of its own; the others come from the second look.
Carried == {2, 98}
NumberAt(percent) == IF Looks THEN ExactOf(percent) ELSE PercentileOf(percent)
ValuesOf(method) ==
  CASE method.name = "percentile" -> <<IF method.low = 0 THEN counts.minimum ELSE NumberAt(method.low),
                                       IF method.high = 100 THEN counts.maximum ELSE NumberAt(method.high)>>
    [] method.name = "zscore" -> <<MeanSum(counts), counts.spread>>
    [] method.name = "robust" -> <<NumberAt(25), NumberAt(50), NumberAt(75)>>
\* The numbers of a step rise from the low end to the high one; no spread is negative.
ValuesFit(method, values) == IF method.name = "zscore" THEN values[2] >= 0
                             ELSE \A k \in 1 .. (Len(values) - 1) : values[k] <= values[k + 1]

\* The bands are asked for their numbers in the order the step names them.
Outcome ==
  IF counts.count = 0 \/ band.beside = "before" THEN "refused"
  ELSE IF ~Looks /\ ~(Wanted \subseteq Carried) THEN "crashed"
  ELSE IF band.beside = "after" \/ ~ValuesFit(band.method, ValuesOf(band.method)) THEN "refused" ELSE "given"
GiveNumbers ==
  /\ at = "measured"
  /\ at' = Outcome /\ given' = IF Outcome = "given" THEN ValuesOf(band.method) ELSE <<>>
  /\ UNCHANGED <<band, counts, whole, unread, target>>

----------------------------------------------------------------------------
\* What the step makes of a value with its numbers: a fraction of the target
\* range, or of the spread around the centre (whose square stands for it).

Divisor(span) == IF span = 0 THEN 1 ELSE span
Line(x, start, span) ==
  IF band.method.clip THEN <<Max({0, Min({x - start, span})}), span>> ELSE <<x - start, span>>
Centred(x, centre, divisor) == <<x * centre[2] - centre[1], divisor>>
Converted(x) ==
  CASE band.method.name = "percentile" -> Line(x, given[1], Divisor(given[2] - given[1]))
    [] band.method.name = "zscore" -> Centred(x, <<given[1], counts.count>>, Divisor(given[2]))
    [] band.method.name = "robust" -> Centred(x, <<given[2], 1>>, Divisor(given[3] - given[1]))

BandStep == CountBlock \/ EndCount \/ LookAtBlock \/ EndLook \/ GiveNumbers
BandOver == at \in {"given", "refused", "crashed", "failed"}
BandIdle == /\ band \in Bands
            /\ counts = Nothing /\ whole = Nothing /\ unread = DOMAIN band.blocks /\ target = <<>>
            /\ at = "counting" /\ given = <<>>

----------------------------------------------------------------------------
\* The values of the blocks counted so far, as one list.
SoFar(blocks) == Finite(FlattenSeq([b \in DOMAIN blocks |->
                   IF at = "counting" /\ b \in unread THEN <<>> ELSE blocks[b]]))
CountedValues == SoFar(band.blocks)
\* The value at a rank: fewer lie below it, enough up to it.
TrueValue(percent) ==
  LET all == CountedValues
      rank == RankOf(percent, Len(all))
  IN CHOOSE v \in ToSet(all) : /\ Cardinality({k \in DOMAIN all : all[k] < v}) < rank
                               /\ Cardinality({k \in DOMAIN all : all[k] <= v}) >= rank
Float32s == {Unkey(key) : key \in PerBin .. LastKey}

\* The blocks merged are the values as one list, in every number: those of the
\* area, and those of the file.
SumsUp(s, all) ==
  LET sum == SumOfValues(all)
  IN /\ s.count = Len(all)
     /\ all # <<>> =>
          /\ s.minimum = Min(ToSet(all)) /\ s.maximum = Max(ToSet(all))
          /\ MeanSum(s) = sum
          /\ s.spread = Len(all) * FoldLeft(LAMBDA total, x : total + x * x, 0, all) - sum * sum
CountedAsAWhole == SumsUp(counts, SoFar(band.blocks)) /\ SumsUp(whole, SoFar(band.blocks) \o SoFar(band.outside))

\* Every percentile encloses the true value, in the range.
PercentilesEnclose ==
  counts.count > 0 =>
    \A percent \in {1, 25, 50, 51, 75, 99} :
      /\ PercentileOf(percent) \in counts.minimum .. counts.maximum
      /\ IF Upper(percent) THEN PercentileOf(percent) >= TrueValue(percent) ELSE PercentileOf(percent) <= TrueValue(percent)
      /\ band.type = "small" => PercentileOf(percent) = TrueValue(percent)

\* The second look is about the values counted, and gives the true value where a
\* float32 holds it, else the next float32 outwards; at the ends only the range is
\* sure.  Above the median a wider value on the same float32 moves it by one.
SecondLookIsExact ==
  /\ at # "failed"
  /\ (at \in {"measured", "given"} /\ Looks) =>
       \A percent \in Wanted :
         LET true == TrueValue(percent)
             found == ExactOf(percent)
             shared == true + 1 \in ToSet(CountedValues)
             far == BeyondBins(percent, BinAt(percent))
         IN IF band.type = "small" THEN found = true
            ELSE IF Upper(percent)
            THEN found >= true /\ (far \/ ~\E f \in Float32s : f < found /\ (f > true \/ (f = true /\ ~shared)))
            ELSE found <= true /\ (far \/ ~\E f \in Float32s : f > found /\ f <= true)

\* A step stays without numbers only if a band of it has no value.
RefusedOnlyEmpty == at \in {"refused", "crashed"} => (counts.count = 0 \/ band.beside # "none")

\* With its numbers a step keeps the order of the values, and between the
\* percentiles it fills the target range.
AtMost(a, b) == a[1] * b[2] <= b[1] * a[2]
ConvertedInOrder ==
  at = "given" =>
    \A x, y \in ToSet(CountedValues) :
      /\ x <= y => AtMost(Converted(x), Converted(y))
      /\ (band.method.name = "percentile" /\ band.method.clip) => AtMost(<<0, 1>>, Converted(x)) /\ AtMost(Converted(x), <<1, 1>>)

(* However a band is cut into blocks, whatever its type and in whatever    *)
(* order the second look reads them, the step gets the numbers of all its  *)
(* values together, exact where the type allows it and outwards where not, *)
(* numbers that fit the step and keep the order of the values              *)
(* (statistics.py, normalize.py).                                          *)
NumbersOfTheWhole == ConvertedInOrder /\ CountedAsAWhole /\ PercentilesEnclose /\ SecondLookIsExact /\ RefusedOnlyEmpty
=============================================================================
