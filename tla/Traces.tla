--------------------------------- MODULE Traces ---------------------------------
(***************************************************************************)
(* What trace compare, trace estimates and trace occurrences compute from  *)
(* fixed bytes: the search for a sealed run (tracecompare), the diff and   *)
(* its projection (traceestimate), declared correspondences                *)
(* (trace_compare_estimate.go) and the pages of occurrences                *)
(* (traceoccurrence, trace_occurrences_output.go).  How the bytes are read *)
(* while they may change is the subject of TraceReads.                     *)
(*                                                                         *)
(* A text is a sequence of bytes; offsets start at 0, as in the code.  A   *)
(* command that is cancelled answers UNDETERMINED, which is left out.      *)
(***************************************************************************)
EXTENDS Integers, SequencesExt

CONSTANTS Byte,         \* what a text is made of
          Texts,        \* the bytes a source may have had, and may have now
          Declarations, \* sequences of declared correspondences, by their ids
          PageLimits    \* how many occurrences a page may show

(* The command line refuses limits that are not positive. *)
WellFormed == Texts \subseteq Seq(Byte) /\ PageLimits \subseteq Nat \ {0}
ASSUME TextsAssumption == WellFormed

VARIABLES source,   \* the bytes of the source snapshot
          span,     \* the sealed run: where it starts in source, and its length
          current,  \* the bytes of the source now
          report,   \* what was computed
          shown     \* the occurrences on the pages so far

tracesVars == <<source, span, current, report, shown>>

Unasked == [query |-> "none"]

(* A set of numbers as an ascending list: each comes after those below it. *)
Ordered(S) ==
    [i \in 1..Cardinality(S) |-> CHOOSE x \in S : Cardinality({y \in S : y < x}) = i - 1]

Bytes(text, at, n) == SubSeq(text, at + 1, at + n)
Run == Bytes(source, span.start, span.length)
Occurs(text, at) == at + Len(Run) <= Len(text) /\ Bytes(text, at, Len(Run)) = Run

(* validateInput: the run is a part of its source, and not empty. *)
TracesInit == /\ source \in Texts /\ current \in Texts
              /\ \E s \in 0..Len(source), n \in 1..Len(source) :
                    s + n <= Len(source) /\ span = [start |-> s, length |-> n]
              /\ report = Unasked /\ shown = <<>>

-----------------------------------------------------------------------------
(* Compare: the starts in the order in which they are tried, as the sets   *)
(* that are each scanned from the left.                                    *)
FirstPoint  == span.start
SecondPoint == span.start + Len(current) - Len(source)
MaxStart    == Len(current) - Len(Run)

(* searchPoints *)
Points == <<{FirstPoint} \cap 0..MaxStart, ({SecondPoint} \ {FirstPoint}) \cap 0..MaxStart>>

(* clippedInterval *)
Interval == Max({0, Min({FirstPoint, SecondPoint})})..Min({MaxStart, Max({FirstPoint, SecondPoint})})

(* scanRange leaves out the points, but not the second one when the first  *)
(* was met before it.                                                      *)
Scanned(range) ==
    range \ ({FirstPoint} \cup {p \in {SecondPoint} : FirstPoint \in range => SecondPoint > FirstPoint})

(* searchRemainder *)
Remainder == IF Interval = {} THEN <<Scanned(0..MaxStart)>>
             ELSE <<Scanned(0..(Min(Interval) - 1)), Scanned((Max(Interval) + 1)..MaxStart)>>

(* Mutant: the starts are tried from the left. *)
Ascending == <<Scanned(0..MaxStart)>> \o Points
SearchOrder == Points \o <<Scanned(Interval)>> \o Remainder

Hits(i) == {p \in SearchOrder[i] : Occurs(current, p)}
Search == LET found == {i \in DOMAIN SearchOrder : Hits(i) # {}}
          IN  IF Len(current) < Len(Run) \/ found = {}
              THEN [status |-> "ABSENT_EXACT", start |-> -1]
              ELSE [status |-> "PRESENT", start |-> Min(Hits(Min(found)))]

Compare == /\ report = Unasked
           /\ report' = [query |-> "compare", result |-> Search]
           /\ UNCHANGED <<source, span, current, shown>>

-----------------------------------------------------------------------------
(* The diff.  One row of the table of longest common lengths, by prefixes  *)
(* of the current text.                                                    *)
NextRow(row, byte, text) ==
    LET new[j \in 0..Len(text)] == IF j = 0 THEN 0
                                   ELSE IF text[j] = byte THEN row[j - 1] + 1
                                   ELSE Max({row[j], new[j - 1]})
    IN  new
LcsPrefix(old, text) ==
    FoldLeft(LAMBDA row, byte : NextRow(row, byte, text), [j \in 0..Len(text) |-> 0], old)
LcsSuffix(old, text) ==
    LET row == LcsPrefix(Reverse(old), Reverse(text))
    IN  [j \in 0..Len(text) |-> row[Len(text) - j]]

(* The least split of the text with the greatest sum. *)
SplitPoint(old, text, middle) ==
    LET left  == LcsPrefix(SubSeq(old, 1, middle), text)
        right == LcsSuffix(SubSeq(old, middle + 1, Len(old)), text)
        Better(j, k) == left[j] + right[j] > left[k] + right[k]
    IN  CHOOSE j \in 0..Len(text) :
            \A k \in 0..Len(text) : ~Better(k, j) /\ (k < j => Better(j, k))

Shifted(matches, old, now) ==
    {[old |-> m.old + old, current |-> m.current + now] : m \in matches}

Hirschberg(before, after) ==
    LET diff[old \in Seq(Byte), text \in Seq(Byte)] ==
            IF old = <<>> \/ text = <<>> THEN {}
            ELSE IF Len(old) = 1
                 THEN LET at == {j \in DOMAIN text : text[j] = old[1]}
                      IN  {[old |-> 0, current |-> j - 1] : j \in {k \in at : \A l \in at : k <= l}}
            ELSE LET middle == Len(old) \div 2
                     split  == SplitPoint(old, text, middle)
                 IN  diff[SubSeq(old, 1, middle), SubSeq(text, 1, split)]
                       \cup Shifted(diff[SubSeq(old, middle + 1, Len(old)), SubSeq(text, split + 1, Len(text))],
                                    middle, split)
    IN  diff[before, after]

(* What lies before a current byte that is not matched: the old offsets    *)
(* after the last match before it, up to the next match.                   *)
Gap(matches, c) ==
    [from |-> Max({0} \cup {m.old + 1 : m \in {n \in matches : n.current < c}}),
     to   |-> Min({Len(source)} \cup {m.old : m \in {n \in matches : n.current > c}})]

(* Mutant: bytes inserted at the start of the range belong to it. *)
ReachesAt(gap, from, to) == gap.from < to /\ gap.to >= from
(* A gap belongs to a range it overlaps; an insertion without a deletion   *)
(* belongs to the range strictly around it.                                *)
Reaches(gap, from, to) == gap.from < to /\ (gap.from > from \/ gap.to > from)

(* projectMatches *)
Projected(matches, from, to) ==
    {c \in 0..(Len(current) - 1) :
        LET at == {m \in matches : m.current = c}
        IN  IF at = {} THEN Reaches(Gap(matches, c), from, to)
            ELSE \E m \in at : m.old \in from..(to - 1)}

(* positionsToRanges: the maximal intervals, from the left. *)
Ranges(positions) ==
    LET starts == Ordered({p \in positions : p - 1 \notin positions})
        EndOf(s) == Min({p \in positions : p >= s /\ p + 1 \notin positions})
    IN  [i \in DOMAIN starts |-> [start |-> starts[i], length |-> EndOf(starts[i]) - starts[i] + 1]]

Estimate(from, to) == Ranges(Projected(Hirschberg(source, current), from, to))

-----------------------------------------------------------------------------
(* Declarations.  Those made for other bytes are not among them.           *)
(* matchingTraceDeclarations refuses a range outside the current text.     *)
Inside(ranges) == \A i \in DOMAIN ranges : ranges[i].start + ranges[i].length <= Len(current)
Matching(run)  == {i \in DOMAIN Declarations : Declarations[i].run = run}

(* sameTraceEstimateRanges *)
SameRanges(left, right) == left = right

(* A declaration joins the first candidate with its ranges. *)
Grouped(candidates, ids) ==
    FoldLeft(LAMBDA found, id :
                 LET ranges == Declarations[id].ranges
                     like   == {i \in DOMAIN found : SameRanges(found[i].ranges, ranges)}
                 IN  IF like = {} THEN Append(found, [ranges |-> ranges, ids |-> {id}])
                     ELSE [found EXCEPT ![Min(like)].ids = @ \cup {id}],
             candidates, Ordered(ids))

SingleDiff == LET ranges == Estimate(span.start, span.start + span.length)
              IN  IF ranges = <<>> THEN [state |-> "NO_CANDIDATE", conflict |-> FALSE, candidates |-> <<>>]
                  ELSE [state |-> "CANDIDATES", conflict |-> FALSE,
                        candidates |-> <<[ranges |-> ranges, ids |-> {}]>>]

Declared(ids) == LET candidates == Grouped(<<>>, ids)
                 IN  [state |-> "CANDIDATES", conflict |-> Len(candidates) > 1, candidates |-> candidates]

(* estimateTraceOwnRun *)
EstimateRun(ids) ==
    /\ report = Unasked
    /\ \A i \in ids : Declarations[i].run = span /\ Inside(Declarations[i].ranges)
    /\ report' = [query |-> "estimate", declared |-> ids,
                  estimate |-> IF Search.status # "ABSENT_EXACT"
                               THEN [state |-> "NOT_APPLICABLE", conflict |-> FALSE, candidates |-> <<>>]
                               ELSE IF ids # {} THEN Declared(ids) ELSE SingleDiff]
    /\ UNCHANGED <<source, span, current, shown>>

-----------------------------------------------------------------------------
(* Page: the occurrences after one, and whether there are more. *)
Page(text, after, limit) ==
    LET starts == Ordered({p \in (after + 1)..(Len(text) - Len(Run)) : Occurs(text, p)})
    IN  [starts |-> SubSeq(starts, 1, Min({limit, Len(starts)})), more |-> Len(starts) > limit]

Entries(view, page) == [i \in DOMAIN page.starts |-> [view |-> view, start |-> page.starts[i]]]

(* Mutant: a page that is full of snapshot entries is taken for the last.  *)
NoLookahead(after, limit) == limit > 0 /\ Page(current, after, limit).more
(* With no room left, one occurrence is looked for. *)
MoreCurrent(after, limit) == IF limit = 0 THEN Page(current, -1, 1).starts # <<>>
                             ELSE Page(current, after, limit).more

(* collectTraceOccurrences, after the last entry of the previous page.     *)
Collected(view, limit, last) ==
    LET snapshot == IF view # "current" /\ last.view \in {"none", "snapshot"}
                    THEN Page(source, last.start, limit) ELSE [starts |-> <<>>, more |-> FALSE]
        left     == limit - Len(snapshot.starts)
        after    == IF last.view = "current" THEN last.start ELSE -1
    IN  IF snapshot.more \/ view = "snapshot"
        THEN [entries |-> Entries("snapshot", snapshot), more |-> snapshot.more]
        ELSE [entries |-> Entries("snapshot", snapshot)
                            \o (IF left = 0 THEN <<>> ELSE Entries("current", Page(current, after, left))),
              more |-> MoreCurrent(after, left)]

Turned(view, limit, last) ==
    LET page == Collected(view, limit, last)
    IN  /\ shown' = shown \o page.entries
        /\ report' = [query |-> "occurrences", view |-> view, limit |-> limit, more |-> page.more]
        /\ UNCHANGED <<source, span, current>>

FirstPage(view, limit) == report = Unasked /\ Turned(view, limit, [view |-> "none", start |-> -1])
(* The cursor names the last entry shown. *)
NextPage == /\ report.query = "occurrences" /\ report.more
            /\ Turned(report.view, report.limit, shown[Len(shown)])

Views == {"snapshot", "current", "both"}

TracesNext == \/ Compare
              \/ \E ids \in SUBSET Matching(span) : EstimateRun(ids)
              \/ \E view \in Views, n \in PageLimits : FirstPage(view, n)
              \/ NextPage

TracesSpec == TracesInit /\ [][TracesNext]_tracesVars

-----------------------------------------------------------------------------
(* The search tries points, an interval and the rest, each without what    *)
(* was tried before; it finds the run exactly when it is there.            *)
CompareIsExact ==
    report.query = "compare" =>
      IF \E p \in 0..Len(current) : Occurs(current, p)
      THEN report.result.status = "PRESENT" /\ Occurs(current, report.result.start)
      ELSE report.result.status = "ABSENT_EXACT"

(* A run is followed through an edit beside it: if the text up to its end  *)
(* is the old one it is reported where it was, otherwise, if the text from *)
(* its start on is the old one, where that has moved to; with insertions   *)
(* (or deletions) on both sides, in between.                               *)
UpTo(text, end)     == SubSeq(text, 1, Min({end, Len(text)}))
Onwards(text, tail) == SubSeq(text, Max({1, Len(text) - tail + 1}), Len(text))
EditsAreFollowed ==
    report.query = "compare" =>
      LET end == span.start + span.length  tail == Len(source) - span.start
      IN  /\ UpTo(current, end) = UpTo(source, end) => report.result.start = span.start
          /\ Onwards(current, tail) = Onwards(source, tail) /\ ~Occurs(current, span.start) =>
                report.result.start = Len(current) - tail
          /\ LET moved   == Len(current) - tail
                 between == Min({span.start, moved})..Max({span.start, moved})
             IN  (\E p \in between \cap 0..Len(current) : Occurs(current, p)) => report.result.start \in between

(* The search of compare (compare.go): exact, and in the order it promises.*)
SearchIsExact == CompareIsExact /\ EditsAreFollowed

(* The linear-space diff is a common subsequence, and no longer one exists.*)
Subsequences(text) ==
    {LET at == Ordered(I) IN [k \in DOMAIN at |-> text[at[k]]] : I \in SUBSET DOMAIN text}
DiffIsLongest ==
    report.query = "estimate" =>
      LET matches == Hirschberg(source, current)
      IN  /\ \A m, n \in matches : m.old < n.old <=> m.current < n.current
          /\ \A m \in matches : source[m.old + 1] = current[m.current + 1]
          /\ Cardinality(matches) = Max({Len(t) : t \in Subsequences(source) \cap Subsequences(current)})

(* A range and its parts are projected to the same bytes: nothing is lost  *)
(* or claimed twice at a border, except what was inserted exactly there.   *)
RangesCompose ==
    report.query = "estimate" =>
      LET matches == Hirschberg(source, current)  end == span.start + span.length
          Inserted(at) == {c \in 0..(Len(current) - 1) : /\ \A m \in matches : m.current # c
                                                        /\ Gap(matches, c) = [from |-> at, to |-> at]}
      IN  \A k \in (span.start + 1)..(end - 1) :
             /\ Projected(matches, span.start, k) \cup Projected(matches, k, end)
                    = Projected(matches, span.start, end) \ Inserted(k)
             /\ \A c \in Projected(matches, span.start, k) \cap Projected(matches, k, end) :
                    \A m \in matches : m.current # c

(* Declarations that agree make one candidate and those that do not are    *)
(* all reported, as a conflict.                                            *)
DeclarationsAreKept ==
    report.query = "estimate" =>
      LET e == report.estimate
      IN  report.declared # {} /\ e.state = "CANDIDATES" =>
            /\ \A id \in report.declared :
                  \E i \in DOMAIN e.candidates : /\ id \in e.candidates[i].ids
                                                /\ e.candidates[i].ranges = Declarations[id].ranges
            /\ e.conflict <=> Cardinality({Declarations[id].ranges : id \in report.declared}) > 1

(* An estimate (estimate.go, trace_compare_estimate.go): the diff below it,*)
(* the ranges read off it, and the declarations that overrule it.          *)
EstimateIsExact == DiffIsLongest /\ RangesCompose /\ DeclarationsAreKept

(* Following the cursors shows every occurrence once, in order, whatever   *)
(* the limit, and the last page says that it is the last.                  *)
All(view) ==
    LET In(name, text) == LET at == Ordered({p \in 0..Len(text) : Occurs(text, p)})
                          IN  [i \in DOMAIN at |-> [view |-> name, start |-> at[i]]]
    IN  (IF view = "current" THEN <<>> ELSE In("snapshot", source))
          \o (IF view = "snapshot" THEN <<>> ELSE In("current", current))
PagesAreExact ==
    report.query = "occurrences" =>
      /\ IsPrefix(shown, All(report.view))
      /\ report.more <=> shown # All(report.view)
=============================================================================
