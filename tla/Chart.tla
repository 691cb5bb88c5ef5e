------------------------------- MODULE Chart -------------------------------
(***************************************************************************)
(* Where a chart puts the samples of its line (internal/chart): columns    *)
(* and rows of the text chart, pixels of the PNG and SVG ones.  Values are *)
(* integers; an average of several is rounded down.                        *)
(***************************************************************************)
EXTENDS Integers, Sequences, FiniteSets, FiniteSetsExt, Functions

CONSTANTS
    Columns,     \* mdCols: the widest text chart
    Rows         \* mdRows: the height of a text chart

ASSUME ColumnsAssumption == Columns \in Nat \ {0}
ASSUME RowsAssumption == Rows \in Nat \ {0, 1}

-----------------------------------------------------------------------------
(* downsample *)

\* Bucket i \in 0..n-1 of len samples holds those from Low(i) to High(i) - 1.
Low(len, n, i) == (i * len) \div n

\* Mutant: every bucket is as long as the first one.
HighEven(len, n, i) == Low(len, n, i) + len \div n

High(len, n, i) ==
    LET hi == ((i + 1) * len) \div n
    IN  IF hi <= Low(len, n, i) THEN Low(len, n, i) + 1 ELSE hi

Bucket(len, n, i) == {j \in 0..(len - 1) : Low(len, n, i) <= j /\ j < High(len, n, i)}

Average(v, js) == MapThenSumSet(LAMBDA j : v[j + 1], js) \div Cardinality(js)

Downsample(v, n) ==
    IF Len(v) <= n THEN v
    ELSE [i \in 1..n |-> Average(v, Bucket(Len(v), n, i - 1))]

-----------------------------------------------------------------------------
(* renderMarkdown *)

\* Half away from zero, of a fraction that is not negative
Round(a, b) == (2 * a + b) \div (2 * b)

\* A flat line gets some height.
Above(lo, hi) == IF lo = hi THEN lo + 1 ELSE hi

\* Mutant: one row too many in the scale.
RowOfUnscaled(v, lo, hi) == Round((hi - v) * Rows, hi - lo)

\* Row 0 is the top one.
RowOf(v, lo, hi) ==
    LET r == Round((hi - v) * (Rows - 1), hi - lo)
    IN  Min({Max({r, 0}), Rows - 1})

\* The cells of a text chart: a marker per column, and a vertical run that
\* joins it to the marker before.
Grid(v) ==
    LET c == Downsample(v, Columns)
        lo == Min(Range(c))
        hi == Above(lo, Max(Range(c)))
        row(x) == RowOf(c[x], lo, hi)
        joins(x, r) ==
            /\ x > 1
            /\ Min({row(x), row(x - 1)}) < r /\ r < Max({row(x), row(x - 1)})
    IN  [cell \in (DOMAIN c) \X (0..(Rows - 1)) |->
            CASE row(cell[1]) = cell[2] -> "marker"
              [] joins(cell[1], cell[2]) -> "run"
              [] OTHER -> "blank"]

-----------------------------------------------------------------------------
(* bounds, project and setPixel: the corners of the plot, in pixels.  The PNG
   rounds to whole ones; the SVG keeps a decimal of the same quotient. *)

PadX == 40
PadY == 20
PlotW == 520
PlotH == 160

\* Where the point <<x, y>> of a series of points is drawn
Pixel(points, x, y) ==
    LET xs == {p[1] : p \in Range(points)}
        ys == {p[2] : p \in Range(points)}
        maxX == Above(Min(xs), Max(xs))
        maxY == Above(Min(ys), Max(ys))
    IN  <<PadX + Round((x - Min(xs)) * PlotW, maxX - Min(xs)),
          PadY + Round((maxY - y) * PlotH, maxY - Min(ys))>>
=============================================================================
