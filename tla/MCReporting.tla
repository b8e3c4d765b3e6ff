---- MODULE MCReporting ----
EXTENDS Reporting
CONSTANTS p1, p2
Both == {p1, p2}
Bound(first, second, line) ==
  [s \in Stations \cup {Line} |-> IF s = Line THEN line ELSE IF s = p1 THEN first ELSE second]

RowsOfViews == Bound(3, 1, 4)
LossesOfViews == Bound(1, 0, 2)
CastsOfViews == {{p1, p2}, {Line}}

RowsOfLine == Bound(4, 0, 2)
LossesOfLine == Bound(0, 0, 0)
CastsOfLine == {{p1, Line}}
====
