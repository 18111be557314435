---------------------------- MODULE ParsingProofs ----------------------------
(***************************************************************************)
(* What Tier 1 guarantees for every file, every layout and every profile   *)
(* that any file before it has taught: no line is dropped, dates that      *)
(* prove their format are right, a balance column tells the signs, and     *)
(* only what is printed is reported as clean.  And what the greedy pass    *)
(* over the columns comes to: a stable assignment of roles.                *)
(*                                                                         *)
(* The proofs about outcomes do not need the columns: whatever roles were  *)
(* found, an outcome is that of rows that stand for lines of the file      *)
(* (Stands).                                                               *)
(* The invariant (PInv) says that a request has parsed its file from       *)
(* nothing, or with a profile that fits the file and holds a date format.  *)
(***************************************************************************)
EXTENDS Parsing, FiniteSetTheorems, NaturalsInduction, WellFoundedInduction, TLAPS

-----------------------------------------------------------------------------
(* Signs: the balance column tells every sign but the first, for ledgers   *)
(* of any length and any amounts.                                          *)

LEMMA MagnitudeSign ==
    ASSUME NEW x \in Int
    PROVE  /\ Magnitude(x) \in Nat
           /\ Magnitude(Magnitude(x)) = Magnitude(x)
           /\ x > 0 => Magnitude(x) = x
           /\ ~(x > 0) => -Magnitude(x) = x
BY DEF Magnitude

(* Every row of a ledger takes part in the chain of balances.              *)
LEMMA AllChained ==
    ASSUME NEW rows, NEW meant, NEW n \in Nat, Printed(rows, meant, n)
    PROVE  Amounted(rows) = 1..n /\ Chained(rows) = 1..n
<1>1. \A i \in 1..n : rows[i].amount \in Int /\ rows[i].balance \in Int
  BY MagnitudeSign DEF Printed
<1>2. \A i \in 1..n : rows[i].amount # None /\ rows[i].balance # None
  BY <1>1, SignAssumption
<1>3. QED
  BY <1>2 DEF Printed, Amounted, Chained

(* If row p is the last one before row i, their balances are compared.     *)
LEMMA DeltaToLast ==
    ASSUME NEW rows, NEW day, NEW i, NEW p \in Earlier(i, rows, day),
           \A k \in Earlier(i, rows, day) \ {p} : Before(k, p, day) /\ ~Before(p, k, day)
    PROVE  Delta(i, rows, day) = rows[i].balance - rows[p].balance
<1> DEFINE IsLast(j) == /\ j \in Earlier(i, rows, day)
                        /\ \A k \in Earlier(i, rows, day) \ {j} : Before(k, j, day)
<1>1. IsLast(p)
  OBVIOUS
<1>2. ASSUME NEW q, IsLast(q)
      PROVE  q = p
  BY <1>2
<1>3. (CHOOSE j \in Earlier(i, rows, day) :
            \A k \in Earlier(i, rows, day) \ {j} : Before(k, j, day)) = p
  BY <1>1, <1>2
<1>4. QED
  BY <1>3 DEF Delta

(* Where the difference is what the bank meant, the sign is the one it     *)
(* meant.                                                                  *)
LEMMA DeltaTellsSign ==
    ASSUME NEW rows, NEW meant, NEW day, NEW n \in Nat, Printed(rows, meant, n),
           NEW i \in 1..n, Earlier(i, rows, day) # {}, Delta(i, rows, day) = meant[i]
    PROVE  LET signed == Signed("single_column_balance_inferred", rows, day)
           IN  i \in DOMAIN signed /\ signed[i] = meant[i]
<1>1. meant[i] \in Int /\ meant[i] # 0 /\ rows[i].amount = Magnitude(meant[i])
  BY DEF Printed
<1>2. i \in Amounted(rows) /\ i \in Chained(rows)
  BY AllChained
<1>3. Magnitude(Magnitude(Delta(i, rows, day)) - Magnitude(rows[i].amount)) = 0
  BY <1>1, MagnitudeSign DEF Magnitude
<1>4. i \in Inferred(rows, day)
  BY <1>1, <1>2, <1>3, SignAssumption DEF Inferred
<1>5. i \in InflowRows("single_column_balance_inferred", rows, day) <=> meant[i] > 0
  BY <1>4 DEF InflowRows
<1>6. Magnitude(rows[i].amount) = Magnitude(meant[i])
  BY <1>1, MagnitudeSign
<1>7. Signed("single_column_balance_inferred", rows, day) =
        [k \in Amounted(rows) |->
            IF k \in InflowRows("single_column_balance_inferred", rows, day)
            THEN Magnitude(rows[k].amount) ELSE -Magnitude(rows[k].amount)]
  BY DEF Signed
<1>8. QED
  BY <1>1, <1>2, <1>5, <1>6, <1>7, MagnitudeSign

-----------------------------------------------------------------------------
(* Oldest row first, several rows a day allowed: every row but the first   *)
(* gets the sign that the bank meant (sign_convention.py:88-131).          *)
THEOREM OldestFirstTold ==
    ASSUME NEW rows, NEW meant, NEW day, NEW n \in Nat, OldestFirst(rows, meant, day, n)
    PROVE  SignTold(Signed("single_column_balance_inferred", rows, day), meant, n, 1)
<1> SUFFICES ASSUME NEW i \in (1..n) \ {1}
             PROVE  LET signed == Signed("single_column_balance_inferred", rows, day)
                    IN  i \in DOMAIN signed /\ signed[i] = meant[i]
  BY DEF SignTold
<1>1. /\ Printed(rows, meant, n) /\ i \in 2..n /\ i - 1 \in 1..n
      /\ \A k \in 1..n : day[k] \in Int
      /\ \A k, l \in 1..n : k < l => day[k] <= day[l]
  BY DEF OldestFirst
<1>2. \A k, l \in 1..n : Before(k, l, day) <=> k < l
  BY <1>1 DEF Before
<1>3. Earlier(i, rows, day) = 1..(i - 1)
  BY <1>1, <1>2, AllChained DEF Earlier
<1>4. Delta(i, rows, day) = rows[i].balance - rows[i - 1].balance
  <2>1. i - 1 \in Earlier(i, rows, day)
    BY <1>1, <1>3
  <2>2. \A k \in Earlier(i, rows, day) \ {i - 1} :
            Before(k, i - 1, day) /\ ~Before(i - 1, k, day)
    BY <1>1, <1>2, <1>3
  <2>3. QED
    BY <2>1, <2>2, DeltaToLast
<1>5. /\ rows[i].balance = rows[i - 1].balance + meant[i]
      /\ rows[i - 1].balance \in Int /\ meant[i] \in Int
  BY <1>1 DEF OldestFirst, Printed
<1>6. Delta(i, rows, day) = meant[i] /\ Earlier(i, rows, day) # {}
  BY <1>1, <1>3, <1>4, <1>5
<1>7. QED
  BY <1>1, <1>6, DeltaTellsSign

(* Newest row first, one row a day: every row but the last gets the sign   *)
(* that the bank meant (sign_convention.py:104-113).                       *)
THEOREM NewestFirstTold ==
    ASSUME NEW rows, NEW meant, NEW day, NEW n \in Nat, NewestFirst(rows, meant, day, n)
    PROVE  SignTold(Signed("single_column_balance_inferred", rows, day), meant, n, n)
<1> SUFFICES ASSUME NEW i \in (1..n) \ {n}
             PROVE  LET signed == Signed("single_column_balance_inferred", rows, day)
                    IN  i \in DOMAIN signed /\ signed[i] = meant[i]
  BY DEF SignTold
<1>1. /\ Printed(rows, meant, n) /\ i \in 1..(n - 1) /\ i + 1 \in 1..n
      /\ \A k \in 1..n : day[k] \in Int
      /\ \A k, l \in 1..n : k < l => day[k] > day[l]
  BY DEF NewestFirst
<1>2. \A k, l \in 1..n : Before(k, l, day) <=> l < k
  BY <1>1 DEF Before
<1>3. Earlier(i, rows, day) = (i + 1)..n
  BY <1>1, <1>2, AllChained DEF Earlier
<1>4. Delta(i, rows, day) = rows[i].balance - rows[i + 1].balance
  <2>1. i + 1 \in Earlier(i, rows, day)
    BY <1>1, <1>3
  <2>2. \A k \in Earlier(i, rows, day) \ {i + 1} :
            Before(k, i + 1, day) /\ ~Before(i + 1, k, day)
    BY <1>1, <1>2, <1>3
  <2>3. QED
    BY <2>1, <2>2, DeltaToLast
<1>5. /\ rows[i].balance = rows[i + 1].balance + meant[i]
      /\ rows[i + 1].balance \in Int /\ meant[i] \in Int
  BY <1>1 DEF NewestFirst, Printed
<1>6. Delta(i, rows, day) = meant[i] /\ Earlier(i, rows, day) # {}
  BY <1>1, <1>3, <1>4, <1>5
<1>7. QED
  BY <1>1, <1>6, DeltaTellsSign

-----------------------------------------------------------------------------
(* Dates.                                                                  *)

LEMMA FormatValues ==
    /\ DOMAIN Format = {1, 2, 3}
    /\ Format[1] = "mdy" /\ Format[2] = "dmy" /\ Format[3] = "iso"
    /\ ToSet(Format) = {"mdy", "dmy", "iso"}
<1>1. DOMAIN Format = 1..3
  BY DEF Format
<1>2. DOMAIN Format = {1, 2, 3}
  BY <1>1
<1>3. Format[1] = "mdy" /\ Format[2] = "dmy" /\ Format[3] = "iso"
  BY DEF Format
<1>4. QED
  BY <1>2, <1>3 DEF ToSet

LEMMA ReadableCount ==
    ASSUME NEW cells, IsFiniteSet(DOMAIN cells), NEW format
    PROVE  /\ IsFiniteSet(Readable(cells, format))
           /\ Cardinality(Readable(cells, format)) \in Nat
           /\ Cardinality(Readable(cells, format)) <= Cardinality(DOMAIN cells)
           /\ Cardinality(DOMAIN cells) \in Nat
<1>1. Readable(cells, format) \subseteq DOMAIN cells
  BY DEF Readable
<1>2. QED
  BY <1>1, FS_Subset, FS_CardinalityType

(* Most is a format that reads as many cells as any.                       *)
LEMMA MostReads ==
    ASSUME NEW cells, IsFiniteSet(DOMAIN cells)
    PROVE  /\ Most(cells) \in DOMAIN Format /\ Format[Most(cells)] \in ToSet(Format)
           /\ \A f \in ToSet(Format) :
                Cardinality(Readable(cells, Format[Most(cells)])) >= Cardinality(Readable(cells, f))
<1> DEFINE c == [k \in DOMAIN Format |-> Cardinality(Readable(cells, Format[k]))]
           Best(k) == \A l \in DOMAIN Format : c[k] > c[l] \/ (c[k] = c[l] /\ k <= l)
<1>1. \A k \in DOMAIN Format : c[k] \in Nat
  BY ReadableCount
<1>2. Most(cells) = CHOOSE k \in DOMAIN Format : Best(k)
  BY DEF Most
<1>3. \A k \in DOMAIN Format : c[k] = Cardinality(Readable(cells, Format[k]))
  OBVIOUS
<1> HIDE DEF c
<1>4. \E k \in DOMAIN Format : Best(k)
  BY <1>1, FormatValues
<1>5. Most(cells) \in DOMAIN Format /\ Best(Most(cells))
  BY <1>2, <1>4
<1>6. \A k \in DOMAIN Format : c[Most(cells)] >= c[k]
  BY <1>1, <1>5
<1>7. \A f \in ToSet(Format) : \E k \in DOMAIN Format : Format[k] = f
  BY FormatValues
<1>8. QED
  BY <1>3, <1>5, <1>6, <1>7, FormatValues

(* A format other than the bank's misses the cells that prove it.          *)
LEMMA OtherFormatMisses ==
    ASSUME NEW cells, IsFiniteSet(DOMAIN cells), NEW format,
           NEW other \in ToSet(Format), other # format
    PROVE  /\ Cardinality(Proving(cells, format)) \in Nat
           /\ Cardinality(Readable(cells, other)) + Cardinality(Proving(cells, format))
                  <= Cardinality(DOMAIN cells)
<1> DEFINE P == Proving(cells, format)
           R == Readable(cells, other)
<1>1. P \subseteq DOMAIN cells /\ R \subseteq DOMAIN cells /\ P \cap R = {}
  BY DEF Proving, Readable
<1> HIDE DEF P, R
<1>2. IsFiniteSet(P) /\ IsFiniteSet(R)
  BY <1>1, FS_Subset
<1>3. /\ IsFiniteSet(P \cup R)
      /\ Cardinality(P \cup R) = Cardinality(P) + Cardinality(R) - Cardinality(P \cap R)
  BY <1>2, FS_Union
<1>4. Cardinality(P \cap R) = 0
  BY <1>1, FS_EmptySet
<1>5. Cardinality(P \cup R) <= Cardinality(DOMAIN cells)
  BY <1>1, FS_Subset
<1>6. Cardinality(P) \in Nat /\ Cardinality(R) \in Nat /\ Cardinality(DOMAIN cells) \in Nat
  BY <1>2, FS_CardinalityType
<1>7. QED
  BY <1>3, <1>4, <1>5, <1>6 DEF P, R

(* The dates prove the format, as ProvenDatesRight has it.                 *)
Proven(cells, format) ==
    /\ Readable(cells, format) = DOMAIN cells
    /\ 5 * Cardinality(Proving(cells, format)) > Cardinality(DOMAIN cells)

LEMMA ProvenSome ==
    ASSUME NEW cells, IsFiniteSet(DOMAIN cells), NEW format, Proven(cells, format)
    PROVE  /\ format \in ToSet(Format)
           /\ \E i \in DOMAIN cells : \A f \in ToSet(Format) : Reads(cells[i], f) <=> f = format
<1>1. Proving(cells, format) # {}
  <2>1. Cardinality(DOMAIN cells) \in Nat
    BY FS_CardinalityType
  <2>2. Cardinality(Proving(cells, format)) # 0
    BY <2>1 DEF Proven
  <2>3. QED
    BY <2>2, FS_EmptySet
<1>2. PICK i \in DOMAIN cells : {f \in ToSet(Format) : Reads(cells[i], f)} = {format}
  BY <1>1 DEF Proving
<1>3. QED
  BY <1>2

(* Cold detection finds the format of a file that proves it.               *)
LEMMA DetectsProven ==
    ASSUME NEW cells, IsFiniteSet(DOMAIN cells), NEW format, Proven(cells, format),
           DetectDateFormat(cells) # "none"
    PROVE  DetectDateFormat(cells) = format
<1> DEFINE best == Format[Most(cells)]
<1>1. best \in ToSet(Format) /\ format \in ToSet(Format)
  BY MostReads, ProvenSome
<1>2. Cardinality(Readable(cells, best)) >= Cardinality(DOMAIN cells)
  BY <1>1, MostReads DEF Proven
<1>3. best = format
  <2> SUFFICES ASSUME best # format PROVE FALSE
    OBVIOUS
  <2>1. /\ Cardinality(Proving(cells, format)) \in Nat
        /\ Cardinality(Readable(cells, best)) + Cardinality(Proving(cells, format))
              <= Cardinality(DOMAIN cells)
    BY <1>1, OtherFormatMisses
  <2>2. Cardinality(DOMAIN cells) \in Nat /\ Cardinality(Readable(cells, best)) \in Nat
    BY ReadableCount
  <2>3. 5 * Cardinality(Proving(cells, format)) > Cardinality(DOMAIN cells)
    BY DEF Proven
  <2> HIDE DEF best
  <2>4. QED
    BY <1>2, <2>1, <2>2, <2>3
<1>4. DetectDateFormat(cells) = best
  BY DEF DetectDateFormat
<1>5. QED
  BY <1>3, <1>4

(* A stored format that still fits is that of a file that proves one.      *)
LEMMA FitsProven ==
    ASSUME NEW cells, IsFiniteSet(DOMAIN cells), NEW format, Proven(cells, format),
           NEW stored \in ToSet(Format), DateFormatStillFits(cells, stored)
    PROVE  stored = format
<1> SUFFICES ASSUME stored # format PROVE FALSE
  OBVIOUS
<1>1. /\ Cardinality(Proving(cells, format)) \in Nat
      /\ Cardinality(Readable(cells, stored)) + Cardinality(Proving(cells, format))
            <= Cardinality(DOMAIN cells)
  BY OtherFormatMisses
<1>2. Cardinality(DOMAIN cells) \in Nat /\ Cardinality(Readable(cells, stored)) \in Nat
  BY ReadableCount
<1>3. 5 * Cardinality(Proving(cells, format)) > Cardinality(DOMAIN cells)
  BY DEF Proven
<1>4. 5 * Cardinality(Readable(cells, stored)) >= 4 * Cardinality(DOMAIN cells)
  BY DEF DateFormatStillFits
<1>5. QED
  BY <1>1, <1>2, <1>3, <1>4

LEMMA DetectedFormat ==
    ASSUME NEW cells, IsFiniteSet(DOMAIN cells), DetectDateFormat(cells) # "none"
    PROVE  DetectDateFormat(cells) \in ToSet(Format)
BY MostReads DEF DetectDateFormat

(* So does the order of day and month in lines of text.                    *)
LEMMA TextProven ==
    ASSUME NEW sampled, IsFiniteSet(DOMAIN sampled), NEW pattern \in {"slash", "iso"},
           \A i \in DOMAIN sampled :
              /\ pattern = "slash" => ~Reads(sampled[i].date, "iso")
              /\ pattern = "iso" => ~Reads(sampled[i].date, "mdy") /\ ~Reads(sampled[i].date, "dmy"),
           NEW format, Proven(TextDates(sampled), format)
    PROVE  TextFormat(pattern, sampled) = format
<1> DEFINE cells == TextDates(sampled)
<1>1. DOMAIN cells = DOMAIN sampled /\ \A i \in DOMAIN cells : cells[i] = sampled[i].date
  BY DEF TextDates
<1>2. Readable(cells, format) = DOMAIN cells
  BY DEF Proven
<1> HIDE DEF cells
<1>3. /\ format \in {"mdy", "dmy", "iso"}
      /\ \E i \in DOMAIN cells : \A f \in {"mdy", "dmy", "iso"} : Reads(cells[i], f) <=> f = format
  BY <1>1, ProvenSome, FormatValues DEF cells
<1>4. \A i \in DOMAIN cells : Reads(cells[i], format)
  BY <1>2 DEF Readable
<1>5. CASE pattern = "slash"
  <2>1. format \in {"mdy", "dmy"}
    BY <1>1, <1>3, <1>5
  <2>2. ResolveDateOrder(cells) = format
    BY <1>3, <1>4, <2>1 DEF ResolveDateOrder
  <2>3. QED
    BY <1>5, <2>2 DEF TextFormat, cells
<1>6. CASE pattern = "iso"
  <2>1. format = "iso"
    BY <1>1, <1>3, <1>6
  <2>2. QED
    BY <1>6, <2>1 DEF TextFormat
<1>7. QED
  BY <1>5, <1>6

-----------------------------------------------------------------------------
(* What is parsed, whichever way.                                          *)

(* The days that the format of the layout reads.                           *)
DaysOf(file, outcome, rows) ==
    [i \in DOMAIN rows |-> Day(DateOf(file, outcome.layout.map, i), outcome.layout.format)]

(* The outcome is that of rows that stand for some of the lines.           *)
Stands(file, outcome, rows, names) ==
    /\ DOMAIN rows \subseteq Lines(file)
    /\ \A i \in DOMAIN rows : rows[i].amount = None \/ rows[i].amount \in Int
    /\ \E warned : outcome = Resolve(Lines(file) \ DOMAIN rows, rows, DaysOf(file, outcome, rows),
                                     Convention(names, rows), warned, outcome.layout)

LEMMA GridStands ==
    ASSUME NEW f \in File, IsGrid(Content[f]), NEW roles, NEW format, NEW warned
    PROVE  LET file == Content[f]
               outcome == ParseGridRows(file, roles, format, warned)
               rows == GridRows(file.lines, GridKept(file.lines, roles, format), roles)
           IN  /\ Stands(file, outcome, rows, DOMAIN roles)
               /\ outcome.layout.map = roles /\ outcome.layout.format = format
<1> DEFINE file == Content[f]
           kept == GridKept(file.lines, roles, format)
           rows == GridRows(file.lines, kept, roles)
           outcome == ParseGridRows(file, roles, format, warned)
           layout == Layout(roles, format, file.header)
           day == [i \in DOMAIN rows |-> Day(Column(file.lines[i], roles, "date"), format)]
           conv == Convention(DOMAIN roles, rows)
<1>1. outcome = Resolve(DOMAIN file.lines \ DOMAIN rows, rows, day, conv, warned, layout)
  BY DEF ParseGridRows, GridOutcome
<1>2. DOMAIN rows = kept /\ kept \subseteq DOMAIN file.lines
  BY DEF GridRows, GridKept
<1>3. \A i \in kept : rows[i].amount = ParseAmount(Column(file.lines[i], roles, "amount"))
  BY DEF GridRows
<1>4. ASSUME NEW i \in kept
      PROVE  rows[i].amount = None \/ rows[i].amount \in Int
  <2> DEFINE cell == Column(file.lines[i], roles, "amount")
  <2>1. \A c \in DOMAIN file.lines[i] :
            file.lines[i][c].kind = "amount" => file.lines[i][c].value \in Int
    BY <1>2, ContentAssumption
  <2>2. cell = Blank \/ \E c \in DOMAIN file.lines[i] : cell = file.lines[i][c]
    BY DEF Column
  <2>3. cell.kind = "amount" => cell.value \in Int
    BY <2>1, <2>2 DEF Blank
  <2> HIDE DEF cell
  <2>4. ParseAmount(cell) = None \/ ParseAmount(cell) \in Int
    BY <2>3 DEF ParseAmount
  <2>5. QED
    BY <1>3, <2>4 DEF cell
<1> HIDE DEF rows, conv, kept
<1>5. outcome.layout = layout
  BY <1>1 DEF Resolve, Outcome
<1>6. layout.map = roles /\ layout.format = format
  BY DEF Layout
<1>7. Lines(file) = DOMAIN file.lines
  BY DEF Lines
<1>8. \A i : DateOf(file, outcome.layout.map, i) = Column(file.lines[i], roles, "date")
  BY <1>5, <1>6 DEF DateOf
<1>9. day = DaysOf(file, outcome, rows)
  BY <1>5, <1>6, <1>8 DEF DaysOf
<1>10. outcome = Resolve(Lines(file) \ DOMAIN rows, rows, day, conv, warned, outcome.layout)
  BY <1>1, <1>5, <1>7
<1> HIDE DEF outcome, day, layout
<1>11. Stands(file, outcome, rows, DOMAIN roles)
  BY <1>2, <1>4, <1>7, <1>9, <1>10 DEF Stands, conv
<1>12. outcome.layout.map = roles /\ outcome.layout.format = format
  BY <1>5, <1>6
<1>13. QED
  BY <1>11, <1>12 DEF outcome, rows, kept

LEMMA TextStands ==
    ASSUME NEW f \in File, ~IsGrid(Content[f]), NEW pattern \in {"slash", "iso"},
           NEW format, NEW columns
    PROVE  LET file == Content[f]
               outcome == ParseText(file.lines, pattern, format, columns)
               rows == TextRows(file.lines, TextKept(file.lines, pattern, format), columns)
           IN  /\ Stands(file, outcome, rows, TextNames(columns))
               /\ outcome.layout.format = format
<1> DEFINE file == Content[f]
           lines == file.lines
           kept == TextKept(lines, pattern, format)
           rows == TextRows(lines, kept, columns)
           outcome == ParseText(lines, pattern, format, columns)
           roles == IF columns >= 2 THEN [amount |-> 0, balance |-> 1] ELSE [amount |-> 0]
           layout == Layout(roles, format, <<pattern, format, columns>>)
           day == [i \in DOMAIN rows |-> Day(lines[i].date, format)]
           conv == Convention(DOMAIN roles, rows)
<1>1. outcome = Resolve(Dated(lines) \ DOMAIN rows, rows, day, conv, FALSE, layout)
  BY DEF ParseText, TextOutcome
<1>2. DOMAIN rows = kept /\ kept \subseteq Dated(lines) /\ kept \subseteq DOMAIN lines
  BY DEF TextRows, TextKept, WithPattern, Dated
<1>3. ASSUME NEW i \in kept
      PROVE  rows[i].amount \in Int
  <2> DEFINE a == lines[i].amounts
  <2>1. a \in Seq(Int) /\ a # << >>
    BY <1>2, ContentAssumption DEF TextKept
  <2> HIDE DEF a
  <2>2. Len(a) \in Nat /\ Len(a) >= 1 /\ a[1] \in Int
    BY <2>1
  <2>3. Len(a) >= 2 => a[Len(a) - 1] \in Int
    BY <2>1, <2>2
  <2>4. rows[i].amount = IF columns >= 2 /\ Len(a) >= 2 THEN a[Len(a) - 1] ELSE a[1]
    BY DEF TextRows, a
  <2>5. QED
    BY <2>2, <2>3, <2>4
<1>4. DOMAIN roles = TextNames(columns)
  BY DEF TextNames
<1> HIDE DEF rows, conv, kept, roles
<1>5. outcome.layout = layout
  BY <1>1 DEF Resolve, Outcome
<1>6. layout.format = format
  BY DEF Layout
<1>7. Lines(file) = Dated(lines)
  BY DEF Lines
<1>8. \A i, map : DateOf(file, map, i) = lines[i].date
  BY DEF DateOf
<1>9. day = DaysOf(file, outcome, rows)
  BY <1>5, <1>6, <1>8 DEF DaysOf
<1>10. outcome = Resolve(Lines(file) \ DOMAIN rows, rows, day, conv, FALSE, outcome.layout)
  BY <1>1, <1>5, <1>7
<1> HIDE DEF outcome, day, layout
<1>11. Stands(file, outcome, rows, TextNames(columns))
  BY <1>2, <1>3, <1>4, <1>7, <1>9, <1>10 DEF Stands, conv
<1>12. outcome.layout.format = format
  BY <1>5, <1>6
<1>13. QED
  BY <1>11, <1>12 DEF outcome, rows, kept

-----------------------------------------------------------------------------
(* Lines of text: the pattern is one of the patterns there are.            *)

(* Of two sets of lines without a common one, one precedes the other.      *)
LEMMA FirstLine ==
    ASSUME NEW S \in SUBSET Nat, S # {}
    PROVE  \E i \in S : \A j \in S : i <= j
<1> DEFINE R == {ss \in Nat \X Nat : ss[1] < ss[2]}
<1>1. IsWellFoundedOn(R, Nat)
  BY NatLessThanWellFounded, Zenon DEF OpToRel
<1>2. \E i \in S : \A j \in S : <<j, i>> \notin R
  <2> HIDE DEF R
  <2> QED BY <1>1, WFMin
<1>3. \A i, j \in Nat : <<j, i>> \in R <=> j < i
  OBVIOUS
<1>4. PICK i \in S : \A j \in S : <<j, i>> \notin R
  BY <1>2
<1>5. ASSUME NEW j \in S
      PROVE  i <= j
  <2>1. j \in Nat /\ i \in Nat /\ <<j, i>> \notin R
    BY <1>4
  <2>2. ~(j < i)
    BY <1>3, <2>1
  <2>3. QED
    BY <2>1, <2>2
<1>6. QED
  BY <1>5

LEMMA OnePrecedes ==
    ASSUME NEW S \in SUBSET Nat, NEW T \in SUBSET Nat, IsFiniteSet(S), IsFiniteSet(T),
           S # {}, T # {}, S \cap T = {}
    PROVE  Precedes(S, T) \/ Precedes(T, S)
<1>1. Cardinality(S) \in Nat /\ Cardinality(T) \in Nat
  BY FS_CardinalityType
<1>2. PICK i \in S : \A j \in S : i <= j
  BY FirstLine
<1>3. PICK k \in T : \A j \in T : k <= j
  BY FirstLine
<1>4. i < k \/ k < i
  BY <1>2, <1>3
<1>5. CASE i < k
  <2>1. \A j \in T : i < j
    BY <1>3, <1>5
  <2>2. QED
    BY <1>1, <2>1 DEF Precedes
<1>6. CASE k < i
  <2>1. \A j \in S : k < j
    BY <1>2, <1>6
  <2>2. QED
    BY <1>1, <2>1 DEF Precedes
<1>7. QED
  BY <1>4, <1>5, <1>6

LEMMA DominantIsPattern ==
    ASSUME NEW f \in File, ~IsGrid(Content[f]), Dated(Content[f].lines) # {}
    PROVE  Dominant(Content[f].lines) \in {"slash", "iso"}
<1> DEFINE lines == Content[f].lines
           D == Dated(lines)
           N == {lines[i].pattern : i \in D}
           W(p) == WithPattern(lines, p)
           Best(p) == \A i \in D : lines[i].pattern # p => Precedes(W(p), W(lines[i].pattern))
<1>1. /\ Len(lines) \in Nat /\ DOMAIN lines = 1..Len(lines)
      /\ \A i \in DOMAIN lines : lines[i].pattern \in {"none", "slash", "iso"}
  BY ContentAssumption
<1>2. D \subseteq DOMAIN lines /\ N # {} /\ N \subseteq {"slash", "iso"}
  BY <1>1 DEF Dated
<1>3. \A p : W(p) \subseteq DOMAIN lines /\ IsFiniteSet(W(p)) /\ W(p) \in SUBSET Nat
  <2> TAKE p
  <2>1. W(p) \subseteq DOMAIN lines /\ IsFiniteSet(1..Len(lines))
    BY <1>1, FS_Interval DEF WithPattern
  <2>2. QED
    BY <1>1, <2>1, FS_Subset
<1>4. \A p \in N : W(p) # {}
  BY <1>2 DEF WithPattern
<1>5. W("slash") \cap W("iso") = {}
  BY DEF WithPattern
<1>6. \E p \in N : Best(p)
  <2>1. CASE N = {"slash", "iso"}
    <3>1. Precedes(W("slash"), W("iso")) \/ Precedes(W("iso"), W("slash"))
      <4>1. W("slash") # {} /\ W("iso") # {}
        BY <1>4, <2>1
      <4>2. QED
        BY <1>3, <1>5, <4>1, OnePrecedes
    <3>2. \A i \in D : lines[i].pattern \in {"slash", "iso"}
      BY <1>2
    <3>3. QED
      BY <2>1, <3>1, <3>2
  <2>2. CASE \E p : N = {p}
    <3>1. PICK p : N = {p}
      BY <2>2
    <3>2. \A i \in D : lines[i].pattern = p
      BY <3>1
    <3>3. QED
      BY <3>1, <3>2
  <2>3. N = {"slash", "iso"} \/ \E p : N = {p}
    <3> HIDE DEF N
    <3>1. ("slash" \in N /\ "iso" \in N) \/ "slash" \notin N \/ "iso" \notin N
      OBVIOUS
    <3>2. N = {"slash", "iso"} \/ N = {"slash"} \/ N = {"iso"}
      BY <1>2, <3>1
    <3>3. QED
      BY <3>2
  <2>4. QED
    BY <2>1, <2>2, <2>3
<1>7. Dominant(lines) = CHOOSE p \in N : Best(p)
  BY DEF Dominant
<1> HIDE DEF N, Best
<1>8. QED
  BY <1>2, <1>6, <1>7

LEMMA LinesFinite ==
    ASSUME NEW f \in File, NEW S, S \subseteq DOMAIN Content[f].lines
    PROVE  IsFiniteSet(S) /\ S \in SUBSET Nat
<1>1. Len(Content[f].lines) \in Nat /\ DOMAIN Content[f].lines = 1..Len(Content[f].lines)
  BY ContentAssumption
<1>2. IsFiniteSet(DOMAIN Content[f].lines)
  BY <1>1, FS_Interval
<1>3. QED
  BY <1>1, <1>2, FS_Subset

LEMMA CellsFinite ==
    ASSUME NEW f \in File
    PROVE  /\ \A roles : IsFiniteSet(DOMAIN DateCells(Content[f], roles))
           /\ \A p : IsFiniteSet(DOMAIN Sampled(Content[f].lines, p))
<1>1. ASSUME NEW roles
      PROVE  IsFiniteSet(DOMAIN DateCells(Content[f], roles))
  <2>1. DOMAIN DateCells(Content[f], roles) \subseteq DOMAIN Content[f].lines
    BY DEF DateCells, Sample
  <2>2. QED
    BY <2>1, LinesFinite
<1>2. ASSUME NEW p
      PROVE  IsFiniteSet(DOMAIN Sampled(Content[f].lines, p))
  <2>1. DOMAIN Sampled(Content[f].lines, p) \subseteq DOMAIN Content[f].lines
    BY DEF Sampled, Sample, WithPattern
  <2>2. QED
    BY <2>1, LinesFinite
<1>3. QED
  BY <1>1, <1>2

(* A file that is parsed from nothing.                                     *)
LEMMA ColdStands ==
    ASSUME NEW f \in Resolvable
    PROVE  LET file == Content[f]
               outcome == ColdParse[f]
           IN  /\ \E rows, names : Stands(file, outcome, rows, names)
               /\ outcome.layout.format \in ToSet(Format)
               /\ IsGrid(file) =>
                    /\ outcome.layout.format = DetectDateFormat(DateCells(file, outcome.layout.map))
                    /\ outcome.layout.format # "none"
               /\ ~IsGrid(file) =>
                    /\ Dominant(file.lines) \in {"slash", "iso"}
                    /\ outcome.layout.format =
                         TextFormat(Dominant(file.lines), Sampled(file.lines, Dominant(file.lines)))
<1> DEFINE file == Content[f]
           outcome == ColdParse[f]
<1>1. f \in File /\ ~Unresolvable(file)
  BY DEF Resolvable
<1>2. outcome = IF IsGrid(file) THEN ColdGrid(file) ELSE ParseTextLines(file.lines)
  BY DEF ColdParse
<1>3. CASE IsGrid(file)
  <2> DEFINE found == ClassifyColumns(file.header, file.lines)
             format == DetectDateFormat(DateCells(file, found.roles))
  <2>1. format # "none"
    BY <1>1, <1>3 DEF Unresolvable, GridUnresolvable
  <2>2. format \in ToSet(Format)
    BY <1>1, <2>1, CellsFinite, DetectedFormat
  <2>3. outcome = ParseGridRows(file, found.roles, format, found.warned)
    BY <1>2, <1>3 DEF ColdGrid, ParseGrid
  <2> HIDE DEF outcome, found
  <2>4. /\ \E rows, names : Stands(file, outcome, rows, names)
        /\ outcome.layout.map = found.roles /\ outcome.layout.format = format
    BY <1>1, <1>3, <2>3, GridStands
  <2>5. QED
    BY <1>3, <2>1, <2>2, <2>4 DEF outcome
<1>4. CASE ~IsGrid(file)
  <2> DEFINE D == Dominant(file.lines)
             format == TextFormat(D, Sampled(file.lines, D))
             columns == AmountsPerLine(Sampled(file.lines, D))
  <2>1. Dated(file.lines) # {}
    BY <1>1, <1>4 DEF Unresolvable, TextUnresolvable
  <2>2. D \in {"slash", "iso"}
    BY <1>1, <1>4, <2>1, DominantIsPattern
  <2>3. outcome = ParseText(file.lines, D, format, columns)
    BY <1>2, <1>4 DEF ParseTextLines
  <2>4. format \in ToSet(Format)
    BY FormatValues DEF TextFormat, ResolveDateOrder
  <2> HIDE DEF outcome, D, columns
  <2>5. /\ \E rows, names : Stands(file, outcome, rows, names)
        /\ outcome.layout.format = format
    BY <1>1, <1>4, <2>2, <2>3, TextStands
  <2>6. QED
    BY <1>4, <2>2, <2>4, <2>5 DEF outcome, D
<1>5. QED
  BY <1>3, <1>4

(* A file that is parsed with a profile.                                   *)
LEMMA ReuseStands ==
    ASSUME NEW f \in File, IsGrid(Content[f]), NEW profile, Fits(Content[f], profile)
    PROVE  LET file == Content[f]
               outcome == Reparse(f, profile)
           IN  /\ \E rows, names : Stands(file, outcome, rows, names)
               /\ outcome.layout.format = profile.format
               /\ DateFormatStillFits(DateCells(file, outcome.layout.map), profile.format)
<1> DEFINE file == Content[f]
           roles == RolesFromProfile(file, profile)
           outcome == Reparse(f, profile)
           warned == FALSE
<1>1. outcome = ParseGridRows(file, roles, profile.format, warned)
  BY DEF Reparse
<1>2. DateFormatStillFits(DateCells(file, roles), profile.format)
  BY DEF Fits
<1> HIDE DEF roles, outcome, warned
<1>3. /\ \E rows, names : Stands(file, outcome, rows, names)
      /\ outcome.layout.map = roles /\ outcome.layout.format = profile.format
  BY <1>1, GridStands
<1>4. QED
  BY <1>2, <1>3 DEF outcome

-----------------------------------------------------------------------------
(* The invariant.                                                          *)

(* A profile holds a date format.                                          *)
ProfilesOK ==
    /\ profiles \in Seq(ToSet(profiles))
    /\ \A k \in DOMAIN profiles :
        /\ DOMAIN profiles[k] = {"type", "print", "map", "format", "convention"}
        /\ profiles[k].format \in ToSet(Format)

(* What a request has parsed: its file from nothing, or with the profile   *)
(* it has read.                                                            *)
ReadAs(r) ==
    IF r.method = "profile_reuse" /\ IsGrid(Content[r.file])
    THEN /\ Fits(Content[r.file], r.read) /\ r.read.format \in ToSet(Format)
         /\ r.outcome = Reparse(r.file, r.read)
    ELSE r.file \in Resolvable /\ r.outcome = ColdParse[r.file]

(* A request, when there are n profiles.                                   *)
RequestOK(r, n) ==
    /\ DOMAIN r = {"pc", "file", "seen", "read", "method", "outcome"}
    /\ r.pc \in {"idle", "lookup", "select", "upsert", "done"}
    /\ IF r.pc = "idle" THEN r.file = NoFile ELSE r.file \in File
    /\ r.seen \in 0..n
    /\ r.method \in {"none", "profile_reuse", "cold_detection"}
    /\ r.pc # "done" => r.method = "none"
    /\ r.pc = "lookup" => IsGrid(Content[r.file]) \/ r.file \in Resolvable
    /\ r.pc \in {"select", "upsert"} \/ (r.pc = "done" /\ r.method # "none") => ReadAs(r)

PInv ==
    /\ ProfilesOK
    /\ proc = [p \in Process |-> proc[p]]
    /\ \A p \in Process : RequestOK(proc[p], Len(profiles))

(* What was parsed stands for the lines of the file, and its dates are     *)
(* read in the format that they prove.                                     *)
LEMMA ReadAsStands ==
    ASSUME NEW r, r.file \in File, ReadAs(r)
    PROVE  LET file == Content[r.file]
               cells == IF IsGrid(file) THEN DateCells(file, r.outcome.layout.map)
                        ELSE TextDates(Sampled(file.lines, Dominant(file.lines)))
           IN  /\ \E rows, names : Stands(file, r.outcome, rows, names)
               /\ r.outcome.layout.format \in ToSet(Format)
               /\ Proven(cells, file.format) => r.outcome.layout.format = file.format
<1> DEFINE f == r.file
           file == Content[f]
           outcome == r.outcome
           lines == file.lines
           D == Dominant(lines)
           dates == DateCells(file, outcome.layout.map)
<1>1. IsFiniteSet(DOMAIN dates) /\ IsFiniteSet(DOMAIN Sampled(lines, D))
  BY CellsFinite
<1>2. CASE r.method = "profile_reuse" /\ IsGrid(file)
  <2>1. /\ Fits(file, r.read) /\ r.read.format \in ToSet(Format)
        /\ outcome = Reparse(f, r.read)
    BY <1>2 DEF ReadAs
  <2> HIDE DEF f, outcome
  <2>2. /\ \E rows, names : Stands(file, outcome, rows, names)
        /\ outcome.layout.format = r.read.format
        /\ DateFormatStillFits(dates, r.read.format)
    BY <1>2, <2>1, ReuseStands DEF f
  <2>3. Proven(dates, file.format) => r.read.format = file.format
    BY <1>1, <2>1, <2>2, FitsProven
  <2>4. QED
    BY <1>2, <2>1, <2>2, <2>3 DEF f, outcome
<1>3. CASE ~(r.method = "profile_reuse" /\ IsGrid(file))
  <2>1. f \in Resolvable /\ outcome = ColdParse[f]
    BY <1>3 DEF ReadAs
  <2> HIDE DEF f, outcome
  <2>2. /\ \E rows, names : Stands(file, outcome, rows, names)
        /\ outcome.layout.format \in ToSet(Format)
        /\ IsGrid(file) => outcome.layout.format = DetectDateFormat(dates) /\ outcome.layout.format # "none"
        /\ ~IsGrid(file) => D \in {"slash", "iso"} /\ outcome.layout.format = TextFormat(D, Sampled(lines, D))
    BY <2>1, ColdStands
  <2>3. ASSUME IsGrid(file), Proven(dates, file.format)
        PROVE  outcome.layout.format = file.format
    <3> HIDE DEF dates
    <3> QED
      BY <1>1, <2>2, <2>3, DetectsProven
  <2>4. ASSUME ~IsGrid(file), Proven(TextDates(Sampled(lines, D)), file.format)
        PROVE  outcome.layout.format = file.format
    <3> DEFINE sampled == Sampled(lines, D)
    <3>1. \A i \in DOMAIN sampled : i \in DOMAIN lines /\ lines[i].pattern = D /\ sampled[i] = lines[i]
      BY DEF Sampled, Sample, WithPattern
    <3>2. \A i \in DOMAIN lines :
            /\ lines[i].pattern = "slash" => ~Reads(lines[i].date, "iso")
            /\ lines[i].pattern = "iso" => ~Reads(lines[i].date, "mdy") /\ ~Reads(lines[i].date, "dmy")
      BY <2>4, ContentAssumption DEF f
    <3>3. \A i \in DOMAIN sampled :
              /\ D = "slash" => ~Reads(sampled[i].date, "iso")
              /\ D = "iso" => ~Reads(sampled[i].date, "mdy") /\ ~Reads(sampled[i].date, "dmy")
      BY <3>1, <3>2
    <3> HIDE DEF sampled, D
    <3>4. TextFormat(D, sampled) = file.format
      BY <1>1, <2>2, <2>4, <3>3, TextProven DEF sampled
    <3>5. QED
      BY <2>2, <2>4, <3>4 DEF sampled
  <2>5. QED
    BY <2>2, <2>3, <2>4 DEF f, outcome
<1>4. QED
  BY <1>2, <1>3

LEMMA SeqOfItsOwn ==
    ASSUME NEW A, NEW s \in Seq(A)
    PROVE  s \in Seq(ToSet(s))
<1>1. Len(s) \in Nat /\ s \in [1..Len(s) -> A]
  OBVIOUS
<1>2. s \in [1..Len(s) -> ToSet(s)]
  BY <1>1 DEF ToSet
<1>3. QED
  BY <1>1, <1>2

LEMMA ProfileAppended ==
    ASSUME ProfilesOK, NEW new, profiles' = Append(profiles, new),
           DOMAIN new = {"type", "print", "map", "format", "convention"},
           new.format \in ToSet(Format)
    PROVE  ProfilesOK' /\ Len(profiles') = Len(profiles) + 1
<1> DEFINE A == ToSet(profiles) \cup {new}
<1>1. profiles \in Seq(A) /\ new \in A
  BY DEF ProfilesOK
<1>2. profiles' \in Seq(A) /\ Len(profiles') = Len(profiles) + 1
  BY <1>1
<1>3. profiles' \in Seq(ToSet(profiles'))
  BY <1>2, SeqOfItsOwn
<1>4. \A k \in DOMAIN profiles' : profiles'[k] = new \/ (k \in DOMAIN profiles /\ profiles'[k] = profiles[k])
  BY <1>1
<1>5. QED
  BY <1>2, <1>3, <1>4 DEF ProfilesOK

LEMMA ProfileUpdated ==
    ASSUME ProfilesOK, NEW k \in DOMAIN profiles, NEW row, profiles' = [profiles EXCEPT ![k] = row],
           DOMAIN row = {"type", "print", "map", "format", "convention"},
           row.format \in ToSet(Format)
    PROVE  ProfilesOK' /\ Len(profiles') = Len(profiles)
<1> DEFINE A == ToSet(profiles) \cup {row}
<1>1. profiles \in Seq(A) /\ row \in A
  BY DEF ProfilesOK
<1>2. profiles' \in Seq(A) /\ Len(profiles') = Len(profiles)
  BY <1>1
<1>3. profiles' \in Seq(ToSet(profiles'))
  BY <1>2, SeqOfItsOwn
<1>4. \A j \in DOMAIN profiles' : profiles'[j] = row \/ (j \in DOMAIN profiles /\ profiles'[j] = profiles[j])
  BY <1>1
<1>5. QED
  BY <1>2, <1>3, <1>4 DEF ProfilesOK

LEMMA RequestMoves ==
    ASSUME PInv, NEW p \in Process, NEW new, proc' = [proc EXCEPT ![p] = new],
           Len(profiles) <= Len(profiles'), Len(profiles') \in Nat, ProfilesOK',
           RequestOK(new, Len(profiles'))
    PROVE  PInv'
<1>1. proc' = [q \in Process |-> proc'[q]] /\ proc'[p] = new
  BY DEF PInv
<1>2. Len(profiles) \in Nat
  BY DEF PInv, ProfilesOK
<1>3. ASSUME NEW q \in Process
      PROVE  RequestOK(proc'[q], Len(profiles'))
  <2>1. CASE q = p
    BY <1>1, <2>1
  <2>2. CASE q # p
    <3>1. proc'[q] = proc[q]
      BY <2>2 DEF PInv
    <3>2. RequestOK(proc[q], Len(profiles))
      BY DEF PInv
    <3>3. 0..Len(profiles) \subseteq 0..Len(profiles')
      BY <1>2
    <3>4. QED
      BY <3>1, <3>2, <3>3 DEF RequestOK
  <2>3. QED
    BY <2>1, <2>2
<1>4. QED
  BY <1>1, <1>3 DEF PInv

LEMMA InitPInv == Init => PInv
<1> SUFFICES ASSUME Init PROVE PInv
  OBVIOUS
<1>1. profiles = << >> /\ proc = [p \in Process |-> Idle] /\ Len(profiles) = 0
  BY DEF Init
<1>2. ProfilesOK
  BY <1>1 DEF ProfilesOK
<1>3. RequestOK(Idle, 0)
  BY DEF RequestOK, Idle
<1>4. QED
  BY <1>1, <1>2, <1>3 DEF PInv

LEMMA CandidatesOf ==
    ASSUME NEW f, NEW k \in CandidatesFor(f)
    PROVE  k \in DOMAIN profiles
BY DEF CandidatesFor, Candidates, Exact

LEMMA NextPInv ==
    ASSUME PInv, [Next]_vars
    PROVE  PInv'
<1>1. Len(profiles) \in Nat /\ DOMAIN profiles = 1..Len(profiles) /\ ProfilesOK
  BY DEF PInv, ProfilesOK
<1>2. proc = [p \in Process |-> proc[p]] /\ \A p \in Process : RequestOK(proc[p], Len(profiles))
  BY DEF PInv
<1>3. ASSUME NEW p \in Process, NEW new, RequestOK(new, Len(profiles)),
             proc' = [proc EXCEPT ![p] = new], UNCHANGED profiles
      PROVE  PInv'
  <2>1. ProfilesOK' /\ Len(profiles') = Len(profiles)
    BY <1>1, <1>3 DEF ProfilesOK
  <2>2. Len(profiles) <= Len(profiles') /\ Len(profiles') \in Nat /\ RequestOK(new, Len(profiles'))
    BY <1>1, <1>3, <2>1
  <2>3. QED
    BY <1>3, <2>1, <2>2, RequestMoves
<1>4. ASSUME NEW p \in Process, NEW f \in File, Upload(p, f)
      PROVE  PInv'
  <2> DEFINE pc == IF ~IsGrid(Content[f]) /\ f \notin Resolvable THEN "done" ELSE "lookup"
             new == [Idle EXCEPT !.file = f, !.pc = pc]
  <2>1. proc' = [proc EXCEPT ![p] = new] /\ UNCHANGED profiles
    BY <1>4 DEF Upload
  <2>2. /\ DOMAIN new = {"pc", "file", "seen", "read", "method", "outcome"}
        /\ new.pc = pc /\ new.file = f /\ new.seen = 0 /\ new.method = "none"
    BY DEF Idle
  <2>3. pc = "done" \/ (pc = "lookup" /\ (IsGrid(Content[f]) \/ f \in Resolvable))
    OBVIOUS
  <2> HIDE DEF new, pc
  <2>4. RequestOK(new, Len(profiles))
    BY <1>1, <2>2, <2>3 DEF RequestOK
  <2>5. QED
    BY <1>3, <2>1, <2>4
<1>5. ASSUME NEW p \in Process, Reuse(p)
      PROVE  PInv'
  <2> DEFINE r == proc[p]
             file == Content[r.file]
  <2>1. PICK k \in CandidatesFor(r.file) :
            /\ IsGrid(file) => Fits(file, profiles[k])
            /\ proc' = [proc EXCEPT ![p].pc = "done", ![p].method = "profile_reuse",
                                    ![p].outcome = Reparse(r.file, profiles[k]),
                                    ![p].read = profiles[k]]
    BY <1>5 DEF Reuse
  <2> DEFINE new == [r EXCEPT !.pc = "done", !.method = "profile_reuse",
                              !.outcome = Reparse(r.file, profiles[k]), !.read = profiles[k]]
  <2>2. r.pc = "lookup" /\ UNCHANGED profiles
    BY <1>5 DEF Reuse
  <2>3. RequestOK(r, Len(profiles))
    BY <1>2
  <2>4. proc' = [proc EXCEPT ![p] = new]
    BY <1>2, <2>1
  <2>5. /\ DOMAIN new = {"pc", "file", "seen", "read", "method", "outcome"}
        /\ new.pc = "done" /\ new.file = r.file /\ new.seen = r.seen
        /\ new.method = "profile_reuse" /\ new.read = profiles[k]
        /\ new.outcome = Reparse(r.file, profiles[k])
    BY <2>3 DEF RequestOK
  <2> HIDE DEF new
  <2>6. ReadAs(new)
    <3>1. profiles[k].format \in ToSet(Format)
      BY <1>1, CandidatesOf DEF ProfilesOK
    <3>2. ~IsGrid(file) => r.file \in Resolvable /\ Reparse(r.file, profiles[k]) = ColdParse[r.file]
      BY <2>2, <2>3 DEF RequestOK, Reparse
    <3>3. QED
      BY <2>1, <2>5, <3>1, <3>2 DEF ReadAs
  <2>7. RequestOK(new, Len(profiles))
    BY <2>2, <2>3, <2>5, <2>6 DEF RequestOK
  <2>8. QED
    BY <1>3, <2>2, <2>4, <2>7
<1>6. ASSUME NEW p \in Process, Cold(p)
      PROVE  PInv'
  <2> DEFINE r == proc[p]
             f == r.file
  <2>1. PICK k \in IF CandidatesFor(f) = {} THEN {0} ELSE CandidatesFor(f) :
            proc' = [proc EXCEPT ![p] =
                 IF f \in Resolvable
                 THEN [@ EXCEPT !.pc = "select", !.seen = k,
                                !.read = IF k = 0 THEN NoProfile ELSE profiles[k],
                                !.outcome = ColdParse[f]]
                 ELSE [@ EXCEPT !.pc = "done"]]
    BY <1>6 DEF Cold
  <2> DEFINE read == IF k = 0 THEN NoProfile ELSE profiles[k]
             selects == [r EXCEPT !.pc = "select", !.seen = k, !.read = read,
                                  !.outcome = ColdParse[f]]
             fails == [r EXCEPT !.pc = "done"]
  <2>2. r.pc = "lookup" /\ UNCHANGED profiles
    BY <1>6 DEF Cold
  <2>3. RequestOK(r, Len(profiles))
    BY <1>2
  <2>4. k \in 0..Len(profiles)
    <3>1. k = 0 \/ k \in DOMAIN profiles
      BY CandidatesOf
    <3>2. QED
      BY <1>1, <3>1
  <2>5. CASE f \in Resolvable
    <3>1. proc' = [proc EXCEPT ![p] = selects]
      BY <1>2, <2>1, <2>5
    <3>2. /\ DOMAIN selects = {"pc", "file", "seen", "read", "method", "outcome"}
          /\ selects.pc = "select" /\ selects.file = f /\ selects.seen = k
          /\ selects.method = r.method /\ selects.outcome = ColdParse[f]
      BY <2>3 DEF RequestOK
    <3> HIDE DEF selects, read
    <3>3. RequestOK(selects, Len(profiles))
      BY <2>2, <2>3, <2>4, <2>5, <3>2 DEF RequestOK, ReadAs
    <3>4. QED
      BY <1>3, <2>2, <3>1, <3>3
  <2>6. CASE f \notin Resolvable
    <3>1. proc' = [proc EXCEPT ![p] = fails]
      BY <1>2, <2>1, <2>6
    <3>2. /\ DOMAIN fails = {"pc", "file", "seen", "read", "method", "outcome"}
          /\ fails.pc = "done" /\ fails.file = f /\ fails.seen = r.seen
          /\ fails.method = r.method
      BY <2>3 DEF RequestOK
    <3> HIDE DEF fails
    <3>3. RequestOK(fails, Len(profiles))
      BY <2>2, <2>3, <3>2 DEF RequestOK
    <3>4. QED
      BY <1>3, <2>2, <3>1, <3>3
  <2>7. QED
    BY <2>5, <2>6
<1>7. ASSUME NEW p \in Process, UpsertSelect(p)
      PROVE  PInv'
  <2> DEFINE r == proc[p]
             found == Exact(ProfileType(Content[r.file]), r.outcome.layout.print)
  <2>1. PICK k \in IF found = {} THEN {0} ELSE found :
            proc' = [proc EXCEPT ![p].pc = "upsert", ![p].seen = k,
                       ![p].read = IF k = 0 THEN NoProfile
                                   ELSE IF k = proc[p].seen THEN @ ELSE profiles[k]]
    BY <1>7 DEF UpsertSelect
  <2> DEFINE read == IF k = 0 THEN NoProfile ELSE IF k = r.seen THEN r.read ELSE profiles[k]
             new == [r EXCEPT !.pc = "upsert", !.seen = k, !.read = read]
  <2>2. r.pc = "select" /\ UNCHANGED profiles
    BY <1>7 DEF UpsertSelect
  <2>3. RequestOK(r, Len(profiles))
    BY <1>2
  <2>4. proc' = [proc EXCEPT ![p] = new]
    BY <1>2, <2>1
  <2>5. k \in 0..Len(profiles)
    <3>1. k = 0 \/ k \in DOMAIN profiles
      BY DEF Exact
    <3>2. QED
      BY <1>1, <3>1
  <2>6. /\ DOMAIN new = {"pc", "file", "seen", "read", "method", "outcome"}
        /\ new.pc = "upsert" /\ new.file = r.file /\ new.seen = k
        /\ new.method = r.method /\ new.outcome = r.outcome
    BY <2>3 DEF RequestOK
  <2> HIDE DEF new, read, found
  <2>7. RequestOK(new, Len(profiles))
    BY <2>2, <2>3, <2>5, <2>6 DEF RequestOK, ReadAs
  <2>8. QED
    BY <1>3, <2>2, <2>4, <2>7
<1>8. ASSUME NEW p \in Process, UpsertCommit(p)
      PROVE  PInv'
  <2> DEFINE r == proc[p]
             learned == Learned(Content[r.file], r.outcome)
             new == [r EXCEPT !.pc = "done", !.method = "cold_detection",
                              !.seen = 0, !.read = NoProfile]
  <2>1. RequestOK(r, Len(profiles)) /\ r.pc = "upsert"
    BY <1>2, <1>8 DEF UpsertCommit
  <2>2. proc' = [proc EXCEPT ![p] = new]
    BY <1>2, <1>8 DEF UpsertCommit
  <2>3. /\ DOMAIN new = {"pc", "file", "seen", "read", "method", "outcome"}
        /\ new.pc = "done" /\ new.file = r.file /\ new.seen = 0
        /\ new.method = "cold_detection" /\ new.outcome = r.outcome
    BY <2>1 DEF RequestOK
  <2> HIDE DEF new
  <2>4. r.file \in Resolvable /\ r.outcome = ColdParse[r.file] /\ ReadAs(new)
    BY <2>1, <2>3 DEF RequestOK, ReadAs
  <2>5. /\ DOMAIN learned = {"type", "print", "map", "format", "convention"}
        /\ learned.format \in ToSet(Format)
    <3>1. r.outcome.layout.format \in ToSet(Format)
      BY <2>4, ColdStands
    <3>2. QED
      BY <3>1 DEF Learned
  <2>6. CASE r.seen = 0
    <3>1. profiles' = Append(profiles, learned)
      BY <1>8, <2>6 DEF UpsertCommit
    <3> HIDE DEF learned
    <3>2. ProfilesOK' /\ Len(profiles') = Len(profiles) + 1
      BY <1>1, <2>5, <3>1, ProfileAppended
    <3>3. Len(profiles') \in Nat /\ Len(profiles) <= Len(profiles')
      BY <1>1, <3>2
    <3>4. RequestOK(new, Len(profiles'))
      BY <2>1, <2>3, <2>4, <3>3 DEF RequestOK
    <3>5. QED
      BY <2>2, <3>2, <3>3, <3>4, RequestMoves
  <2>7. CASE r.seen # 0
    <3> DEFINE old == profiles[r.seen]
               row == [c \in DOMAIN old |-> IF learned[c] = r.read[c] THEN old[c] ELSE learned[c]]
    <3>1. profiles' = [profiles EXCEPT ![r.seen] = row]
      BY <1>8, <2>7 DEF UpsertCommit
    <3>2. r.seen \in DOMAIN profiles
      BY <1>1, <2>1, <2>7 DEF RequestOK
    <3>3. DOMAIN old = {"type", "print", "map", "format", "convention"} /\ old.format \in ToSet(Format)
      BY <1>1, <3>2 DEF ProfilesOK
    <3> HIDE DEF learned, old
    <3>4. DOMAIN row = {"type", "print", "map", "format", "convention"} /\ row.format \in ToSet(Format)
      BY <2>5, <3>3
    <3> HIDE DEF row
    <3>5. ProfilesOK' /\ Len(profiles') = Len(profiles)
      BY <1>1, <3>1, <3>2, <3>4, ProfileUpdated
    <3>6. Len(profiles') \in Nat /\ Len(profiles) <= Len(profiles')
      BY <1>1, <3>5
    <3>7. RequestOK(new, Len(profiles'))
      BY <2>1, <2>3, <2>4, <3>6 DEF RequestOK
    <3>8. QED
      BY <2>2, <3>5, <3>6, <3>7, RequestMoves
  <2>8. QED
    BY <2>6, <2>7
<1>9. ASSUME NEW p \in Process, Finish(p)
      PROVE  PInv'
  <2>1. proc' = [proc EXCEPT ![p] = Idle] /\ UNCHANGED profiles
    BY <1>9 DEF Finish
  <2>2. RequestOK(Idle, Len(profiles))
    BY <1>1 DEF RequestOK, Idle
  <2>3. QED
    BY <1>3, <2>1, <2>2
<1>10. CASE UNCHANGED vars
  BY <1>10 DEF vars, PInv, ProfilesOK
<1>11. QED
  BY <1>4, <1>5, <1>6, <1>7, <1>8, <1>9, <1>10 DEF Next

-----------------------------------------------------------------------------
(* What the rows of an outcome tell.                                       *)

LEMMA StandsConvention ==
    ASSUME NEW file, NEW outcome, NEW rows, NEW names, Stands(file, outcome, rows, names)
    PROVE  outcome.convention = Convention(names, rows)
<1> DEFINE conv == Convention(names, rows)
<1>1. PICK warned : outcome = Resolve(Lines(file) \ DOMAIN rows, rows,
                                      DaysOf(file, outcome, rows), conv, warned, outcome.layout)
  BY DEF Stands
<1> HIDE DEF conv
<1>2. QED
  BY <1>1 DEF Resolve, Outcome, conv

LEMMA StandsRows ==
    ASSUME NEW file, NEW outcome, NEW rows, NEW names, Stands(file, outcome, rows, names)
    PROVE  LET day == DaysOf(file, outcome, rows)
               signed == Signed(outcome.convention, rows, day)
           IN  /\ DOMAIN signed \subseteq DOMAIN rows
               /\ outcome.rows = [i \in DOMAIN signed |->
                       [day |-> day[i], amount |-> signed[i], balance |-> rows[i].balance]]
               /\ outcome.failed = (Lines(file) \ DOMAIN rows) \cup (DOMAIN rows \ DOMAIN signed)
<1> DEFINE day == DaysOf(file, outcome, rows)
           conv == Convention(names, rows)
           signed == Signed(conv, rows, day)
           refused == Lines(file) \ DOMAIN rows
<1>1. PICK warned : outcome = Resolve(refused, rows, day, conv, warned, outcome.layout)
  BY DEF Stands
<1>2. DOMAIN signed \subseteq DOMAIN rows
  BY DEF Signed, Moving, Amounted
<1>3. outcome.convention = conv
  BY StandsConvention
<1> HIDE DEF day, conv, refused
<1>4. /\ outcome.rows = [i \in DOMAIN signed |->
              [day |-> day[i], amount |-> signed[i], balance |-> rows[i].balance]]
      /\ outcome.failed = refused \cup (DOMAIN rows \ DOMAIN signed)
  <2> HIDE DEF signed
  <2>1. outcome = Outcome(refused, rows, day, signed, conv, warned, outcome.layout)
    BY <1>1 DEF Resolve, signed
  <2>2. QED
    BY <2>1 DEF Outcome
<1>5. QED
  BY <1>2, <1>3, <1>4 DEF day, refused

LEMMA StandsWarned ==
    ASSUME NEW file, NEW outcome, NEW rows, NEW names, Stands(file, outcome, rows, names),
           ~outcome.warned
    PROVE  ~Warned(outcome.convention, rows, DaysOf(file, outcome, rows))
<1> DEFINE day == DaysOf(file, outcome, rows)
           conv == Convention(names, rows)
<1>1. PICK warned : outcome = Resolve(Lines(file) \ DOMAIN rows, rows, day, conv, warned,
                                      outcome.layout)
  BY DEF Stands
<1>2. outcome.convention = conv
  BY StandsConvention
<1> HIDE DEF day, conv
<1>3. outcome.warned = (warned \/ Warned(conv, rows, day))
  BY <1>1 DEF Resolve, Outcome
<1>4. QED
  BY <1>2, <1>3 DEF day

(* Of the rows before a row, one is the last.                              *)
LastEarlier(rows, day) ==
    \A i \in Chained(rows) : Earlier(i, rows, day) # {} =>
        \E j \in Earlier(i, rows, day) :
            \A k \in Earlier(i, rows, day) \ {j} : Before(k, j, day)

LEMMA OldestFirstLast ==
    ASSUME NEW rows, NEW meant, NEW day, NEW n \in Nat, OldestFirst(rows, meant, day, n)
    PROVE  LastEarlier(rows, day)
<1>1. /\ Printed(rows, meant, n)
      /\ \A k \in 1..n : day[k] \in Int
      /\ \A k, l \in 1..n : k < l => day[k] <= day[l]
  BY DEF OldestFirst
<1>2. \A k, l \in 1..n : Before(k, l, day) <=> k < l
  BY <1>1 DEF Before
<1>3. Chained(rows) = 1..n
  BY <1>1, AllChained
<1>4. ASSUME NEW i \in 1..n, Earlier(i, rows, day) # {}
      PROVE  \E j \in Earlier(i, rows, day) :
                 \A k \in Earlier(i, rows, day) \ {j} : Before(k, j, day)
  <2>1. Earlier(i, rows, day) = 1..(i - 1)
    BY <1>2, <1>3 DEF Earlier
  <2>2. i - 1 \in Earlier(i, rows, day)
    BY <1>4, <2>1
  <2>3. \A k \in Earlier(i, rows, day) \ {i - 1} : Before(k, i - 1, day)
    BY <1>2, <2>1, <2>2
  <2>4. QED
    BY <2>2, <2>3
<1>5. QED
  BY <1>3, <1>4 DEF LastEarlier

LEMMA NewestFirstLast ==
    ASSUME NEW rows, NEW meant, NEW day, NEW n \in Nat, NewestFirst(rows, meant, day, n)
    PROVE  LastEarlier(rows, day)
<1>1. /\ Printed(rows, meant, n)
      /\ \A k \in 1..n : day[k] \in Int
      /\ \A k, l \in 1..n : k < l => day[k] > day[l]
  BY DEF NewestFirst
<1>2. \A k, l \in 1..n : Before(k, l, day) <=> l < k
  BY <1>1 DEF Before
<1>3. Chained(rows) = 1..n
  BY <1>1, AllChained
<1>4. ASSUME NEW i \in 1..n, Earlier(i, rows, day) # {}
      PROVE  \E j \in Earlier(i, rows, day) :
                 \A k \in Earlier(i, rows, day) \ {j} : Before(k, j, day)
  <2>1. Earlier(i, rows, day) = (i + 1)..n
    BY <1>2, <1>3 DEF Earlier
  <2>2. i + 1 \in Earlier(i, rows, day)
    BY <1>4, <2>1
  <2>3. \A k \in Earlier(i, rows, day) \ {i + 1} : Before(k, i + 1, day)
    BY <1>2, <2>1, <2>2
  <2>4. QED
    BY <2>2, <2>3
<1>5. QED
  BY <1>3, <1>4 DEF LastEarlier

(* The signs depend on the rows that have an amount.                       *)
LEMMA SignedSame ==
    ASSUME NEW rows, NEW day, NEW rows2, NEW day2,
           Amounted(rows2) = Amounted(rows), LastEarlier(rows2, day2),
           \A i \in Amounted(rows) :
              /\ rows2[i].amount = rows[i].amount /\ rows2[i].balance = rows[i].balance
              /\ day2[i] = day[i]
    PROVE  Signed("single_column_balance_inferred", rows2, day2)
             = Signed("single_column_balance_inferred", rows, day)
<1>1. Chained(rows2) = Chained(rows) /\ Chained(rows) \subseteq Amounted(rows)
  BY DEF Chained
<1>2. \A i, j \in Chained(rows) : Before(i, j, day2) <=> Before(i, j, day)
  BY <1>1 DEF Before
<1>3. \A i \in Chained(rows) : Earlier(i, rows2, day2) = Earlier(i, rows, day)
  BY <1>1, <1>2 DEF Earlier
<1>4. ASSUME NEW i \in Chained(rows), Earlier(i, rows, day) # {}
      PROVE  Delta(i, rows2, day2) = Delta(i, rows, day)
  <2> DEFINE E == Earlier(i, rows, day)
             last == CHOOSE j \in E : \A k \in E \ {j} : Before(k, j, day)
             last2 == CHOOSE j \in E : \A k \in E \ {j} : Before(k, j, day2)
  <2>1. E \subseteq Chained(rows)
    BY DEF Earlier
  <2>2. \A j \in E : \A k \in E : Before(k, j, day2) <=> Before(k, j, day)
    BY <1>2, <2>1
  <2>3. Delta(i, rows, day) = rows[i].balance - rows[last].balance
    BY DEF Delta
  <2>4. Delta(i, rows2, day2) = rows2[i].balance - rows2[last2].balance
    BY <1>3 DEF Delta
  <2>5. last2 = last
    <3> HIDE DEF E
    <3> QED BY <2>2
  <2>6. last2 \in E
    <3>1. \E j \in E : \A k \in E \ {j} : Before(k, j, day2)
      BY <1>1, <1>3, <1>4 DEF LastEarlier
    <3> HIDE DEF E
    <3>2. QED
      BY <3>1
  <2> HIDE DEF last, last2, E
  <2>7. QED
    BY <1>1, <2>1, <2>3, <2>4, <2>5, <2>6
<1>5. Inferred(rows2, day2) = Inferred(rows, day)
  BY <1>1, <1>3, <1>4 DEF Inferred
<1>6. InflowRows("single_column_balance_inferred", rows2, day2)
        = InflowRows("single_column_balance_inferred", rows, day)
  <2>1. \A i \in Inferred(rows, day) : Delta(i, rows2, day2) = Delta(i, rows, day)
    BY <1>4 DEF Inferred
  <2>2. QED
    BY <1>5, <2>1 DEF InflowRows
<1>7. QED
  BY <1>6 DEF Signed

(* The two orders that BalanceTellsSign is about.                          *)
LEMMA BalanceTells ==
    ASSUME NEW file, file.meant \in Seq(Int), NEW outcome, NEW rows, NEW names,
           Stands(file, outcome, rows, names),
           outcome.convention = "single_column_balance_inferred"
    PROVE  LET out == outcome.rows
               n == Len(file.meant)
               day == [i \in DOMAIN out |-> out[i].day]
               signed == [i \in DOMAIN out |-> out[i].amount]
               printed == [i \in DOMAIN out |->
                             [amount |-> Magnitude(out[i].amount), balance |-> out[i].balance]]
           IN  /\ OldestFirst(printed, file.meant, day, n) => SignTold(signed, file.meant, n, 1)
               /\ NewestFirst(printed, file.meant, day, n) => SignTold(signed, file.meant, n, n)
<1> DEFINE out == outcome.rows
           meant == file.meant
           n == Len(meant)
           day2 == [i \in DOMAIN out |-> out[i].day]
           signed2 == [i \in DOMAIN out |-> out[i].amount]
           printed == [i \in DOMAIN out |->
                         [amount |-> Magnitude(out[i].amount), balance |-> out[i].balance]]
           inferred == "single_column_balance_inferred"
           day == DaysOf(file, outcome, rows)
           signed == Signed(inferred, rows, day)
<1>1. n \in Nat
  OBVIOUS
<1>2. /\ inferred = Convention(names, rows)
      /\ DOMAIN signed \subseteq DOMAIN rows
      /\ out = [i \in DOMAIN signed |->
                  [day |-> day[i], amount |-> signed[i], balance |-> rows[i].balance]]
  <2> HIDE DEF day
  <2>1. inferred = Convention(names, rows)
    BY StandsConvention
  <2> DEFINE s == Signed(outcome.convention, rows, day)
  <2>2. /\ DOMAIN s \subseteq DOMAIN rows
        /\ out = [i \in DOMAIN s |-> [day |-> day[i], amount |-> s[i], balance |-> rows[i].balance]]
    BY StandsRows DEF day
  <2>3. s = signed
    OBVIOUS
  <2> HIDE DEF s, signed
  <2>4. QED
    BY <2>1, <2>2, <2>3
<1>3. /\ DOMAIN signed = Amounted(rows)
      /\ \A i \in Amounted(rows) :
            signed[i] = Magnitude(rows[i].amount) \/ signed[i] = -Magnitude(rows[i].amount)
  BY DEF Signed
<1>4. \A i \in Amounted(rows) : ~(rows[i].amount < 0)
  <2> SUFFICES ASSUME \E i \in Amounted(rows) : rows[i].amount < 0
               PROVE  FALSE
    OBVIOUS
  <2>1. Convention(names, rows) \in {"separate_debit_credit_columns", "debit_negative_single_column"}
    BY DEF Convention
  <2>2. QED
    BY <1>2, <2>1
<1>5. \A i \in Amounted(rows) : rows[i].amount \in Int
  BY DEF Stands, Amounted
<1>6. \A i \in Amounted(rows) : rows[i].amount # None
  BY DEF Amounted
<1> HIDE DEF day, signed, inferred
<1>7. DOMAIN out = Amounted(rows) /\ DOMAIN printed = Amounted(rows)
  BY <1>2, <1>3
<1>8. ASSUME NEW i \in Amounted(rows)
      PROVE  /\ printed[i].amount = rows[i].amount /\ printed[i].balance = rows[i].balance
             /\ day2[i] = day[i] /\ signed2[i] = signed[i]
  <2>1. out[i] = [day |-> day[i], amount |-> signed[i], balance |-> rows[i].balance]
    BY <1>2, <1>3
  <2>2. rows[i].amount \in Int /\ ~(rows[i].amount < 0)
    BY <1>4, <1>5
  <2>3. Magnitude(rows[i].amount) = rows[i].amount
    BY <2>2 DEF Magnitude
  <2>4. signed[i] = rows[i].amount \/ signed[i] = 0 - rows[i].amount
    BY <1>3, <2>2, <2>3
  <2>5. Magnitude(signed[i]) = rows[i].amount
    BY <2>2, <2>4 DEF Magnitude
  <2>6. printed[i] = [amount |-> Magnitude(out[i].amount), balance |-> out[i].balance]
    BY <1>7
  <2> HIDE DEF printed
  <2>7. QED
    BY <1>7, <2>1, <2>5, <2>6
<1> HIDE DEF printed, day2
<1>9. Amounted(printed) = Amounted(rows)
  BY <1>6, <1>7, <1>8 DEF Amounted
<1>10. LastEarlier(printed, day2) => Signed(inferred, printed, day2) = signed
  <2> SUFFICES ASSUME LastEarlier(printed, day2)
               PROVE  Signed(inferred, printed, day2) = signed
    OBVIOUS
  <2>1. \A i \in Amounted(rows) :
            /\ printed[i].amount = rows[i].amount /\ printed[i].balance = rows[i].balance
            /\ day2[i] = day[i]
    BY <1>8
  <2>2. QED
    BY <1>9, <2>1, SignedSame DEF signed, inferred
<1>11. signed2 = signed
  <2>1. DOMAIN signed2 = DOMAIN signed /\ \A i \in DOMAIN signed : signed2[i] = signed[i]
    BY <1>3, <1>7, <1>8
  <2>2. signed = [i \in DOMAIN signed |-> signed[i]]
    BY <1>2 DEF signed, Signed, inferred
  <2>3. signed2 = [i \in DOMAIN signed2 |-> signed2[i]]
    OBVIOUS
  <2> HIDE DEF signed2
  <2>4. QED
    BY <2>1, <2>2, <2>3
<1> HIDE DEF signed2, n
<1>12. ASSUME OldestFirst(printed, meant, day2, n)
       PROVE  SignTold(signed2, meant, n, 1)
  BY <1>1, <1>10, <1>11, <1>12, OldestFirstLast, OldestFirstTold DEF inferred
<1>13. ASSUME NewestFirst(printed, meant, day2, n)
       PROVE  SignTold(signed2, meant, n, n)
  BY <1>1, <1>10, <1>11, <1>13, NewestFirstLast, NewestFirstTold DEF inferred
<1>14. QED
  BY <1>12, <1>13 DEF printed, day2, signed2, n

THEOREM ParsingInvariant == Spec => []PInv
<1>1. Init => PInv
  BY InitPInv
<1>2. PInv /\ [Next]_vars => PInv'
  BY NextPInv
<1>3. QED
  BY <1>1, <1>2, PTL DEF Spec

(* Profiles hold one of the date formats the code knows, whoever taught    *)
(* them, and a request that is to update a profile has a row to update     *)
(* (profile_service.py:109-159).                                           *)
THEOREM TypeCorrect == Spec => []TypeOK
<1>1. PInv => TypeOK
  <2> SUFFICES ASSUME PInv PROVE TypeOK
    OBVIOUS
  <2>1. ASSUME NEW p \in Process
        PROVE  /\ proc[p].pc \in {"idle", "lookup", "select", "upsert", "done"}
               /\ proc[p].file \in File \cup {NoFile}
               /\ proc[p].seen \in 0..Len(profiles)
               /\ proc[p].method \in {"none", "profile_reuse", "cold_detection"}
    BY DEF PInv, RequestOK
  <2>2. QED
    BY <2>1 DEF PInv, ProfilesOK, TypeOK
<1>2. QED
  BY <1>1, ParsingInvariant, PTL

LEMMA ParsedAsRead ==
    ASSUME PInv, NEW p \in Process, Parsed(p)
    PROVE  proc[p].file \in File /\ ReadAs(proc[p])
BY DEF PInv, RequestOK, Parsed

(* No data line is dropped or counted twice: it becomes a transaction or a *)
(* failure for review, for every file, layout and profile                  *)
(* (pipeline.py:15-20, grid_parser.py, pdf_text_parser.py).                *)
THEOREM NoLineDropped == Spec => []EveryLineAccounted
<1>1. ASSUME PInv, NEW p \in Process, Parsed(p)
      PROVE  /\ DOMAIN proc[p].outcome.rows \cup proc[p].outcome.failed
                  = Lines(Content[proc[p].file])
             /\ DOMAIN proc[p].outcome.rows \cap proc[p].outcome.failed = {}
  <2> DEFINE file == Content[proc[p].file]
             outcome == proc[p].outcome
  <2>1. PICK rows, names : Stands(file, outcome, rows, names)
    BY <1>1, ParsedAsRead, ReadAsStands
  <2> DEFINE signed == Signed(outcome.convention, rows, DaysOf(file, outcome, rows))
  <2>2. DOMAIN rows \subseteq Lines(file)
    BY <2>1 DEF Stands
  <2> HIDE DEF file, outcome
  <2>3. /\ DOMAIN signed \subseteq DOMAIN rows
        /\ outcome.rows = [i \in DOMAIN signed |->
              [day |-> DaysOf(file, outcome, rows)[i], amount |-> signed[i], balance |-> rows[i].balance]]
        /\ outcome.failed = (Lines(file) \ DOMAIN rows) \cup (DOMAIN rows \ DOMAIN signed)
    BY <2>1, StandsRows
  <2> HIDE DEF signed
  <2>4. DOMAIN outcome.rows \cup outcome.failed = Lines(file) /\ DOMAIN outcome.rows \cap outcome.failed = {}
    BY <2>2, <2>3
  <2>5. QED
    BY <2>4 DEF file, outcome
<1>2. PInv => EveryLineAccounted
  BY <1>1 DEF EveryLineAccounted
<1>3. QED
  BY <1>2, ParsingInvariant, PTL

(* A file in which more than a fifth of the sampled dates prove their      *)
(* format has all its dates right, whatever profile was learned before it, *)
(* and whichever of the two detectors reads it                             *)
(* (profile_service.py:97-106, text_utils.py:72-95).                       *)
THEOREM ProvenDatesAreRight == Spec => []ProvenDatesRight
<1>1. ASSUME PInv, NEW p \in Process, Parsed(p),
             LET file == Content[proc[p].file]
             IN  Proven(IF IsGrid(file) THEN DateCells(file, proc[p].outcome.layout.map)
                        ELSE TextDates(Sampled(file.lines, Dominant(file.lines))), file.format),
             NEW i \in DOMAIN proc[p].outcome.rows
      PROVE  proc[p].outcome.rows[i].day =
                Day(DateOf(Content[proc[p].file], proc[p].outcome.layout.map, i),
                    Content[proc[p].file].format)
  <2> DEFINE file == Content[proc[p].file]
             outcome == proc[p].outcome
  <2>1. /\ \E rows, names : Stands(file, outcome, rows, names)
        /\ outcome.layout.format = file.format
    BY <1>1, ParsedAsRead, ReadAsStands
  <2>2. PICK rows, names : Stands(file, outcome, rows, names)
    BY <2>1
  <2>3. i \in DOMAIN outcome.rows
    BY <1>1
  <2> DEFINE signed == Signed(outcome.convention, rows, DaysOf(file, outcome, rows))
  <2> HIDE DEF file, outcome
  <2>4. /\ DOMAIN signed \subseteq DOMAIN rows
        /\ outcome.rows = [j \in DOMAIN signed |->
              [day |-> DaysOf(file, outcome, rows)[j], amount |-> signed[j], balance |-> rows[j].balance]]
    BY <2>2, StandsRows
  <2> HIDE DEF signed
  <2>5. i \in DOMAIN rows /\ outcome.rows[i].day = DaysOf(file, outcome, rows)[i]
    BY <2>3, <2>4
  <2>6. outcome.rows[i].day = Day(DateOf(file, outcome.layout.map, i), file.format)
    BY <2>1, <2>5 DEF DaysOf
  <2>7. QED
    BY <2>6 DEF file, outcome
<1>2. PInv => ProvenDatesRight
  BY <1>1 DEF ProvenDatesRight, Proven
<1>3. QED
  BY <1>2, ParsingInvariant, PTL

(* The balance column tells every sign but that of the oldest row, in      *)
(* every file whose rows are a ledger, oldest first or newest first        *)
(* (sign_convention.py:88-131).                                            *)
THEOREM BalanceTellsEverySign == Spec => []BalanceTellsSign
<1>1. ASSUME PInv, NEW p \in Process, Parsed(p),
             proc[p].outcome.convention = "single_column_balance_inferred"
      PROVE  LET rows == proc[p].outcome.rows
                 meant == Content[proc[p].file].meant
                 n == Len(meant)
                 day == [i \in DOMAIN rows |-> rows[i].day]
                 signed == [i \in DOMAIN rows |-> rows[i].amount]
                 printed == [i \in DOMAIN rows |->
                              [amount |-> Magnitude(rows[i].amount), balance |-> rows[i].balance]]
             IN  /\ OldestFirst(printed, meant, day, n) => SignTold(signed, meant, n, 1)
                 /\ NewestFirst(printed, meant, day, n) => SignTold(signed, meant, n, n)
  <2> DEFINE file == Content[proc[p].file]
             outcome == proc[p].outcome
  <2>1. PICK rows, names : Stands(file, outcome, rows, names)
    BY <1>1, ParsedAsRead, ReadAsStands
  <2>2. file.meant \in Seq(Int) /\ outcome.convention = "single_column_balance_inferred"
    BY <1>1, ParsedAsRead, ContentAssumption
  <2> HIDE DEF file, outcome
  <2>3. QED
    BY <2>1, <2>2, BalanceTells DEF file, outcome
<1>2. PInv => BalanceTellsSign
  BY <1>1 DEF BalanceTellsSign
<1>3. QED
  BY <1>2, ParsingInvariant, PTL

-----------------------------------------------------------------------------
(* What is reported as clean.                                              *)

LEMMA DaysAreNumbers ==
    ASSUME NEW f \in File, NEW format \in ToSet(Format), NEW map, NEW i \in Lines(Content[f])
    PROVE  Day(DateOf(Content[f], map, i), format) \in Nat
<1> DEFINE file == Content[f]
<1>1. PICK k \in DOMAIN Format : Format[k] = format
  BY FormatValues
<1>2. CASE IsGrid(file)
  <2>1. i \in DOMAIN file.lines
    BY <1>2 DEF Lines
  <2>2. \A c \in DOMAIN file.lines[i] : Day(file.lines[i][c], format) \in Nat
    BY <1>1, <1>2, <2>1, ContentAssumption
  <2> DEFINE cell == Column(file.lines[i], map, "date")
  <2>3. cell = Blank \/ \E c \in DOMAIN file.lines[i] : cell = file.lines[i][c]
    BY DEF Column
  <2> HIDE DEF cell
  <2>4. Day(Blank, format) = 0
    BY DEF Day, Blank
  <2>5. Day(cell, format) \in Nat
    BY <2>2, <2>3, <2>4
  <2>6. QED
    BY <1>2, <2>5 DEF DateOf, cell
<1>3. CASE ~IsGrid(file)
  <2>1. i \in DOMAIN file.lines /\ file.lines[i].pattern # "none"
    BY <1>3 DEF Lines, Dated
  <2>2. Day(file.lines[i].date, format) \in Nat
    BY <1>1, <1>3, <2>1, ContentAssumption
  <2>3. QED
    BY <1>3, <2>2 DEF DateOf
<1>4. QED
  BY <1>2, <1>3

(* The oldest row has no balance before it to compare with.                *)
LEMMA OldestUntold ==
    ASSUME NEW rows, NEW day, Amounted(rows) # {}, Amounted(rows) \subseteq Nat,
           \A i \in Amounted(rows) : day[i] \in Nat
    PROVE  Amounted(rows) \ Inferred(rows, day) # {}
<1> DEFINE A == Amounted(rows)
           D == {day[i] : i \in A}
<1>1. PICK d \in D : \A e \in D : d <= e
  <2>1. D \in SUBSET Nat /\ D # {}
    OBVIOUS
  <2> HIDE DEF D
  <2>2. QED
    BY <2>1, FirstLine
<1> DEFINE S == {i \in A : day[i] = d}
<1>2. PICK m \in S : \A j \in S : m <= j
  <2>1. S \in SUBSET Nat /\ S # {}
    OBVIOUS
  <2> HIDE DEF S
  <2>2. QED
    BY <2>1, FirstLine
<1>3. ASSUME NEW j \in A, Before(j, m, day)
      PROVE  FALSE
  <2>1. day[j] \in Nat /\ d \in Nat /\ d <= day[j] /\ day[m] = d
    BY <1>1, <1>2
  <2>2. day[j] = d /\ j < m
    BY <1>3, <2>1 DEF Before
  <2>3. j \in S /\ m <= j /\ j \in Nat /\ m \in Nat
    BY <1>2, <2>2
  <2>4. QED
    BY <2>2, <2>3
<1>4. Earlier(m, rows, day) = {}
  BY <1>3 DEF Earlier, Chained
<1>5. m \in A /\ m \notin Inferred(rows, day)
  BY <1>2, <1>4 DEF Inferred
<1>6. QED
  BY <1>5

(* What a clean outcome is: a row for every line, in a convention in which *)
(* the sign of every amount is printed.                                    *)
CleanIsPrinted ==
    \A p \in Process : Parsed(p) /\ ParseStatus(proc[p].outcome) = "parsed_clean" =>
        /\ DOMAIN proc[p].outcome.rows = Lines(Content[proc[p].file])
        /\ proc[p].outcome.convention \in
              {"separate_debit_credit_columns", "debit_negative_single_column",
               "single_column_sign_indicator"}

LEMMA CleanPrinted == PInv => CleanIsPrinted
<1>1. ASSUME PInv, NEW p \in Process, Parsed(p),
             ParseStatus(proc[p].outcome) = "parsed_clean"
      PROVE  /\ DOMAIN proc[p].outcome.rows = Lines(Content[proc[p].file])
             /\ proc[p].outcome.convention \in
                  {"separate_debit_credit_columns", "debit_negative_single_column",
                   "single_column_sign_indicator"}
  <2> DEFINE f == proc[p].file
             file == Content[f]
             outcome == proc[p].outcome
             format == outcome.layout.format
  <2>1. f \in File /\ format \in ToSet(Format)
    BY <1>1, ParsedAsRead, ReadAsStands
  <2>2. PICK rows, names : Stands(file, outcome, rows, names)
    BY <1>1, ParsedAsRead, ReadAsStands
  <2>3. DOMAIN outcome.rows # {} /\ outcome.failed = {} /\ ~outcome.warned
    BY <1>1 DEF ParseStatus
  <2> DEFINE day == DaysOf(file, outcome, rows)
             conv == outcome.convention
             signed == Signed(conv, rows, day)
  <2> HIDE DEF f, outcome
  <2>4. DOMAIN rows \subseteq Lines(file) /\ conv = Convention(names, rows)
    <3>1. DOMAIN rows \subseteq Lines(file)
      BY <2>2 DEF Stands
    <3>2. QED
      BY <2>2, <3>1, StandsConvention
  <2>5. /\ DOMAIN signed \subseteq DOMAIN rows
        /\ outcome.rows = [i \in DOMAIN signed |->
              [day |-> day[i], amount |-> signed[i], balance |-> rows[i].balance]]
        /\ outcome.failed = (Lines(file) \ DOMAIN rows) \cup (DOMAIN rows \ DOMAIN signed)
    BY <2>2, StandsRows
  <2>6. ~Warned(conv, rows, day)
    BY <2>2, <2>3, StandsWarned
  <2>7. \A i \in DOMAIN rows : day[i] \in Nat
    BY <2>1, <2>4, DaysAreNumbers DEF DaysOf
  <2>8. DOMAIN rows \subseteq Nat
    <3>1. Lines(file) \subseteq DOMAIN file.lines
      BY DEF Lines, Dated
    <3>2. QED
      BY <2>1, <2>4, <3>1, LinesFinite
  <2> HIDE DEF day
  <2>9. conv # "single_column_balance_inferred"
    <3> SUFFICES ASSUME conv = "single_column_balance_inferred" PROVE FALSE
      OBVIOUS
    <3>1. DOMAIN signed = Amounted(rows)
      BY DEF Signed
    <3>2. Amounted(rows) \subseteq DOMAIN rows
      BY DEF Amounted
    <3>3. Amounted(rows) \ Inferred(rows, day) = {}
      BY <2>6 DEF Warned
    <3> HIDE DEF signed, conv
    <3>4. Amounted(rows) # {}
      BY <2>3, <2>5, <3>1
    <3>5. QED
      BY <2>7, <2>8, <3>2, <3>3, <3>4, OldestUntold
  <2>10. conv # "single_column_assume_debit"
    BY <2>6 DEF Warned
  <2> HIDE DEF signed
  <2>11. DOMAIN outcome.rows = Lines(file)
    BY <2>3, <2>4, <2>5
  <2>12. conv \in {"separate_debit_credit_columns", "debit_negative_single_column",
                   "single_column_sign_indicator"}
    BY <2>4, <2>9, <2>10 DEF Convention
  <2>13. QED
    BY <2>11, <2>12 DEF f, outcome
<1>2. QED
  BY <1>1 DEF CleanIsPrinted

(* A statement is reported as parsed_clean only if all its lines became    *)
(* transactions and their signs are printed: what a balance column tells   *)
(* always leaves the oldest row open, and what is assumed is always warned *)
(* about, under every profile (sign_convention.py:121-139,                 *)
(* pipeline.py:74-79).                                                     *)
THEOREM OnlyPrintedIsClean == Spec => []CleanIsPrinted
BY CleanPrinted, ParsingInvariant, PTL

-----------------------------------------------------------------------------
(* What a profile holds was taught.  The UPDATE of an upsert writes single *)
(* columns, so two uploads that overlap may leave a profile that neither   *)
(* file has taught as a whole; but each of its columns comes from a file   *)
(* of the same type that is found by the same print.                       *)

Taught(profile) ==
    \A c \in {"map", "format", "convention"} : \E g \in Resolvable :
        /\ Lesson(g).type = profile.type /\ Lesson(g).print = profile.print
        /\ Lesson(g)[c] = profile[c]

ProfilesTaught == \A k \in DOMAIN profiles : Taught(profiles[k])

(* The row that an upsert is about to write is the one its file looks for. *)
FoundRow(r, table) ==
    r.pc = "upsert" /\ r.seen # 0 =>
        /\ table[r.seen].type = Lesson(r.file).type
        /\ table[r.seen].print = Lesson(r.file).print

(* A file was parsed with a profile of its type.                           *)
ReadTaught(r) ==
    r.pc = "done" /\ r.method = "profile_reuse" =>
        r.read.type = ProfileType(Content[r.file]) /\ Taught(r.read)

LInv ==
    /\ ProfilesTaught
    /\ \A p \in Process : FoundRow(proc[p], profiles) /\ ReadTaught(proc[p])

(* A row goes on to be found by what it was found by.                      *)
NamesKept ==
    \A k \in DOMAIN profiles :
        /\ k \in DOMAIN profiles'
        /\ profiles'[k].type = profiles[k].type /\ profiles'[k].print = profiles[k].print

LEMMA LessonColumns ==
    ASSUME NEW g
    PROVE  /\ DOMAIN Lesson(g) = {"type", "print", "map", "format", "convention"}
           /\ Lesson(g).type = ProfileType(Content[g])
           /\ Lesson(g).print = ColdParse[g].layout.print
BY DEF Lesson, Learned

LEMMA LessonTaught ==
    ASSUME NEW g \in Resolvable
    PROVE  Taught(Lesson(g))
BY DEF Taught

LEMMA UpsertTeaches ==
    ASSUME PInv, LInv, NEW p \in Process, UpsertCommit(p)
    PROVE  ProfilesTaught' /\ NamesKept
<1> DEFINE r == proc[p]
           g == r.file
           learned == Lesson(g)
<1>1. Len(profiles) \in Nat /\ DOMAIN profiles = 1..Len(profiles) /\ ProfilesOK
  BY DEF PInv, ProfilesOK
<1>2. RequestOK(r, Len(profiles)) /\ r.pc = "upsert"
  BY DEF PInv, UpsertCommit
<1>3. g \in Resolvable /\ r.outcome = ColdParse[g]
  BY <1>2 DEF RequestOK, ReadAs
<1>4. learned = Learned(Content[g], r.outcome) /\ Taught(learned)
  BY <1>3, LessonTaught DEF Lesson
<1>5. CASE r.seen = 0
  <2>1. profiles' = Append(profiles, learned)
    BY <1>4, <1>5 DEF UpsertCommit
  <2> HIDE DEF learned
  <2>2. profiles \in Seq(ToSet(profiles) \cup {learned})
    BY <1>1 DEF ProfilesOK
  <2>3. \A k \in DOMAIN profiles : k \in DOMAIN profiles' /\ profiles'[k] = profiles[k]
    BY <2>1, <2>2
  <2>4. \A k \in DOMAIN profiles' : profiles'[k] = learned \/ k \in DOMAIN profiles
    BY <2>1, <2>2
  <2>5. QED
    BY <1>4, <2>3, <2>4 DEF LInv, ProfilesTaught, NamesKept
<1>6. CASE r.seen # 0
  <2> DEFINE old == profiles[r.seen]
             row == [c \in DOMAIN old |-> IF learned[c] = r.read[c] THEN old[c] ELSE learned[c]]
  <2>1. r.seen \in DOMAIN profiles
    BY <1>1, <1>2, <1>6 DEF RequestOK
  <2>2. profiles' = [profiles EXCEPT ![r.seen] = row]
    BY <1>4, <1>6 DEF UpsertCommit
  <2>3. DOMAIN old = {"type", "print", "map", "format", "convention"} /\ Taught(old)
    BY <1>1, <2>1 DEF ProfilesOK, LInv, ProfilesTaught
  <2>4. old.type = learned.type /\ old.print = learned.print
    BY <1>2, <1>6 DEF LInv, FoundRow
  <2> HIDE DEF learned, old
  <2>5. /\ row.type = learned.type /\ row.print = learned.print
        /\ \A c \in {"map", "format", "convention"} : row[c] = old[c] \/ row[c] = learned[c]
    BY <2>3, <2>4
  <2> HIDE DEF row
  <2>6. Taught(row)
    <3> SUFFICES ASSUME NEW c \in {"map", "format", "convention"}
                 PROVE  \E t \in Resolvable :
                           /\ Lesson(t).type = row.type /\ Lesson(t).print = row.print
                           /\ Lesson(t)[c] = row[c]
      BY Zenon DEF Taught
    <3>1. PICK t \in Resolvable :
            /\ Lesson(t).type = learned.type /\ Lesson(t).print = learned.print
            /\ Lesson(t)[c] = learned[c]
      BY <1>4, Zenon DEF Taught
    <3>2. PICK u \in Resolvable :
            /\ Lesson(u).type = old.type /\ Lesson(u).print = old.print
            /\ Lesson(u)[c] = old[c]
      BY <2>3, Zenon DEF Taught
    <3>3. row[c] = old[c] \/ row[c] = learned[c]
      BY <2>5
    <3>4. CASE row[c] = learned[c]
      BY <2>5, <3>1, <3>4, Zenon
    <3>5. CASE row[c] = old[c]
      BY <2>4, <2>5, <3>2, <3>5, Zenon
    <3>6. QED
      BY <3>3, <3>4, <3>5
  <2>7. DOMAIN profiles' = DOMAIN profiles
    BY <2>2
  <2>8. ASSUME NEW k \in DOMAIN profiles
        PROVE  profiles'[k] = IF k = r.seen THEN row ELSE profiles[k]
    BY <2>2
  <2>9. NamesKept
    BY <2>4, <2>5, <2>7, <2>8 DEF NamesKept, old
  <2>10. ProfilesTaught'
    BY <2>6, <2>7, <2>8 DEF LInv, ProfilesTaught
  <2>11. QED
    BY <2>9, <2>10
<1>7. QED
  BY <1>5, <1>6

LEMMA OneRequestTaught ==
    ASSUME PInv, LInv, NEW p \in Process, NEW new, proc' = [proc EXCEPT ![p] = new],
           ProfilesTaught', NamesKept, FoundRow(new, profiles'), ReadTaught(new)
    PROVE  LInv'
<1>1. ASSUME NEW q \in Process, q # p
      PROVE  FoundRow(proc[q], profiles') /\ ReadTaught(proc'[q])
  <2>1. proc'[q] = proc[q] /\ FoundRow(proc[q], profiles) /\ ReadTaught(proc[q])
    BY <1>1 DEF PInv, LInv
  <2>2. RequestOK(proc[q], Len(profiles)) /\ Len(profiles) \in Nat
         /\ DOMAIN profiles = 1..Len(profiles)
    BY DEF PInv, ProfilesOK
  <2>3. proc[q].seen # 0 => proc[q].seen \in DOMAIN profiles
    BY <2>2 DEF RequestOK
  <2>4. QED
    BY <2>1, <2>3 DEF FoundRow, NamesKept
<1>2. proc'[p] = new
  BY DEF PInv
<1>3. QED
  BY <1>1, <1>2 DEF LInv, FoundRow, ReadTaught

LEMMA NextLInv ==
    ASSUME PInv, LInv, [Next]_vars
    PROVE  LInv'
<1>1. UNCHANGED profiles => ProfilesTaught' /\ NamesKept
  BY DEF LInv, ProfilesTaught, NamesKept
<1>2. ASSUME NEW p \in Process, NEW new, proc' = [proc EXCEPT ![p] = new], UNCHANGED profiles,
             FoundRow(new, profiles), ReadTaught(new)
      PROVE  LInv'
  BY <1>1, <1>2, OneRequestTaught DEF FoundRow
<1>3. ASSUME NEW p \in Process, NEW f \in File, Upload(p, f)
      PROVE  LInv'
  <2> DEFINE pc == IF ~IsGrid(Content[f]) /\ f \notin Resolvable THEN "done" ELSE "lookup"
             new == [Idle EXCEPT !.file = f, !.pc = pc]
  <2>1. proc' = [proc EXCEPT ![p] = new] /\ UNCHANGED profiles
    BY <1>3 DEF Upload
  <2>2. new.pc # "upsert" /\ new.method = "none"
    BY DEF Idle
  <2> HIDE DEF new
  <2>3. QED
    BY <1>2, <2>1, <2>2 DEF FoundRow, ReadTaught
<1>4. ASSUME NEW p \in Process, Reuse(p)
      PROVE  LInv'
  <2> DEFINE r == proc[p]
  <2>1. PICK k \in CandidatesFor(r.file) :
            proc' = [proc EXCEPT ![p].pc = "done", ![p].method = "profile_reuse",
                                 ![p].outcome = Reparse(r.file, profiles[k]),
                                 ![p].read = profiles[k]]
    BY <1>4 DEF Reuse
  <2> DEFINE new == [r EXCEPT !.pc = "done", !.method = "profile_reuse",
                              !.outcome = Reparse(r.file, profiles[k]), !.read = profiles[k]]
  <2>2. UNCHANGED profiles /\ proc' = [proc EXCEPT ![p] = new]
    BY <1>4, <2>1 DEF Reuse, PInv
  <2>3. DOMAIN r = {"pc", "file", "seen", "read", "method", "outcome"}
    BY DEF PInv, RequestOK
  <2>4. new.pc = "done" /\ new.file = r.file /\ new.read = profiles[k]
    BY <2>3
  <2> HIDE DEF new
  <2>5. profiles[k].type = ProfileType(Content[r.file]) /\ k \in DOMAIN profiles
    BY DEF CandidatesFor, Candidates, Exact
  <2>6. FoundRow(new, profiles) /\ ReadTaught(new)
    BY <2>4, <2>5 DEF FoundRow, ReadTaught, LInv, ProfilesTaught
  <2>7. QED
    BY <1>2, <2>2, <2>6
<1>5. ASSUME NEW p \in Process, Cold(p)
      PROVE  LInv'
  <2> DEFINE r == proc[p]
  <2>1. r.pc = "lookup" /\ UNCHANGED profiles
    BY <1>5 DEF Cold
  <2>2. RequestOK(r, Len(profiles))
    BY DEF PInv
  <2>3. PICK new : /\ proc' = [proc EXCEPT ![p] = new]
                   /\ new.pc \in {"select", "done"} /\ new.method = r.method
    <3>1. PICK k : proc' = [proc EXCEPT ![p] =
                 IF r.file \in Resolvable
                 THEN [r EXCEPT !.pc = "select", !.seen = k,
                                !.read = IF k = 0 THEN NoProfile ELSE profiles[k],
                                !.outcome = ColdParse[r.file]]
                 ELSE [r EXCEPT !.pc = "done"]]
      BY <1>5 DEF Cold, PInv
    <3> DEFINE read == IF k = 0 THEN NoProfile ELSE profiles[k]
               selects == [r EXCEPT !.pc = "select", !.seen = k, !.read = read,
                                    !.outcome = ColdParse[r.file]]
               fails == [r EXCEPT !.pc = "done"]
    <3>2. /\ selects.pc = "select" /\ selects.method = r.method
          /\ fails.pc = "done" /\ fails.method = r.method
      BY <2>2 DEF RequestOK
    <3>3. proc' = [proc EXCEPT ![p] = IF r.file \in Resolvable THEN selects ELSE fails]
      BY <3>1
    <3> HIDE DEF selects, fails
    <3>4. QED
      BY <3>2, <3>3
  <2>4. new.method = "none"
    BY <2>1, <2>2, <2>3 DEF RequestOK
  <2>5. QED
    BY <1>2, <2>1, <2>3, <2>4 DEF FoundRow, ReadTaught
<1>6. ASSUME NEW p \in Process, UpsertSelect(p)
      PROVE  LInv'
  <2> DEFINE r == proc[p]
             found == Exact(ProfileType(Content[r.file]), r.outcome.layout.print)
  <2>1. PICK k \in IF found = {} THEN {0} ELSE found :
            proc' = [proc EXCEPT ![p].pc = "upsert", ![p].seen = k,
                       ![p].read = IF k = 0 THEN NoProfile
                                   ELSE IF k = proc[p].seen THEN @ ELSE profiles[k]]
    BY <1>6 DEF UpsertSelect
  <2> DEFINE read == IF k = 0 THEN NoProfile ELSE IF k = r.seen THEN r.read ELSE profiles[k]
             new == [r EXCEPT !.pc = "upsert", !.seen = k, !.read = read]
  <2>2. r.pc = "select" /\ UNCHANGED profiles
    BY <1>6 DEF UpsertSelect
  <2>3. RequestOK(r, Len(profiles))
    BY DEF PInv
  <2>4. proc' = [proc EXCEPT ![p] = new]
    BY <2>1 DEF PInv
  <2>5. new.pc = "upsert" /\ new.seen = k /\ new.file = r.file
    BY <2>3 DEF RequestOK
  <2>6. r.file \in Resolvable /\ r.outcome = ColdParse[r.file]
    BY <2>2, <2>3 DEF RequestOK, ReadAs
  <2> HIDE DEF new, read
  <2>7. k # 0 => /\ profiles[k].type = ProfileType(Content[r.file])
                 /\ profiles[k].print = ColdParse[r.file].layout.print
    BY <2>1, <2>6 DEF Exact
  <2>8. FoundRow(new, profiles) /\ ReadTaught(new)
    BY <2>5, <2>7, LessonColumns DEF FoundRow, ReadTaught
  <2>9. QED
    BY <1>2, <2>2, <2>4, <2>8
<1>7. ASSUME NEW p \in Process, UpsertCommit(p)
      PROVE  LInv'
  <2> DEFINE r == proc[p]
             new == [r EXCEPT !.pc = "done", !.method = "cold_detection",
                              !.seen = 0, !.read = NoProfile]
  <2>1. proc' = [proc EXCEPT ![p] = new]
    BY <1>7 DEF UpsertCommit, PInv
  <2>2. DOMAIN r = {"pc", "file", "seen", "read", "method", "outcome"}
    BY DEF PInv, RequestOK
  <2>3. new.pc = "done" /\ new.method = "cold_detection"
    BY <2>2
  <2> HIDE DEF new
  <2>4. FoundRow(new, profiles') /\ ReadTaught(new)
    BY <2>3 DEF FoundRow, ReadTaught
  <2>5. QED
    BY <1>7, <2>1, <2>4, UpsertTeaches, OneRequestTaught
<1>8. ASSUME NEW p \in Process, Finish(p)
      PROVE  LInv'
  <2>1. proc' = [proc EXCEPT ![p] = Idle] /\ UNCHANGED profiles
    BY <1>8 DEF Finish
  <2>2. FoundRow(Idle, profiles) /\ ReadTaught(Idle)
    BY DEF Idle, FoundRow, ReadTaught
  <2>3. QED
    BY <1>2, <2>1, <2>2
<1>9. CASE UNCHANGED vars
  BY <1>1, <1>9 DEF vars, LInv, FoundRow, ReadTaught
<1>10. QED
  BY <1>3, <1>4, <1>5, <1>6, <1>7, <1>8, <1>9 DEF Next

LEMMA InitLInv == Init => LInv
<1> SUFFICES ASSUME Init PROVE LInv
  OBVIOUS
<1>1. DOMAIN profiles = {}
  BY DEF Init
<1>2. FoundRow(Idle, profiles) /\ ReadTaught(Idle)
  BY DEF Idle, FoundRow, ReadTaught
<1>3. QED
  BY <1>1, <1>2 DEF Init, LInv, ProfilesTaught

THEOREM LearningInvariant == Spec => []LInv
BY ParsingInvariant, InitLInv, NextLInv, PTL DEF Spec

(* Whatever uploads overlap, each column of a stored profile was taught by *)
(* a file of the profile's type and print: an upsert that read the row     *)
(* before another one wrote it never writes into another layout's row      *)
(* (profile_service.py:109-183).                                           *)
THEOREM ProfilesAreTaught == Spec => []ProfilesTaught
BY LearningInvariant, PTL DEF LInv

-----------------------------------------------------------------------------
(* Clean means right, if the banks mean what they print.                   *)

(* Each way through Tier 1 reads the file in a layout of its own or in one *)
(* that a profile has learned.                                             *)
LEMMA ReadAsReading ==
    ASSUME NEW r, r.file \in File, r.pc = "done", ReadAs(r), ReadTaught(r)
    PROVE  \E reading \in Readings(r.file) :
               Stands(Content[r.file], r.outcome, reading.rows, reading.names)
<1> DEFINE f == r.file
           file == Content[f]
           lines == file.lines
           outcome == r.outcome
           Grid(roles, format) ==
               [names |-> DOMAIN roles,
                rows |-> GridRows(lines, GridKept(lines, roles, format), roles)]
<1>1. ASSUME IsGrid(file), NEW roles \in RolesUsed(f), NEW format \in ToSet(Format), NEW warned,
             outcome = ParseGridRows(file, roles, format, warned)
      PROVE  \E reading \in Readings(f) : Stands(file, outcome, reading.rows, reading.names)
  <2>1. Grid(roles, format) \in Readings(f)
    BY <1>1 DEF Readings
  <2>2. Stands(file, ParseGridRows(file, roles, format, warned),
               GridRows(lines, GridKept(lines, roles, format), roles), DOMAIN roles)
    BY <1>1, GridStands
  <2> HIDE DEF outcome, file
  <2>3. Stands(file, outcome, Grid(roles, format).rows, Grid(roles, format).names)
    BY <1>1, <2>2
  <2>4. QED
    BY <2>1, <2>3
<1>2. CASE IsGrid(file) /\ r.method = "profile_reuse"
  <2> DEFINE roles == RolesFromProfile(file, r.read)
             warned == FALSE
  <2>1. r.read.format \in ToSet(Format) /\ outcome = ParseGridRows(file, roles, r.read.format, warned)
    BY <1>2 DEF ReadAs, Reparse
  <2>2. PICK g \in Resolvable : Lesson(g).type = r.read.type /\ Lesson(g).map = r.read.map
    BY <1>2 DEF ReadTaught, Taught
  <2>3. ProfileType(Content[g]) = ProfileType(file)
    BY <1>2, <2>2, LessonColumns DEF ReadTaught
  <2>4. roles = RolesFromProfile(file, Lesson(g))
    BY <2>2 DEF RolesFromProfile
  <2>5. roles \in RolesUsed(f)
    BY <2>3, <2>4 DEF RolesUsed
  <2> HIDE DEF roles, warned, outcome
  <2>6. QED
    BY <1>1, <1>2, <2>1, <2>5 DEF outcome
<1>3. CASE IsGrid(file) /\ r.method # "profile_reuse"
  <2> DEFINE found == ClassifyColumns(file.header, lines)
             format == DetectDateFormat(DateCells(file, found.roles))
  <2>1. f \in Resolvable /\ outcome = ColdParse[f]
    BY <1>3 DEF ReadAs
  <2>2. outcome = ParseGridRows(file, found.roles, format, found.warned)
    BY <1>3, <2>1 DEF ColdParse, ColdGrid, ParseGrid
  <2>3. ~GridUnresolvable(file)
    BY <1>3, <2>1 DEF Resolvable, Unresolvable
  <2>4. format \in ToSet(Format)
    <3>1. format # "none"
      BY <2>3 DEF GridUnresolvable
    <3>2. QED
      BY <3>1, CellsFinite, DetectedFormat
  <2>5. found.roles \in RolesUsed(f)
    BY DEF RolesUsed
  <2> HIDE DEF found, format, outcome
  <2>6. QED
    BY <1>1, <1>3, <2>2, <2>4, <2>5 DEF outcome
<1>4. CASE ~IsGrid(file)
  <2> DEFINE D == Dominant(lines)
             format == TextFormat(D, Sampled(lines, D))
             columns == AmountsPerLine(Sampled(lines, D))
             Text(fm) == [names |-> TextNames(columns),
                          rows |-> TextRows(lines, TextKept(lines, D, fm), columns)]
  <2>1. f \in Resolvable /\ outcome = ColdParse[f]
    BY <1>4 DEF ReadAs
  <2>2. outcome = ParseText(lines, D, format, columns)
    BY <1>4, <2>1 DEF ColdParse, ParseTextLines
  <2>3. D \in {"slash", "iso"}
    BY <1>4, <2>1, DominantIsPattern DEF Resolvable, Unresolvable, TextUnresolvable
  <2>4. format \in ToSet(Format)
    BY FormatValues DEF TextFormat, ResolveDateOrder
  <2>5. Text(format) \in Readings(f)
    <3>1. Readings(f) = {Text(fm) : fm \in ToSet(Format)}
      BY <1>4, <2>1 DEF Readings
    <3> HIDE DEF Text, format
    <3>2. QED
      BY <2>4, <3>1
  <2>6. Stands(file, ParseText(lines, D, format, columns),
               TextRows(lines, TextKept(lines, D, format), columns), TextNames(columns))
    <3> HIDE DEF D, format, columns
    <3> QED BY <1>4, <2>3, TextStands
  <2> HIDE DEF outcome, D, format, columns, file
  <2>7. Stands(file, outcome, Text(format).rows, Text(format).names)
    BY <2>2, <2>6
  <2>8. QED
    BY <2>5, <2>7 DEF outcome, file
<1>5. QED
  BY <1>2, <1>3, <1>4

(* In a convention that prints signs, a row gets the sign that is printed. *)
LEMMA PrintedIsMeant ==
    ASSUME NEW names, NEW rows, NEW day, NEW meant, NEW conv, conv = Convention(names, rows),
           conv \in {"separate_debit_credit_columns", "debit_negative_single_column",
                     "single_column_sign_indicator"},
           ~Warned(conv, rows, day), MeansPrinted(names, rows, meant),
           \A i \in DOMAIN rows : rows[i].amount = None \/ rows[i].amount \in Int
    PROVE  \A i \in DOMAIN Signed(conv, rows, day) : Signed(conv, rows, day)[i] = meant[i]
<1> DEFINE signed == Signed(conv, rows, day)
           inflow == InflowRows(conv, rows, day)
<1>1. CASE {"debit", "credit"} \subseteq names
  <2>1. conv = "separate_debit_credit_columns"
    BY <1>1 DEF Convention
  <2>2. signed = [i \in Moving(rows) |-> OrZero(rows[i].credit) - Magnitude(OrZero(rows[i].debit))]
    BY <2>1 DEF Signed
  <2> HIDE DEF signed
  <2>3. QED
    BY <1>1, <2>2 DEF MeansPrinted, signed
<1> DEFINE negative == \E i \in Amounted(rows) : rows[i].amount < 0
<1>2. \A i \in Amounted(rows) : rows[i].amount \in Int
  BY DEF Amounted
<1>3. ASSUME conv # "separate_debit_credit_columns"
      PROVE  signed = [i \in Amounted(rows) |->
                IF i \in inflow THEN Magnitude(rows[i].amount) ELSE -Magnitude(rows[i].amount)]
  BY <1>3 DEF Signed
<1>4. CASE ~({"debit", "credit"} \subseteq names) /\ negative
  <2>1. conv = "debit_negative_single_column"
    BY <1>4 DEF Convention
  <2>2. inflow = {i \in Amounted(rows) : rows[i].amount >= 0}
    BY <2>1 DEF InflowRows
  <2>3. \A i \in Amounted(rows) : meant[i] = rows[i].amount
    BY <1>4 DEF MeansPrinted
  <2> HIDE DEF signed, inflow
  <2>4. DOMAIN signed = Amounted(rows)
    BY <1>3, <2>1
  <2>5. ASSUME NEW i \in Amounted(rows)
        PROVE  signed[i] = meant[i]
    <3>1. signed[i] = IF rows[i].amount >= 0 THEN Magnitude(rows[i].amount)
                      ELSE -Magnitude(rows[i].amount)
      BY <1>3, <2>1, <2>2
    <3>2. QED
      BY <1>2, <2>3, <3>1 DEF Magnitude
  <2>6. QED
    BY <2>4, <2>5 DEF signed
<1>5. CASE ~({"debit", "credit"} \subseteq names) /\ ~negative
  <2>1. conv = "single_column_sign_indicator" /\ "sign_indicator" \in names
    BY <1>5 DEF Convention
  <2>2. inflow = {i \in Amounted(rows) : rows[i].indicator = "cr"}
    BY <2>1 DEF InflowRows
  <2>3. \A i \in Amounted(rows) : rows[i].indicator \in {"cr", "dr"}
    BY <2>1 DEF Warned, Unrecognized
  <2>4. \A i \in Amounted(rows) : /\ rows[i].indicator = "cr" => meant[i] = rows[i].amount
                                  /\ rows[i].indicator = "dr" => meant[i] = -rows[i].amount
    BY <1>5, <2>1 DEF MeansPrinted
  <2> HIDE DEF signed, inflow
  <2>5. DOMAIN signed = Amounted(rows)
    BY <1>3, <2>1
  <2>6. ASSUME NEW i \in Amounted(rows)
        PROVE  signed[i] = meant[i]
    <3>1. signed[i] = IF rows[i].indicator = "cr" THEN Magnitude(rows[i].amount)
                      ELSE -Magnitude(rows[i].amount)
      BY <1>3, <2>1, <2>2
    <3>2. Magnitude(rows[i].amount) = rows[i].amount
      BY <1>2, <1>5 DEF Magnitude
    <3>3. QED
      BY <2>3, <2>4, <3>1, <3>2
  <2>7. QED
    BY <2>5, <2>6 DEF signed
<1>6. QED
  BY <1>1, <1>4, <1>5

(* If the banks mean what they print (SignsMeant, which is about the files *)
(* and holds of those the runs use), then a statement that is reported as  *)
(* parsed_clean has the sign of every amount as its bank meant it, for any *)
(* files and any number of uploads that teach each other's profiles        *)
(* (sign_convention.py:45-139, pipeline.py:74-79).                         *)
THEOREM CleanIsRight ==
    ASSUME SignsMeant
    PROVE  Spec => []CleanMeansRight
<1>1. ASSUME PInv, LInv, NEW p \in Process, Parsed(p),
             ParseStatus(proc[p].outcome) = "parsed_clean",
             NEW i \in Lines(Content[proc[p].file])
      PROVE  proc[p].outcome.rows[i].amount = Content[proc[p].file].meant[i]
  <2> DEFINE f == proc[p].file
             file == Content[f]
             outcome == proc[p].outcome
             conv == outcome.convention
  <2>1. f \in File /\ ReadAs(proc[p]) /\ ReadTaught(proc[p]) /\ proc[p].pc = "done"
    BY <1>1, ParsedAsRead DEF Parsed, LInv
  <2>2. PICK reading \in Readings(f) : Stands(file, outcome, reading.rows, reading.names)
    BY <2>1, ReadAsReading
  <2> DEFINE rows == reading.rows
             names == reading.names
             day == DaysOf(file, outcome, rows)
             signed == Signed(conv, rows, day)
  <2>3. /\ DOMAIN outcome.rows = Lines(file)
        /\ conv \in {"separate_debit_credit_columns", "debit_negative_single_column",
                     "single_column_sign_indicator"}
    BY <1>1, CleanPrinted DEF CleanIsPrinted
  <2>4. ~outcome.warned
    BY <1>1 DEF ParseStatus
  <2>5. MeansPrinted(names, rows, file.meant)
    BY <2>1 DEF SignsMeant
  <2> HIDE DEF f, outcome, rows, names
  <2>6. Stands(file, outcome, rows, names)
    BY <2>2 DEF rows, names
  <2>7. conv = Convention(names, rows)
    BY <2>6, StandsConvention
  <2>8. /\ DOMAIN signed \subseteq DOMAIN rows
        /\ outcome.rows = [j \in DOMAIN signed |->
              [day |-> day[j], amount |-> signed[j], balance |-> rows[j].balance]]
    BY <2>6, StandsRows
  <2>9. ~Warned(conv, rows, day)
    BY <2>4, <2>6, StandsWarned
  <2>10. \A j \in DOMAIN rows : rows[j].amount = None \/ rows[j].amount \in Int
    BY <2>6 DEF Stands
  <2> HIDE DEF day, conv
  <2>11. \A j \in DOMAIN signed : signed[j] = file.meant[j]
    BY <2>3, <2>5, <2>7, <2>9, <2>10, PrintedIsMeant
  <2> HIDE DEF signed
  <2>12. i \in DOMAIN signed /\ outcome.rows[i].amount = signed[i]
    BY <1>1, <2>3, <2>8 DEF f
  <2>13. QED
    BY <2>11, <2>12 DEF f, outcome
<1>2. PInv /\ LInv => CleanMeansRight
  BY <1>1 DEF CleanMeansRight
<1>3. QED
  BY <1>2, ParsingInvariant, LearningInvariant, PTL

-----------------------------------------------------------------------------
(* The columns.  Pairs of a column and a role are ranked; a nonempty set   *)
(* of them has a best one.                                                 *)

LEMMA PairValues ==
    ASSUME NEW header \in Seq(DOMAIN Score), NEW p \in Pairs(header)
    PROVE  /\ p[1] \in DOMAIN header /\ p[2] \in DOMAIN Role /\ p = <<p[1], p[2]>>
           /\ p[1] \in Nat /\ p[2] \in Nat
           /\ Score[header[p[1]]][Role[p[2]]] \in 0..100
<1>1. p[1] \in DOMAIN header /\ p[2] \in DOMAIN Role /\ p = <<p[1], p[2]>>
  BY DEF Pairs
<1>2. DOMAIN Role = 1..7
  BY DEF Role
<1>3. header[p[1]] \in DOMAIN Score /\ p[1] \in Nat
  BY <1>1
<1>4. Role[p[2]] \in ToSet(Role)
  BY <1>1 DEF ToSet
<1>5. Score[header[p[1]]] \in [ToSet(Role) -> 0..100]
  BY <1>3, LayoutAssumption
<1>6. QED
  BY <1>1, <1>2, <1>3, <1>4, <1>5

LEMMA PairsFinite ==
    ASSUME NEW header \in Seq(DOMAIN Score)
    PROVE  IsFiniteSet(Pairs(header))
<1>1. DOMAIN header = 1..Len(header) /\ Len(header) \in Nat /\ DOMAIN Role = 1..7
  BY DEF Role
<1>2. IsFiniteSet(DOMAIN header) /\ IsFiniteSet(DOMAIN Role)
  <2>1. IsFiniteSet(1..Len(header))
    BY <1>1, FS_Interval
  <2>2. IsFiniteSet(1..7)
    <3>1. PICK k \in Int : k = 7
      OBVIOUS
    <3>2. IsFiniteSet(1..k)
      BY FS_Interval
    <3>3. QED
      BY <3>1, <3>2
  <2>3. QED
    BY <1>1, <2>1, <2>2, Zenon
<1>3. IsFiniteSet((DOMAIN header) \X (DOMAIN Role))
  BY <1>2, FS_Product
<1>4. QED
  BY <1>3, FS_Subset DEF Pairs

Best(header, S) == CHOOSE p \in S : \A q \in S \ {p} : Ranks(header, p, q)

Rest(header, S) == {q \in S : ~Competes(Best(header, S), q)}

(* Ranks, with the scores of the pairs.                                    *)
Beats(score, p, q) ==
    \/ score[p] > score[q]
    \/ score[p] = score[q] /\ p[1] < q[1]
    \/ score[p] = score[q] /\ p[1] = q[1] /\ p[2] < q[2]

LEMMA FirstOfBest ==
    ASSUME NEW S, S # {}, NEW score,
           \A p \in S : score[p] \in 0..100 /\ p[1] \in Nat /\ p[2] \in Nat,
           \A p, q \in S : p[1] = q[1] /\ p[2] = q[2] => p = q
    PROVE  \E b \in S : \A q \in S \ {b} : Beats(score, b, q)
<1> DEFINE Left == {100 - score[p] : p \in S}
<1>1. PICK l \in Left : \A m \in Left : l <= m
  <2>1. \A p \in S : 100 - score[p] \in Nat
    OBVIOUS
  <2>2. Left \in SUBSET Nat /\ Left # {}
    BY <2>1
  <2> HIDE DEF Left
  <2>3. QED
    BY <2>2, FirstLine
<1> DEFINE Top == {p \in S : 100 - score[p] = l}
           Columns == {p[1] : p \in Top}
<1>2. PICK c \in Columns : \A d \in Columns : c <= d
  <2>1. Columns \in SUBSET Nat /\ Columns # {}
    OBVIOUS
  <2> HIDE DEF Columns
  <2>2. QED
    BY <2>1, FirstLine
<1> DEFINE First == {p \in Top : p[1] = c}
           Roles == {p[2] : p \in First}
<1>3. PICK r \in Roles : \A s \in Roles : r <= s
  <2>1. Roles \in SUBSET Nat /\ Roles # {}
    OBVIOUS
  <2> HIDE DEF Roles
  <2>2. QED
    BY <2>1, FirstLine
<1>4. PICK b \in First : b[2] = r
  OBVIOUS
<1>5. ASSUME NEW q \in S, q # b
      PROVE  \/ score[b] > score[q]
             \/ score[b] = score[q] /\ b[1] < q[1]
             \/ score[b] = score[q] /\ b[1] = q[1] /\ b[2] < q[2]
  <2>1. /\ score[q] \in 0..100 /\ score[b] \in 0..100 /\ 100 - score[b] = l
        /\ l <= 100 - score[q] /\ 100 - score[b] <= 100 - score[q]
    BY <1>1, <1>4
  <2>2. q[1] \in Nat /\ q[2] \in Nat /\ b[1] \in Nat /\ b[2] \in Nat /\ b[1] = c /\ b[2] = r
    BY <1>4
  <2>3. score[q] = score[b] => c <= q[1]
    BY <1>2, <2>1
  <2>4. score[q] = score[b] /\ q[1] = c => r <= q[2]
    BY <1>3, <2>1
  <2>5. q[1] # b[1] \/ q[2] # b[2]
    BY <1>4, <1>5
  <2> HIDE DEF Left, Top, Columns, First, Roles
  <2>6. score[b] >= score[q]
    <3>1. \A x, y \in 0..100 : 100 - x <= 100 - y => x >= y
      OBVIOUS
    <3>2. QED
      BY <2>1, <3>1, Zenon
  <2>7. CASE score[b] = score[q]
    <3>1. b[1] <= q[1] /\ (q[1] = b[1] => b[2] <= q[2])
      BY <2>2, <2>3, <2>4, <2>7
    <3>2. b[1] < q[1] \/ (b[1] = q[1] /\ b[2] < q[2])
      BY <2>2, <2>5, <3>1
    <3>3. QED
      BY <2>7, <3>2
  <2>8. CASE score[b] # score[q]
    <3>1. score[b] \in 0..100 /\ score[q] \in 0..100
      BY <2>1
    <3>2. \A x, y \in 0..100 : x >= y /\ x # y => x > y
      OBVIOUS
    <3>3. score[b] > score[q]
      BY <2>6, <2>8, <3>1, <3>2, Zenon
    <3>4. QED
      BY <3>3
  <2>9. QED
    BY <2>7, <2>8
<1>6. b \in S
  BY <1>4
<1>7. QED
  BY <1>5, <1>6 DEF Beats

LEMMA BestRanks ==
    ASSUME NEW header \in Seq(DOMAIN Score), NEW S \in SUBSET Pairs(header), S # {}
    PROVE  /\ Best(header, S) \in S
           /\ \A q \in S \ {Best(header, S)} : Ranks(header, Best(header, S), q)
<1>1. PICK score : score = [p \in S |-> Score[header[p[1]]][Role[p[2]]]]
  OBVIOUS
<1>2. \A p \in S : score[p] \in 0..100 /\ p[1] \in Nat /\ p[2] \in Nat
  BY <1>1, PairValues
<1>3. \A p, q \in S : p[1] = q[1] /\ p[2] = q[2] => p = q
  <2>1. \A p \in S : p = <<p[1], p[2]>>
    BY PairValues
  <2>2. QED
    BY <2>1
<1>4. \A p, q \in S :
        Ranks(header, p, q) <=> Beats(score, p, q)
  BY <1>1 DEF Ranks, Beats
<1>5. PICK b \in S : \A q \in S \ {b} : Beats(score, b, q)
  BY <1>2, <1>3, FirstOfBest
<1>6. \A q \in S \ {b} : Ranks(header, b, q)
  BY <1>4, <1>5
<1>7. QED
  BY <1>6 DEF Best

LEMMA RestSmaller ==
    ASSUME NEW header \in Seq(DOMAIN Score), NEW S \in SUBSET Pairs(header), S # {}
    PROVE  /\ Rest(header, S) \in SUBSET Pairs(header) /\ Rest(header, S) \subseteq S
           /\ Cardinality(Rest(header, S)) \in Nat /\ Cardinality(S) \in Nat
           /\ Cardinality(Rest(header, S)) + 1 <= Cardinality(S)
<1> DEFINE b == Best(header, S)
<1>1. b \in S
  BY BestRanks
<1>2. Rest(header, S) \subseteq S \ {b}
  BY DEF Rest, Competes
<1>3. IsFiniteSet(S) /\ IsFiniteSet(S \ {b}) /\ Cardinality(S \ {b}) = Cardinality(S) - 1
  BY <1>1, PairsFinite, FS_Subset, FS_RemoveElement
<1>4. IsFiniteSet(Rest(header, S)) /\ Cardinality(Rest(header, S)) <= Cardinality(S \ {b})
  BY <1>2, <1>3, FS_Subset
<1>5. Cardinality(S) \in Nat /\ Cardinality(Rest(header, S)) \in Nat
  BY <1>3, <1>4, FS_CardinalityType
<1>6. QED
  BY <1>2, <1>3, <1>4, <1>5

(* The recursion of Taken, as far as the sets of D.                        *)
Takes(it, header, D) ==
    it = [S \in D |-> IF S = {} THEN {} ELSE {Best(header, S)} \cup it[Rest(header, S)]]

LEMMA TakenIs ==
    ASSUME NEW header
    PROVE  Taken(header) = (CHOOSE it : Takes(it, header, SUBSET Pairs(header)))[Pairs(header)]
BY DEF Taken, Takes, Best, Rest

UpTo(header, n) == {S \in SUBSET Pairs(header) : Cardinality(S) <= n}

LEMMA TakesExtends ==
    ASSUME NEW header \in Seq(DOMAIN Score), NEW n \in Nat,
           \E it : Takes(it, header, UpTo(header, n))
    PROVE  \E it : Takes(it, header, UpTo(header, n + 1))
<1>1. PICK it : Takes(it, header, UpTo(header, n))
  OBVIOUS
<1> DEFINE D == UpTo(header, n + 1)
<1>2. PICK next : next = [S \in D |-> IF S = {} THEN {}
                                     ELSE {Best(header, S)} \cup it[Rest(header, S)]]
  OBVIOUS
<1>3. \A S \in UpTo(header, n) : S \in D
  <2>1. \A S \in SUBSET Pairs(header) : Cardinality(S) \in Nat
    BY PairsFinite, FS_Subset, FS_CardinalityType
  <2>2. QED
    BY <2>1 DEF UpTo
<1>4. \A S \in UpTo(header, n) : next[S] = it[S]
  BY <1>1, <1>2, <1>3 DEF Takes
<1>5. \A S \in D : S # {} => next[Rest(header, S)] = it[Rest(header, S)]
  <2>1. ASSUME NEW S \in D, S # {}
        PROVE  Rest(header, S) \in UpTo(header, n)
    <3>1. S \in SUBSET Pairs(header) /\ Cardinality(S) <= n + 1
      BY DEF UpTo
    <3>2. QED
      BY <2>1, <3>1, RestSmaller DEF UpTo
  <2>2. QED
    BY <1>4, <2>1
<1>6. \A S \in D : next[S] = IF S = {} THEN {} ELSE {Best(header, S)} \cup next[Rest(header, S)]
  BY <1>2, <1>5
<1>7. next = [S \in D |-> next[S]]
  BY <1>2
<1>8. Takes(next, header, UpTo(header, n + 1))
  BY <1>6, <1>7, Zenon DEF Takes
<1>9. QED
  BY <1>8

LEMMA TakesExists ==
    ASSUME NEW header \in Seq(DOMAIN Score)
    PROVE  \E it : Takes(it, header, SUBSET Pairs(header))
<1> DEFINE Bad == {n \in Nat : ~ \E it : Takes(it, header, UpTo(header, n))}
<1>1. Bad = {}
  <2> SUFFICES ASSUME Bad # {} PROVE FALSE
    OBVIOUS
  <2>1. PICK n \in Bad : \A m \in Bad : n <= m
    <3> Bad \subseteq Nat
      OBVIOUS
    <3> HIDE DEF Bad
    <3> QED BY FirstLine
  <2>2. n # 0
    <3>1. \A S \in UpTo(header, 0) : S = {}
      <4>1. ASSUME NEW S \in UpTo(header, 0)
            PROVE  S = {}
        <5>1. IsFiniteSet(S) /\ Cardinality(S) \in Nat /\ Cardinality(S) <= 0
          BY PairsFinite, FS_Subset, FS_CardinalityType DEF UpTo
        <5>2. QED
          BY <5>1, FS_EmptySet
      <4>2. QED
        BY <4>1
    <3>2. Takes([S \in UpTo(header, 0) |-> {}], header, UpTo(header, 0))
      BY <3>1 DEF Takes
    <3>3. QED
      BY <3>2
  <2>3. n - 1 \in Nat /\ n - 1 \notin Bad /\ n - 1 + 1 = n
    BY <2>1, <2>2
  <2>4. QED
    BY <2>1, <2>3, TakesExtends
<1>2. /\ Cardinality(Pairs(header)) \in Nat
      /\ UpTo(header, Cardinality(Pairs(header))) = SUBSET Pairs(header)
  BY PairsFinite, FS_CardinalityType, FS_Subset DEF UpTo
<1>3. \E it : Takes(it, header, UpTo(header, Cardinality(Pairs(header))))
  BY <1>1, <1>2
<1>4. QED
  BY <1>2, <1>3

(* What a choice of the pairs in S must be: a column has one role, a       *)
(* role has one column, and a pair that was not chosen lost a column or a  *)
(* role to a pair that ranks higher.                                       *)
Matches(header, chosen, S) ==
    /\ chosen \subseteq S
    /\ \A p, q \in chosen : Competes(p, q) => p = q
    /\ \A p \in S \ chosen : \E q \in chosen : Competes(q, p) /\ Ranks(header, q, p)

LEMMA MatchesStep ==
    ASSUME NEW header \in Seq(DOMAIN Score), NEW S \in SUBSET Pairs(header), S # {},
           NEW chosen, Matches(header, chosen, Rest(header, S))
    PROVE  Matches(header, {Best(header, S)} \cup chosen, S)
<1> DEFINE b == Best(header, S)
           R == Rest(header, S)
<1>1. b \in S /\ \A q \in S \ {b} : Ranks(header, b, q)
  BY BestRanks
<1>2. R \subseteq S /\ (\A q \in R : ~Competes(b, q)) /\ (\A q \in S : q \in R \/ Competes(b, q))
  BY DEF Rest
<1>3. /\ chosen \subseteq R /\ \A p, q \in chosen : Competes(p, q) => p = q
      /\ \A p \in R \ chosen : \E q \in chosen : Competes(q, p) /\ Ranks(header, q, p)
  BY DEF Matches
<1>4. \A p, q : Competes(p, q) <=> Competes(q, p)
  BY DEF Competes
<1> HIDE DEF b, R
<1>5. \A p, q \in {b} \cup chosen : Competes(p, q) => p = q
  BY <1>2, <1>3, <1>4
<1>6. ASSUME NEW p \in S \ ({b} \cup chosen)
      PROVE  \E q \in {b} \cup chosen : Competes(q, p) /\ Ranks(header, q, p)
  <2>1. CASE p \in R
    BY <1>3, <2>1
  <2>2. CASE p \notin R
    BY <1>1, <1>2, <2>2
  <2>3. QED
    BY <2>1, <2>2
<1>7. {b} \cup chosen \subseteq S
  BY <1>1, <1>2, <1>3
<1>8. QED
  BY <1>5, <1>6, <1>7 DEF Matches, b

(* The greedy pass over the ranked pairs gives a stable assignment: no     *)
(* column has two roles, no role two columns, and whatever it passed over  *)
(* lost to a better match, for any number of columns and any scores        *)
(* (column_classifier.py:50-60).                                           *)
THEOREM ColumnsMatched ==
    ASSUME NEW header \in Seq(DOMAIN Score)
    PROVE  Matches(header, Taken(header), Pairs(header))
<1> DEFINE P == Pairs(header)
<1>1. PICK it : Takes(it, header, SUBSET P) /\ Taken(header) = it[P]
  BY TakesExists, TakenIs
<1> DEFINE Bad == {n \in Nat : \E S \in SUBSET P : Cardinality(S) = n /\ ~Matches(header, it[S], S)}
<1>2. Bad = {}
  <2> SUFFICES ASSUME Bad # {} PROVE FALSE
    OBVIOUS
  <2>1. PICK n \in Bad : \A m \in Bad : n <= m
    <3> Bad \subseteq Nat
      OBVIOUS
    <3> HIDE DEF Bad
    <3> QED BY FirstLine
  <2>2. PICK S \in SUBSET P : Cardinality(S) = n /\ ~Matches(header, it[S], S)
    BY <2>1
  <2>3. S # {}
    <3> SUFFICES ASSUME S = {} PROVE FALSE
      OBVIOUS
    <3>1. it[S] = {}
      BY <1>1 DEF Takes
    <3>2. QED
      BY <2>2, <3>1 DEF Matches
  <2>4. it[S] = {Best(header, S)} \cup it[Rest(header, S)]
    BY <1>1, <2>3 DEF Takes
  <2>5. /\ Rest(header, S) \in SUBSET P /\ Cardinality(Rest(header, S)) \in Nat
        /\ Cardinality(S) \in Nat /\ Cardinality(Rest(header, S)) + 1 <= Cardinality(S)
    BY <2>3, RestSmaller
  <2>6. Matches(header, it[Rest(header, S)], Rest(header, S))
    <3>1. Cardinality(Rest(header, S)) \notin Bad
      BY <2>1, <2>2, <2>5
    <3>2. QED
      BY <2>5, <3>1
  <2>7. Matches(header, it[S], S)
    BY <2>3, <2>4, <2>6, MatchesStep
  <2>8. QED
    BY <2>2, <2>7
<1>3. Cardinality(P) \in Nat
  BY PairsFinite, FS_CardinalityType
<1>4. Matches(header, it[P], P)
  <2>1. Cardinality(P) \notin Bad
    BY <1>2
  <2>2. QED
    BY <1>3, <2>1
<1>5. QED
  BY <1>1, <1>4

(* So the columns of two roles differ, and each role that is assigned is   *)
(* the one its column was taken for: no cell of a line is read as two      *)
(* things (column_classifier.py:52-60).                                    *)
THEOREM ColumnsDiffer ==
    ASSUME NEW header \in Seq(DOMAIN Score)
    PROVE  \A r, s \in DOMAIN Assigned(header) :
              /\ Assigned(header)[r] \in DOMAIN header
              /\ Score[header[Assigned(header)[r]]][r] >= Threshold
              /\ r # s => Assigned(header)[r] # Assigned(header)[s]
<1> DEFINE taken == Taken(header)
           A == Assigned(header)
<1>1. taken \subseteq Pairs(header) /\ \A p, q \in taken : Competes(p, q) => p = q
  BY ColumnsMatched DEF Matches
<1>2. A = [r \in {Role[p[2]] : p \in taken} |-> (CHOOSE p \in taken : Role[p[2]] = r)[1]]
  BY DEF Assigned
<1> HIDE DEF taken, A
<1>3. ASSUME NEW r \in DOMAIN A
      PROVE  \E p \in taken : Role[p[2]] = r /\ A[r] = p[1]
  <2>1. \E p \in taken : Role[p[2]] = r
    BY <1>2
  <2>2. A[r] = (CHOOSE p \in taken : Role[p[2]] = r)[1]
    BY <1>2
  <2>3. QED
    BY <2>1, <2>2
<1>4. ASSUME NEW r \in DOMAIN A, NEW s \in DOMAIN A, r # s
      PROVE  A[r] # A[s]
  <2>1. PICK p \in taken : Role[p[2]] = r /\ A[r] = p[1]
    BY <1>3
  <2>2. PICK q \in taken : Role[q[2]] = s /\ A[s] = q[1]
    BY <1>3
  <2>3. p # q
    BY <1>4, <2>1, <2>2
  <2>4. QED
    BY <1>1, <2>1, <2>2, <2>3 DEF Competes
<1>5. ASSUME NEW r \in DOMAIN A
      PROVE  A[r] \in DOMAIN header /\ Score[header[A[r]]][r] >= Threshold
  <2>1. PICK p \in taken : Role[p[2]] = r /\ A[r] = p[1]
    BY <1>3
  <2>2. p \in Pairs(header)
    BY <1>1
  <2>3. p[1] \in DOMAIN header /\ Score[header[p[1]]][Role[p[2]]] >= Threshold
    BY <2>2 DEF Pairs
  <2>4. QED
    BY <2>1, <2>3
<1>6. QED
  BY <1>4, <1>5 DEF A
=============================================================================
