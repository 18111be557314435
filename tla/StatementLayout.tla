--------------------------- MODULE StatementLayout ---------------------------
(***************************************************************************)
(* What Tier 1 finds out about a file before it reads its rows: which      *)
(* column is which (services/parsing/column_classifier.py), and how the    *)
(* dates are written (text_utils.py for grids, pdf_text_parser.py for      *)
(* lines of text; the two break ties in opposite ways).                    *)
(*                                                                         *)
(* A header text is a model value: what matters is how it scores against   *)
(* the synonyms of each role.  A cell is a record; a date cell holds, per  *)
(* format, the day it stands for when read that way, or 0 if it cannot be  *)
(* read so, which is all that strptime tells.                              *)
(***************************************************************************)
EXTENDS Integers, Sequences, FiniteSets, TLC, SequencesExt

CONSTANTS Score,        \* Score[text][role]: best WRatio over the synonyms
          SampleSize    \* DTYPE_SAMPLE_SIZE and MAX_SAMPLE_LINES

Role == <<"date", "description", "debit", "credit", "amount", "balance", "sign_indicator">>

Typed == {"date", "amount", "debit", "credit", "balance"}

Threshold == 85

(* They stand for the 13 of CANDIDATE_DATE_FORMATS: the pair of which a    *)
(* date may be either, in the order of the code for slashes and a year of  *)
(* four digits (with two digits it is the other way round, and with dashes *)
(* too), and one that no other can be mistaken for.                        *)
Format == <<"mdy", "dmy", "iso">>

ASSUME LayoutAssumption ==
    /\ \A text \in DOMAIN Score : Score[text] \in [ToSet(Role) -> 0..100]
    /\ SampleSize \in Nat \ {0}

Day(cell, format) ==
    IF cell.kind = "date" /\ format \in DOMAIN cell.day THEN cell.day[format] ELSE 0

Reads(cell, format) == Day(cell, format) # 0

LooksLike(cell, kind) ==
    IF kind = "date" THEN \E k \in DOMAIN Format : Reads(cell, Format[k])
                     ELSE cell.kind = "amount"

(* The first lines of those given by their number.                         *)
Sample(lines) == {i \in lines : Cardinality({j \in lines : j <= i}) <= SampleSize}

-----------------------------------------------------------------------------
(* classify_columns.  Pairs of a column and a role, the best score first   *)
(* (a stable sort: then by column, then in the order of the roles).        *)

Ranks(header, p, q) ==
    LET score(x) == Score[header[x[1]]][Role[x[2]]]
    IN  \/ score(p) > score(q)
        \/ score(p) = score(q) /\ p[1] < q[1]
        \/ score(p) = score(q) /\ p[1] = q[1] /\ p[2] < q[2]

Pairs(header) ==
    {p \in (DOMAIN header) \X (DOMAIN Role) : Score[header[p[1]]][Role[p[2]]] >= Threshold}

Competes(p, q) == p[1] = q[1] \/ p[2] = q[2]

(* The best pair is taken, and again the best of those that neither its    *)
(* column nor its role rules out.                                          *)
Taken(header) ==
    LET take[S \in SUBSET Pairs(header)] ==
            IF S = {} THEN {}
            ELSE LET best == CHOOSE p \in S : \A q \in S \ {p} : Ranks(header, p, q)
                 IN  {best} \cup take[{q \in S : ~Competes(best, q)}]
    IN  take[Pairs(header)]

Assigned(header) ==
    LET taken == Taken(header)
    IN  [r \in {Role[p[2]] : p \in taken} |-> (CHOOSE p \in taken : Role[p[2]] = r)[1]]

(* Fewer than 30 % of the sampled values look like what the header says.   *)
Contradicted(column, role, lines) ==
    LET cells == {i \in Sample(DOMAIN lines) :
                    column \in DOMAIN lines[i] /\ lines[i][column].kind # "blank"}
        alike == {i \in cells : LooksLike(lines[i][column],
                                          IF role = "date" THEN "date" ELSE "numeric")}
    IN  role \in Typed /\ cells # {} /\ 10 * Cardinality(alike) < 3 * Cardinality(cells)

Complete(roles) ==
    /\ {"date", "description"} \subseteq DOMAIN roles
    /\ "amount" \in DOMAIN roles \/ {"debit", "credit"} \subseteq DOMAIN roles

(* An unassigned column is not offered to another role, only warned about. *)
ClassifyColumns(header, lines) ==
    LET assigned == Assigned(header)
        kept == {r \in DOMAIN assigned : ~Contradicted(assigned[r], r, lines)}
    IN  [roles |-> Restrict(assigned, kept), warned |-> kept # DOMAIN assigned]

-----------------------------------------------------------------------------
(* detect_date_format: the first format that reads the most of the sampled *)
(* cells, unless it reads less than half of them (rounded down).           *)

(* cells: the sampled cells, by line.                                      *)
Readable(cells, format) == {i \in DOMAIN cells : Reads(cells[i], format)}

Most(cells) ==
    CHOOSE k \in DOMAIN Format :
        \A l \in DOMAIN Format :
            \/ Cardinality(Readable(cells, Format[k])) > Cardinality(Readable(cells, Format[l]))
            \/ /\ Cardinality(Readable(cells, Format[k])) = Cardinality(Readable(cells, Format[l]))
               /\ k <= l

DetectDateFormat(cells) ==
    LET hits == Cardinality(Readable(cells, Format[Most(cells)]))
    IN  IF hits >= 1 /\ hits >= Cardinality(DOMAIN cells) \div 2 THEN Format[Most(cells)] ELSE "none"

(* _resolve_date_order, for dates like 3/4/25: month first only if a       *)
(* sampled date is none in the other order, and none contradicts.          *)
ResolveDateOrder(cells) ==
    IF /\ \A i \in DOMAIN cells : Reads(cells[i], "mdy")
       /\ \E i \in DOMAIN cells : ~Reads(cells[i], "dmy")
    THEN "mdy" ELSE "dmy"
=============================================================================
