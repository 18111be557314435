------------------------------- MODULE Parsing -------------------------------
(***************************************************************************)
(* Tier 1: from an uploaded file to signed rows, with bank profiles that   *)
(* are learned from one file and tried on the next, whoever uploads it     *)
(* (services/parsing: pipeline, structure_sniffer, profile_service,        *)
(* fingerprint, grid_parser, pdf_text_parser, ocr_parser).                 *)
(*                                                                         *)
(* A file is what the readers (csv, pdfplumber, tesseract) make of it: the *)
(* cells of a header and of data lines, or lines of text with a date token *)
(* and amounts.  It also carries what its bank meant: the date format and  *)
(* the signed amount of each line.  The code never sees that part; the     *)
(* properties compare with it.                                             *)
(*                                                                         *)
(* The steps of an upload are its SELECTs and commits; parsing itself is a *)
(* function of the file and of the profile that was read.  The counters    *)
(* and time stamps of a profile decide nothing and are left out.           *)
(***************************************************************************)
EXTENDS SignConvention, StatementLayout

CONSTANTS File, Content,     \* Content[f]: see MCParsing for its fields
          Process,           \* uploads that can be in flight together
          NoFile,
          Similar(_, _),     \* fuzz.WRatio of two fingerprints reaches 90
          MaxProfiles        \* bound: then only files with a candidate are uploaded

VARIABLES profiles,   \* table bank_profiles, in order of insertion
          proc        \* proc[p]: progress of upload p

vars == <<profiles, proc>>

-----------------------------------------------------------------------------
(* detect_structure and STRUCTURE_TO_PROFILE_TYPE.                         *)

Structure(file) ==
    IF ~file.pdf THEN IF file.image THEN "image_scan_ocr" ELSE "clean_csv"
    ELSE IF file.table THEN "pdf_table"
    ELSE IF file.text THEN "pdf_text_no_table" ELSE "pdf_scan_ocr"

ProfileType(file) ==
    CASE Structure(file) = "clean_csv" -> "csv_header"
      [] Structure(file) = "pdf_table" -> "pdf_table_header"
      [] OTHER -> "pdf_text_regex"

IsGrid(file) == ProfileType(file) # "pdf_text_regex"

(* What a reader makes of a file: cells that are read as amounts, and the  *)
(* days that dates stand for, are numbers, and the date token of a line is *)
(* written as its pattern says.                                            *)
ASSUME ContentAssumption ==
    \A f \in File :
        LET file == Content[f]
            day(cell) == \A k \in DOMAIN Format : Day(cell, Format[k]) \in Nat
            read(cell) == day(cell) /\ (cell.kind = "amount" => cell.value \in Int)
            written(line) ==
                /\ line.pattern \in {"none", "slash", "iso"}
                /\ line.pattern # "none" => day(line.date)
                /\ line.pattern = "slash" => ~Reads(line.date, "iso")
                /\ line.pattern = "iso" => ~Reads(line.date, "mdy") /\ ~Reads(line.date, "dmy")
        IN  /\ file.meant \in Seq(Int)
            /\ Len(file.lines) \in Nat /\ DOMAIN file.lines = 1..Len(file.lines)
            /\ IF IsGrid(file)
               THEN \A i \in DOMAIN file.lines :
                       \A c \in DOMAIN file.lines[i] : read(file.lines[i][c])
               ELSE \A i \in DOMAIN file.lines :
                       file.lines[i].amounts \in Seq(Int) /\ written(file.lines[i])

Blank == [kind |-> "blank"]

ParseAmount(cell) == IF cell.kind = "amount" THEN cell.value ELSE None

(* Mutation: a row whose amount could not be resolved is skipped.          *)
OutcomeSkipsUnsigned(refused, rows, day, signed, convention, warned, layout) ==
    [rows |-> [i \in DOMAIN signed |->
                 [day |-> day[i], amount |-> signed[i], balance |-> rows[i].balance]],
     failed |-> refused,
     warned |-> warned \/ Warned(convention, rows, day),
     convention |-> convention, layout |-> layout]

(* What a parser returns.  refused: lines it gave up before their amount.  *)
Outcome(refused, rows, day, signed, convention, warned, layout) ==
    [rows |-> [i \in DOMAIN signed |->
                 [day |-> day[i], amount |-> signed[i], balance |-> rows[i].balance]],
     failed |-> refused \cup (DOMAIN rows \ DOMAIN signed),
     warned |-> warned \/ Warned(convention, rows, day),
     convention |-> convention, layout |-> layout]

(* resolve_signs, with the convention that the rows decide.                *)
Resolve(refused, rows, day, convention, warned, layout) ==
    Outcome(refused, rows, day, Signed(convention, rows, day), convention, warned, layout)

(* map: the column of each role; print: what a profile is found by.        *)
Layout(roles, format, print) == [map |-> roles, format |-> format, print |-> print]

-----------------------------------------------------------------------------
(* grid_parser.  roles maps each role to its column.                       *)

Column(line, roles, role) ==
    IF role \in DOMAIN roles /\ roles[role] \in DOMAIN line THEN line[roles[role]] ELSE Blank

DateCells(file, roles) ==
    LET date(i) == Column(file.lines[i], roles, "date")
        filled == {i \in Sample(DOMAIN file.lines) : date(i).kind # "blank"}
    IN  [i \in filled |-> date(i)]

GridRows(lines, kept, roles) ==
    LET amount(i, role) == ParseAmount(Column(lines[i], roles, role))
        indicator(cell) == IF cell.kind = "text" THEN cell.value ELSE "other"
    IN  [i \in kept |->
           [debit |-> amount(i, "debit"), credit |-> amount(i, "credit"),
            amount |-> amount(i, "amount"), balance |-> amount(i, "balance"),
            indicator |-> indicator(Column(lines[i], roles, "sign_indicator"))]]

(* Lines that have a cell in every column it takes, and a date.            *)
GridKept(lines, roles, format) ==
    {i \in DOMAIN lines :
        /\ \A r \in {"date", "description", "amount", "debit", "credit"} \cap DOMAIN roles :
              roles[r] <= Len(lines[i])
        /\ Reads(Column(lines[i], roles, "date"), format)}

GridOutcome(file, rows, roles, format, warned) ==
    Resolve(DOMAIN file.lines \ DOMAIN rows, rows,
            [i \in DOMAIN rows |-> Day(Column(file.lines[i], roles, "date"), format)],
            Convention(DOMAIN roles, rows), warned, Layout(roles, format, file.header))

ParseGridRows(file, roles, format, warned) ==
    GridOutcome(file, GridRows(file.lines, GridKept(file.lines, roles, format), roles),
                roles, format, warned)

ParseGrid(file, found) ==
    ParseGridRows(file, found.roles, DetectDateFormat(DateCells(file, found.roles)),
                  found.warned)

ColdGrid(file) == ParseGrid(file, ClassifyColumns(file.header, file.lines))

(* Mutation: a date column in no one format is not refused.                *)
GridUnresolvableUndated(file) ==
    Len(file.lines) = 0 \/ ~Complete(ClassifyColumns(file.header, file.lines).roles)

GridUnresolvable(file) ==
    LET undated(roles) == DetectDateFormat(DateCells(file, roles)) = "none"
        refused(roles) == ~Complete(roles) \/ undated(roles)
    IN  Len(file.lines) = 0 \/ refused(ClassifyColumns(file.header, file.lines).roles)

-----------------------------------------------------------------------------
(* pdf_text_parser.  A line that has no date token is prose.               *)

Dated(lines) == {i \in DOMAIN lines : lines[i].pattern # "none"}

WithPattern(lines, pattern) == {i \in DOMAIN lines : lines[i].pattern = pattern}

Precedes(S, T) ==
    \/ Cardinality(S) > Cardinality(T)
    \/ Cardinality(S) = Cardinality(T) /\ \E i \in S : \A j \in T : i < j

(* The most frequent, and of those the one met first.                      *)
Dominant(lines) ==
    CHOOSE p \in {lines[i].pattern : i \in Dated(lines)} :
        \A i \in Dated(lines) : lines[i].pattern # p =>
            Precedes(WithPattern(lines, p), WithPattern(lines, lines[i].pattern))

Sampled(lines, pattern) == [i \in Sample(WithPattern(lines, pattern)) |-> lines[i]]

TextDates(sampled) == [k \in DOMAIN sampled |-> sampled[k].date]

TextFormat(pattern, sampled) ==
    IF pattern = "slash" THEN ResolveDateOrder(TextDates(sampled)) ELSE "iso"

AmountsPerLine(sampled) ==
    LET times(n) == Cardinality({k \in DOMAIN sampled : Len(sampled[k].amounts) = n})
        ahead(n, m) == times(n) > times(m) \/ (times(n) = times(m) /\ n < m)
        counts == {Len(sampled[k].amounts) : k \in DOMAIN sampled}
    IN  CHOOSE n \in counts : \A m \in counts \ {n} : ahead(n, m)

TextRows(lines, kept, columns) ==
    LET balanced(amounts) == columns >= 2 /\ Len(amounts) >= 2
        row(amounts, amount, balance) ==
            [debit |-> None, credit |-> None, indicator |-> "other",
             amount |-> amount, balance |-> balance]
        cells(amounts) ==
            IF balanced(amounts)
            THEN row(amounts, amounts[Len(amounts) - 1], Last(amounts))
            ELSE row(amounts, amounts[1], None)
    IN  [i \in kept |-> cells(lines[i].amounts)]

TextKept(lines, pattern, format) ==
    {i \in WithPattern(lines, pattern) : lines[i].amounts # << >> /\ Reads(lines[i].date, format)}

TextOutcome(lines, rows, pattern, format, columns) ==
    LET roles == IF columns >= 2 THEN [amount |-> 0, balance |-> 1] ELSE [amount |-> 0]
    IN  Resolve(Dated(lines) \ DOMAIN rows, rows,
                [i \in DOMAIN rows |-> Day(lines[i].date, format)],
                Convention(DOMAIN roles, rows), FALSE,
                Layout(roles, format, <<pattern, format, columns>>))

ParseText(lines, pattern, format, columns) ==
    TextOutcome(lines, TextRows(lines, TextKept(lines, pattern, format), columns),
                pattern, format, columns)

ParseTextLines(lines) ==
    LET parse(pattern, sampled) ==
            ParseText(lines, pattern, TextFormat(pattern, sampled), AmountsPerLine(sampled))
        given(pattern) == parse(pattern, Sampled(lines, pattern))
    IN  given(Dominant(lines))

(* No date token at all, or an OCR run that is not worth reading.          *)
TextUnresolvable(file) ==
    \/ Structure(file) \in {"pdf_scan_ocr", "image_scan_ocr"} /\ ~file.legible
    \/ Dated(file.lines) = {}

-----------------------------------------------------------------------------
(* Cold detection, of the files that have a structure.                     *)

Unresolvable(file) == IF IsGrid(file) THEN GridUnresolvable(file) ELSE TextUnresolvable(file)

Resolvable == {f \in File : ~Unresolvable(Content[f])}

ColdParse ==
    [f \in Resolvable |->
        IF IsGrid(Content[f]) THEN ColdGrid(Content[f]) ELSE ParseTextLines(Content[f].lines)]

(* The profile it teaches.  For a grid, map gives the text over each role. *)
Learned(file, outcome) ==
    [type |-> ProfileType(file), print |-> outcome.layout.print,
     map |-> IF IsGrid(file)
             THEN [r \in DOMAIN outcome.layout.map |-> file.header[outcome.layout.map[r]]]
             ELSE outcome.layout.print,
     format |-> outcome.layout.format, convention |-> outcome.convention]

-----------------------------------------------------------------------------
(* Profiles.                                                               *)

NoProfile == [type |-> "none"]

Fingerprint(f) ==
    IF IsGrid(Content[f]) THEN Content[f].header ELSE ColdParse[f].layout.print

Exact(type, print) == {k \in DOMAIN profiles : profiles[k].type = type /\ profiles[k].print = print}

(* find_candidate_profile: an exact hit, else one that is similar enough.  *)
Candidates(type, print) ==
    IF Exact(type, print) # {} THEN Exact(type, print)
    ELSE {k \in DOMAIN profiles : profiles[k].type = type /\ Similar(profiles[k].print, print)}

CandidatesFor(f) == Candidates(ProfileType(Content[f]), Fingerprint(f))

(* A stored header text is found where the same text is (WRatio 95).       *)
RolesFromProfile(file, profile) ==
    LET found == {r \in DOMAIN profile.map : profile.map[r] \in ToSet(file.header)}
    IN  [r \in found |-> CHOOSE c \in DOMAIN file.header :
            /\ file.header[c] = profile.map[r]
            /\ \A d \in 1..(c - 1) : file.header[d] # profile.map[r]]

(* Mutation: the stored date format is trusted without a look at the file. *)
DateFormatAlwaysFits(cells, format) == DOMAIN cells # {}

DateFormatStillFits(cells, format) ==
    /\ DOMAIN cells # {}
    /\ 5 * Cardinality(Readable(cells, format)) >= 4 * Cardinality(DOMAIN cells)

(* _try_reuse_grid_profile: the roles and the date format are tried out.   *)
Fits(file, profile) ==
    LET fit(roles) ==
            Complete(roles) /\ DateFormatStillFits(DateCells(file, roles), profile.format)
    IN  Len(file.lines) > 0 /\ fit(RolesFromProfile(file, profile))

(* Parsed with the roles and the format of a profile, or all over again.   *)
Reparse(f, profile) ==
    IF IsGrid(Content[f])
    THEN ParseGridRows(Content[f], RolesFromProfile(Content[f], profile), profile.format, FALSE)
    ELSE ColdParse[f]

(* Mutation: parse_status looks at the rows only, not at the warnings.     *)
StatusOfRows(outcome) ==
    IF DOMAIN outcome.rows = {} THEN "failed_needs_manual"
    ELSE IF outcome.failed # {} THEN "parsed_with_warnings" ELSE "parsed_clean"

ParseStatus(outcome) ==
    IF DOMAIN outcome.rows = {} THEN "failed_needs_manual"
    ELSE IF outcome.failed # {} \/ outcome.warned THEN "parsed_with_warnings"
    ELSE "parsed_clean"

-----------------------------------------------------------------------------
NoOutcome == [rows |-> << >>]

Idle == [pc |-> "idle", file |-> NoFile, seen |-> 0, read |-> NoProfile,
         method |-> "none", outcome |-> NoOutcome]

Init ==
    /\ profiles = << >>
    /\ proc = [p \in Process |-> Idle]

(* A file of text is parsed before any profile is looked for.              *)
Upload(p, f) ==
    /\ proc[p].pc = "idle"
    /\ Len(profiles) < MaxProfiles \/ (f \in Resolvable /\ CandidatesFor(f) # {})
    /\ proc' = [proc EXCEPT ![p] =
         [Idle EXCEPT !.file = f,
                      !.pc = IF ~IsGrid(Content[f]) /\ f \notin Resolvable
                             THEN "done" ELSE "lookup"]]
    /\ UNCHANGED profiles

Reuse(p) ==
    LET file == Content[proc[p].file]
    IN  /\ proc[p].pc = "lookup"
        /\ \E k \in CandidatesFor(proc[p].file) :
            /\ IsGrid(file) => Fits(file, profiles[k])
            /\ proc' = [proc EXCEPT ![p].pc = "done", ![p].method = "profile_reuse",
                                    ![p].outcome = Reparse(proc[p].file, profiles[k]),
                                    ![p].read = profiles[k]]
        /\ UNCHANGED profiles

(* No candidate, or one that does not fit: it stays loaded.                *)
Cold(p) ==
    LET f == proc[p].file
        loaded(found) == IF found = {} THEN {0} ELSE found
    IN  /\ proc[p].pc = "lookup"
        /\ \E k \in loaded(CandidatesFor(f)) :
            /\ k # 0 => IsGrid(Content[f]) /\ ~Fits(Content[f], profiles[k])
            /\ proc' = [proc EXCEPT ![p] =
                 IF f \in Resolvable
                 THEN [@ EXCEPT !.pc = "select", !.seen = k,
                                !.read = IF k = 0 THEN NoProfile ELSE profiles[k],
                                !.outcome = ColdParse[f]]
                 ELSE [@ EXCEPT !.pc = "done"]]
        /\ UNCHANGED profiles

(* _upsert_profile.  An object the session has loaded before is not loaded *)
(* again by a SELECT that finds its row.                                   *)
UpsertSelect(p) ==
    LET hit(found) == IF found = {} THEN {0} ELSE found
    IN  /\ proc[p].pc = "select"
        /\ \E k \in hit(Exact(ProfileType(Content[proc[p].file]), proc[p].outcome.layout.print)) :
            proc' = [proc EXCEPT ![p].pc = "upsert", ![p].seen = k,
                       ![p].read = IF k = 0 THEN NoProfile
                                   ELSE IF k = proc[p].seen THEN @ ELSE profiles[k]]
        /\ UNCHANGED profiles

(* The UPDATE writes the columns that differ from the loaded row.          *)
UpsertCommit(p) ==
    LET k == proc[p].seen
        written(new) ==
            IF k = 0 THEN Append(profiles, new)
            ELSE [profiles EXCEPT ![k] =
                    [c \in DOMAIN @ |-> IF new[c] = proc[p].read[c] THEN @[c] ELSE new[c]]]
    IN  /\ proc[p].pc = "upsert"
        /\ profiles' = written(Learned(Content[proc[p].file], proc[p].outcome))
        /\ proc' = [proc EXCEPT ![p].pc = "done", ![p].method = "cold_detection",
                                ![p].seen = 0, ![p].read = NoProfile]

(* The pipeline commits the rows, the failures and the status.             *)
Finish(p) ==
    /\ proc[p].pc = "done"
    /\ proc' = [proc EXCEPT ![p] = Idle]
    /\ UNCHANGED profiles

Next ==
    \E p \in Process :
        \/ \E f \in File : Upload(p, f)
        \/ Reuse(p) \/ Cold(p) \/ UpsertSelect(p) \/ UpsertCommit(p) \/ Finish(p)

Spec == Init /\ [][Next]_vars

-----------------------------------------------------------------------------
TypeOK ==
    /\ \A k \in DOMAIN profiles :
        /\ DOMAIN profiles[k] = {"type", "print", "map", "format", "convention"}
        /\ profiles[k].format \in ToSet(Format)
    /\ \A p \in Process :
        /\ proc[p].pc \in {"idle", "lookup", "select", "upsert", "done"}
        /\ proc[p].file \in File \cup {NoFile}
        /\ proc[p].seen \in 0..Len(profiles)
        /\ proc[p].method \in {"none", "profile_reuse", "cold_detection"}

Parsed(p) == proc[p].pc = "done" /\ proc[p].method # "none"

Lines(file) == IF IsGrid(file) THEN DOMAIN file.lines ELSE Dated(file.lines)

(* "Never a silent drop" (pipeline.py:15-20): every data line of a grid    *)
(* and every line of text with a date becomes a transaction or a failure   *)
(* for review, never both and never neither, whichever profile was used.   *)
EveryLineAccounted ==
    \A p \in Process : Parsed(p) =>
        LET outcome == proc[p].outcome
        IN  /\ DOMAIN outcome.rows \cup outcome.failed = Lines(Content[proc[p].file])
            /\ DOMAIN outcome.rows \cap outcome.failed = {}

(* A statement reported as parsed_clean has the sign of every amount as    *)
(* its bank meant it: what was assumed is never reported as clean, neither *)
(* by the parser nor under a profile another file has taught               *)
(* (sign_convention.py, pipeline.py:74-79).                                *)
CleanMeansRight ==
    \A p \in Process : Parsed(p) =>
        LET outcome == proc[p].outcome
        IN  ParseStatus(outcome) = "parsed_clean" =>
                \A i \in Lines(Content[proc[p].file]) :
                    outcome.rows[i].amount = Content[proc[p].file].meant[i]

(* What a profile holds that only file f has taught.                       *)
Lesson(f) == Learned(Content[f], ColdParse[f])

(* The roles a grid may be read with: those of its own columns, or those   *)
(* that a profile learned from some file gives it.                         *)
RolesUsed(f) ==
    LET file == Content[f]
        teachers == {g \in Resolvable : ProfileType(Content[g]) = ProfileType(file)}
    IN  {ClassifyColumns(file.header, file.lines).roles}
        \cup {RolesFromProfile(file, Lesson(g)) : g \in teachers}

TextNames(columns) == {"amount"} \cup (IF columns >= 2 THEN {"balance"} ELSE {})

(* The rows that may be read from a file, with the names of their columns. *)
Readings(f) ==
    LET lines == Content[f].lines
        grid(roles, format) ==
            [names |-> DOMAIN roles, rows |-> GridRows(lines, GridKept(lines, roles, format), roles)]
        text(pattern, format, columns) ==
            [names |-> TextNames(columns),
             rows |-> TextRows(lines, TextKept(lines, pattern, format), columns)]
        columns(pattern) == AmountsPerLine(Sampled(lines, pattern))
    IN  IF IsGrid(Content[f])
        THEN {grid(roles, format) : roles \in RolesUsed(f), format \in ToSet(Format)}
        ELSE IF f \in Resolvable
        THEN {text(Dominant(lines), format, columns(Dominant(lines))) : format \in ToSet(Format)}
        ELSE {}

(* The bank means what it prints: in two columns, with a minus, or with an *)
(* indicator.                                                              *)
MeansPrinted(names, rows, meant) ==
    IF {"debit", "credit"} \subseteq names
    THEN \A i \in Moving(rows) :
            meant[i] = OrZero(rows[i].credit) - Magnitude(OrZero(rows[i].debit))
    ELSE IF \E i \in Amounted(rows) : rows[i].amount < 0
    THEN \A i \in Amounted(rows) : meant[i] = rows[i].amount
    ELSE "sign_indicator" \in names => \A i \in Amounted(rows) :
            /\ rows[i].indicator = "cr" => meant[i] = rows[i].amount
            /\ rows[i].indicator = "dr" => meant[i] = -rows[i].amount

SignsMeant ==
    \A f \in File : \A reading \in Readings(f) :
        MeansPrinted(reading.names, reading.rows, Content[f].meant)

(* Where each row carries its amount and the balance after it, and the     *)
(* rows of one day are printed in the order they happened (newest first:   *)
(* one row a day), every row but the oldest gets its sign, although no     *)
(* sign is printed (sign_convention.py:88-131).                            *)
BalanceTellsSign ==
    \A p \in Process : Parsed(p) =>
        LET rows == proc[p].outcome.rows
            meant == Content[proc[p].file].meant
            n == Len(meant)
            day == [i \in DOMAIN rows |-> rows[i].day]
            signed == [i \in DOMAIN rows |-> rows[i].amount]
            printed == [i \in DOMAIN rows |->
                          [amount |-> Magnitude(rows[i].amount), balance |-> rows[i].balance]]
        IN  proc[p].outcome.convention = "single_column_balance_inferred" =>
                /\ OldestFirst(printed, meant, day, n) => SignTold(signed, meant, n, 1)
                /\ NewestFirst(printed, meant, day, n) => SignTold(signed, meant, n, n)

(* Sampled dates that can be read in one format only, the bank's.          *)
Proving(cells, format) ==
    {i \in DOMAIN cells : {f \in ToSet(Format) : Reads(cells[i], f)} = {format}}

DateOf(file, roles, i) ==
    IF IsGrid(file) THEN Column(file.lines[i], roles, "date") ELSE file.lines[i].date

(* A profile learned from a file whose dates could be read both ways may   *)
(* hold the wrong format, and a file that could be read both ways cannot   *)
(* tell.  But a file in which more than a fifth of the sampled dates prove *)
(* their format has all its dates right, whatever was learned before it    *)
(* and by whom (profile_service.py:97-106, text_utils.py:72-95).           *)
ProvenDatesRight ==
    \A p \in Process : Parsed(p) =>
        LET file == Content[proc[p].file]
            outcome == proc[p].outcome
            cells == IF IsGrid(file) THEN DateCells(file, outcome.layout.map)
                     ELSE TextDates(Sampled(file.lines, Dominant(file.lines)))
        IN  /\ Readable(cells, file.format) = DOMAIN cells
            /\ 5 * Cardinality(Proving(cells, file.format)) > Cardinality(DOMAIN cells)
            => \A i \in DOMAIN outcome.rows :
                    outcome.rows[i].day = Day(DateOf(file, outcome.layout.map, i), file.format)

(* "Persisted on the BankProfile so the same choice is reused (not         *)
(* re-derived) next time this layout is seen" (sign_convention.py:34-37).  *)
ConventionReused ==
    \A p \in Process :
        Parsed(p) /\ proc[p].method = "profile_reuse" /\ IsGrid(Content[proc[p].file]) =>
            proc[p].outcome.convention = proc[p].read.convention
=============================================================================
