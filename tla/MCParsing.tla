------------------------------ MODULE MCParsing ------------------------------
(***************************************************************************)
(* Files for TLC.  Amounts are in cents.  A grid line is a sequence of     *)
(* cells; a line of text has the pattern of its date token ("none" for     *)
(* prose), the token as a cell, and its amounts.                           *)
(***************************************************************************)
EXTENDS Parsing


(* 3/4/2025 is March 4 or April 3; 13/4/2025 has one reading only.         *)
Slash(a, b) ==
    [kind |-> "date", day |-> [mdy |-> IF a <= 12 THEN 100 * a + b ELSE 0,
                               dmy |-> IF b <= 12 THEN 100 * b + a ELSE 0, iso |-> 0]]

Iso(m, d) == [kind |-> "date", day |-> [mdy |-> 0, dmy |-> 0, iso |-> 100 * m + d]]

Num(x) == [kind |-> "amount", value |-> x]

Txt(x) == [kind |-> "text", value |-> x]

Csv(header, format, lines, meant) ==
    [pdf |-> FALSE, image |-> FALSE, table |-> FALSE, text |-> FALSE, legible |-> TRUE,
     header |-> header, lines |-> lines, format |-> format, meant |-> meant]

Text(format, lines, meant) ==
    [pdf |-> TRUE, image |-> FALSE, table |-> FALSE, text |-> TRUE, legible |-> TRUE,
     header |-> << >>, lines |-> lines, format |-> format, meant |-> meant]

Line(pattern, date, amounts) == [pattern |-> pattern, date |-> date, amounts |-> amounts]

Scores(best) == [r \in {Role[k] : k \in DOMAIN Role} |-> IF r \in DOMAIN best THEN best[r] ELSE 0]

(* "Value Date" also resembles "value", a synonym of the amount.           *)
MCScore ==
    [text \in {"date", "value date", "details", "amount", "balance", "debit", "credit", "type"} |->
        Scores(CASE text = "date" -> [date |-> 100]
                 [] text = "value date" -> [date |-> 100, amount |-> 90]
                 [] text = "details" -> [description |-> 100]
                 [] text = "amount" -> [amount |-> 100, debit |-> 90, credit |-> 90]
                 [] text = "balance" -> [balance |-> 100]
                 [] text = "debit" -> [debit |-> 100]
                 [] text = "credit" -> [credit |-> 100]
                 [] text = "type" -> [sign_indicator |-> 100])]

Plain == <<"date", "details", "amount">>

WithBalance == <<"date", "details", "amount", "balance">>

Hidden == <<"value date", "details", "amount", "balance">>

Columns == <<"value date", "details", "debit", "credit">>

Typed2 == <<"date", "details", "type", "amount">>

Entry(date, amount) == <<date, Txt("shop"), Num(amount)>>

MCContent ==
    (* Its dates can be read both ways: with four digits of the year, month *)
    (* first is tried first.                                                *)
    [us_signed |-> Csv(Plain, "mdy",
        <<Entry(Slash(3, 4), -500), Entry(Slash(3, 5), 1200), Entry(Slash(3, 6), -250)>>,
        <<-500, 1200, -250>>),
     (* The same layout at a bank that writes the day first, proved by two   *)
     (* dates of the first five; with a row without an amount and a short    *)
     (* row; longer than the sample.                                        *)
     eu_proved |-> Csv(Plain, "dmy",
        <<Entry(Slash(3, 4), -500), Entry(Slash(13, 4), 900), Entry(Slash(14, 4), -100),
          <<Slash(4, 4), Txt("fee"), Txt("n/a")>>, <<Slash(5, 4), Txt("note")>>,
          Entry(Slash(20, 4), -300)>>,
        <<-500, 900, -100, 0, 0, -300>>),
     (* One date of five proves the format: not enough to be refused.       *)
     eu_boundary |-> Csv(Plain, "dmy",
        <<Entry(Slash(3, 4), -500), Entry(Slash(4, 4), 900), Entry(Slash(5, 4), -100),
          Entry(Slash(6, 4), -200), Entry(Slash(13, 4), -300)>>,
        <<-500, 900, -100, -200, -300>>),
     (* A month of deposits only: no sign tells the convention.             *)
     deposits |-> Csv(Plain, "mdy",
        <<Entry(Slash(3, 14), 500), Entry(Slash(3, 15), 700)>>, <<500, 700>>),
     ledger |-> Csv(WithBalance, "mdy",
        <<<<Slash(3, 14), Txt("pay"), Num(500), Num(1500)>>,
          <<Slash(3, 15), Txt("shop"), Num(200), Num(1300)>>,
          <<Slash(3, 15), Txt("pay"), Num(300), Num(1600)>>>>, <<500, -200, 300>>),
     newest_first |-> Csv(WithBalance, "mdy",
        <<<<Slash(3, 15), Txt("pay"), Num(300), Num(1600)>>,
          <<Slash(3, 14), Txt("shop"), Num(200), Num(1300)>>,
          <<Slash(3, 13), Txt("pay"), Num(500), Num(1500)>>>>, <<300, -200, 500>>),
     (* Dates in no one format.                                             *)
     undated |-> Csv(Plain, "mdy",
        <<Entry(Slash(3, 14), -500), Entry(Iso(3, 15), 700), Entry(Txt("?"), -100),
          Entry(Txt("?"), -100), Entry(Txt("?"), -100)>>, <<-500, 700, -100, -100, -100>>),
     (* A balance column that holds no balances.                            *)
     hidden |-> Csv(Hidden, "mdy",
        <<<<Slash(3, 14), Txt("pay"), Num(500), Txt("n/a")>>,
          <<Slash(3, 15), Txt("shop"), Num(-200), Txt("n/a")>>>>, <<500, -200>>),
     columns |-> Csv(Columns, "iso",
        <<<<Iso(3, 4), Txt("shop"), Num(200), Blank>>, <<Iso(3, 5), Txt("pay"), Blank, Num(500)>>,
          <<Iso(3, 6), Txt("note"), Blank, Blank>>, <<Txt("total"), Txt(""), Num(200), Num(500)>>>>,
        <<-200, 500, 0, 0>>),
     indicator |-> Csv(Typed2, "mdy",
        <<<<Slash(3, 14), Txt("shop"), Txt("dr"), Num(200)>>,
          <<Slash(3, 15), Txt("pay"), Txt("cr"), Num(500)>>>>, <<-200, 500>>),
     reversal |-> Csv(Typed2, "mdy",
        <<<<Slash(3, 14), Txt("shop"), Txt("dr"), Num(200)>>,
          <<Slash(3, 15), Txt("refund"), Txt("rev"), Num(200)>>>>, <<-200, 200>>),
     text_balance |-> Text("dmy",
        <<Line("none", Blank, << >>), Line("slash", Slash(3, 4), <<500, 1500>>),
          Line("slash", Slash(13, 4), <<200, 1300>>), Line("slash", Slash(14, 4), << >>),
          Line("iso", Iso(4, 15), <<100, 1200>>)>>,
        <<0, 500, -200, 0, -100>>),
     text_signed |-> Text("iso",
        <<Line("iso", Iso(4, 3), <<-500>>), Line("iso", Iso(4, 4), <<700>>)>>, <<-500, 700>>),
     scan |-> [Text("iso", << >>, << >>) EXCEPT !.text = FALSE, !.legible = FALSE]]

(* WRatio takes a header for another one that it is a part of.             *)
MCSimilar(print, other) == {print, other} = {Plain, WithBalance}

(* The banks of these files mean what they print.                          *)
ASSUME SignsMeant

Symmetry == Permutations(Process)
=============================================================================
