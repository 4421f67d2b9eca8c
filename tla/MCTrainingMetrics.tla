------------------------- MODULE MCTrainingMetrics -------------------------
(***************************************************************************)
(* Instances of TrainingMetrics for TLC: tables, and the metrics of the    *)
(* libraries.                                                              *)
(***************************************************************************)
EXTENDS TrainingMetrics

\* Numbers at the edge of floats up to 50: two of them may overflow in the sum (40
\* and 45), in a square (1 and 40), in the sum of squares (0 and 12), or not at all.
MCNumerals == {"0", "1", "2", "4", "12", "40", "45"}
MCValue == [c \in MCNumerals |->
              CASE c = "0" -> 0 [] c = "1" -> 1 [] c = "2" -> 2 [] c = "4" -> 4
                [] c = "12" -> 12 [] c = "40" -> 40 [] c = "45" -> 45]

Table(h, rs) == [header |-> h, rows |-> rs]

\* Two data rows: a target in first and in last place that is no number, not
\* finite, or neither.
MCPairs ==
    { Table(<<"y", "x">>, <<<<"1", "nan">>, <<"inf", "4">>>>),
      Table(<<"x", "z">>, <<<<"1", "nan">>, <<"0", "4">>>>),
      Table(<<"x", "z">>, <<<<"1", "word">>, <<"inf", "4">>>>) }

\* Short, long, blank, single-column and empty files, and three rows.
MCOddities ==
    { Table(<<>>, <<>>),
      Table(<<"x">>, <<<<"1">>, <<"2">>>>),
      Table(<<"x", "">>, <<<<"1", "2">>, <<"2", "4">>>>),
      Table(<<"x", "z">>, <<<<"", "">>, <<"">>, <<>>>>),
      Table(<<"x", "z">>, <<<<"1", "2">>, <<"2">>>>),
      Table(<<"x", "z">>, <<<<"null", "null">>, <<"1", "null">>>>),
      Table(<<"x", "label", "y">>, <<<<"1", "word", "4">>, <<"", "", "">>, <<"0", "1", "2">>>>),
      Table(<<"target", "x">>, <<<<"2", "0">>, <<"2", "1">>, <<"1", "4">>>>) }

MCLarge == { Table(<<"x", "y">>, <<<<"1", a>>, <<"2", b>>>>) :
               <<a, b>> \in {<<"0", "12">>, <<"1", "40">>, <<"40", "45">>} }

MCTables == MCPairs \cup MCOddities \cup MCLarge

MCHeavyMetrics ==
    { [task |-> "classification", finite |-> TRUE,
       values |-> [m \in Measures |-> IF m \in {"r2", "mse", "mae"} THEN {} ELSE {0}]],
      [task |-> "regression", finite |-> TRUE,
       values |-> [Nothing EXCEPT !["r2"] = {-36}, !["mse"] = {144}, !["mae"] = {72}]],
      [task |-> "regression", finite |-> FALSE,
       values |-> [Nothing EXCEPT !["mae"] = {72}]] }

=============================================================================
