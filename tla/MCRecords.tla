------------------------------ MODULE MCRecords ------------------------------
EXTENDS Records, TLC

CONSTANTS a, b, case, client, title, when, tags

MCField(kind, allowed, required) ==
  [kind |-> kind, allowed |-> allowed, required |-> required, index |-> TRUE,
   precision |-> 0, onCoarser |-> "none"]

MCDate == [MCField("string", {"day", "second"}, FALSE)
             EXCEPT !.precision = 5, !.onCoarser = "error"]

\* A case has a title, a client may have one, a number at that.
MCSchema ==
  case :> (title :> MCField("string", Texts, TRUE) @@ when :> MCDate
             @@ tags :> MCField("list", {}, FALSE))
    @@ client :> (title :> MCField("number", {}, FALSE) @@ when :> MCDate
             @@ tags :> MCField("string", {"word"}, FALSE))

MCGiven(id, type, fields) == [doc_id |-> id, doc_type |-> type, fields |-> fields]

MCInputs ==
  {MCGiven(Keep, Keep, title :> Str("lines") @@ tags :> List(<<Str("comma")>>)),
   MCGiven(Keep, Keep, title :> Str("digits") @@ tags :> List(<<Str("digits")>>)),
   MCGiven(Keep, Keep, title :> Str("word") @@ tags :> List(<<Str("mark")>>)),
   MCGiven(Keep, Keep, when :> Str("second")),
   MCGiven(Keep, Keep, title :> Number("digits")),
   MCGiven(b, Keep, title :> Str("word")),
   MCGiven(NotAnId, Keep, title :> Str("word")),
   MCGiven(Keep, client, title :> Str("word"))}

MCHandWritten ==
  {NoFile,
   [doc_id |-> a, doc_type |-> case,
    fields |-> title :> Str("word") @@ when :> Str("day") @@ tags :> Null]}
=============================================================================
