----------------------------- MODULE MCDocuments -----------------------------
(* A small instance of the documents for TLC.                                *)
EXTENDS Documents

\* In their order: 0 is empty, 1 is "a", 2 is "a.t.tdbdb", whose stem is 3,
\* "a.tdb"; 5 is the letter "a" 65,536 times, in which a reader finds the empty
\* name, and then 4, its 24,929 times, as often as the two letters in front of
\* it say; it finds that twice and then too few.  6 is a letter that is cut to
\* an "a", and 7 is 6 with ".tdb" behind it.
MCTexts == 0..7
MCCut   == [s \in MCTexts |-> CASE s = 6 -> 1 [] s = 7 -> 3 [] OTHER -> s]
MCStem  == [s \in MCTexts |-> CASE s = 2 -> 3 [] s = 3 -> 1 [] s = 7 -> 6 [] OTHER -> s]
MCSpill == <<0, 4, 4>>

\* -0.0 and a text; two names that are cut to one, an integer and NaN, with a
\* list and a name too long in front of another field; a name too long in front
\* of so many that the reader throws.
MCInputs == {<< <<1, <<"float", -1>>>>, <<4, <<"string", 6>>>> >>,
             << <<1, <<"int", 4>>>>, <<6, <<"float", 400>>>>, <<3, <<"other", 0>>>>,
                <<5, <<"bool", 1>>>>, <<2, <<"int", 0>>>> >>,
             << <<5, <<"bool", 1>>>>, <<1, <<"int", 0>>>>, <<3, Null>>, <<4, Null>> >>}

MCFilters ==
  LET leaves == {Simple(t, 1, <<"int", 0>>) : t \in {"eq", "ne", "gt", "lt", "gte", "lte"}}
                \cup {Simple(t, 1, <<"float", 4>>) : t \in {"eq", "lte"}}
                \cup {Simple("ne", 5, <<"bool", 0>>), Simple("gt", 4, Null),
                      InRange(1, <<"int", 0>>, <<"float", 4>>)}
      narrow == InRange(1, <<"float", -1>>, <<"float", 400>>)
      texts  == {Simple("eq", 4, <<"string", 4>>), Simple("lt", 4, Null)}
      pairs  == {Joined(t, {narrow, g}) : t \in {"and", "or"}, g \in texts}
      nested == Joined("or", {Joined("and", {narrow, Simple("lt", 4, Null)}),
                              Simple("gt", 4, Null)})
  IN  leaves \cup {narrow} \cup texts \cup pairs \cup {nested, All}
=============================================================================
