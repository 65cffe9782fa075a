------------------------------ MODULE MCSourceCrawl ------------------------------
(***************************************************************************)
(* Small instances of SourceCrawl.                                         *)
(***************************************************************************)
EXTENDS SourceCrawl, TLC

CONSTANTS n1, n2, n3

R(n, top) == [id |-> n, top |-> top, title |-> 1]

SmallBoards == {[tops |-> <<>>, others |-> <<>>],
                [tops |-> <<R(n1, TRUE)>>, others |-> <<R(n2, FALSE)>>],
                [tops |-> <<R(n1, TRUE)>>, others |-> <<R(n2, FALSE), R(n3, FALSE)>>]}

\* The API tells its last page and total, or the total alone, or neither; a
\* crawl is incremental, or must read the known notice, or reads everything.
SmallSettings ==
    {[size |-> size, more |-> more, total |-> total, repeats |-> more,
      fallback |-> fallback, incremental |-> total # "all", due |-> due,
      targeted |-> due] :
        <<size, more, total, fallback, due>> \in
            {<<1, TRUE, "others", TRUE, {}>>, <<2, FALSE, "none", TRUE, {n2}>>,
             <<2, FALSE, "all", FALSE, {}>>}}

FullBodies == {[n \in Notices |-> "full"]}
OneBare == FullBodies \cup {[n \in Notices |-> IF n = n2 THEN "bare" ELSE "full"]}

\* n1 is new; n2 was recorded with another title.
KnownRows == {[id |-> n2, top |-> FALSE, title |-> 2]}
=============================================================================
