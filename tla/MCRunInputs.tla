----------------------------- MODULE MCRunInputs -----------------------------
(* Schedule: a nightly on cron that skips, open from the start, and an       *)
(* interval that does not, in a window that opens late and closes early.     *)
(* Context: two rooms of one worker, one with ambient talk; files that are   *)
(* at a limit and one over it; two notes, one of them updated or forgotten.  *)
EXTENDS RunInputs, TLC

CONSTANTS nightly, poll, s1, s2

Periods == nightly :> 2 @@ poll :> 2
Froms == nightly :> 1 @@ poll :> 2
Untils == nightly :> 9 @@ poll :> 4

Said(r, n, w) == [room |-> r, chars |-> n, wakes |-> w]

MCSay == <<Said("lab", 2, TRUE), Said("lab", 1, FALSE), Said("lab", 1, TRUE)>>

Job(r, n, c) == [room |-> r, chars |-> n, carry |-> c]

MCErrands == {Job("lab", 1, 0), Job(Outside, 1, 2), Job("lab", 4, 4), Job(Outside, 6, 0)}

Note(id, n, ts, p, g) == [id |-> id, chars |-> n, ts |-> ts, pinned |-> p, gone |-> g]

MCNotes == {Note("n1", 1, 1, FALSE, FALSE), Note("n1", 2, 3, TRUE, FALSE), Note("n2", 3, 2, FALSE, FALSE),
            Note("n2", 3, 3, FALSE, TRUE)}

World(i, c, p, t, g) ==
  [identity |-> i, charter |-> c, purpose |-> [r \in {"lab", "den"} |-> IF r = "lab" THEN p ELSE 0],
   tools |-> t, notes |-> <<>>, gates |-> g, parked |-> <<>>]

MCWorlds == {World(3, 0, 2, 2, <<>>), World(0, 2, 0, 0, <<1>>), World(5, 2, 4, 0, <<2, 1>>)}

MCLimit == [injected |-> 30, identity |-> 4, purpose |-> 3, briefing |-> 7, task |-> 4,
            messages |-> 2, history |-> 4, notes |-> 2, recall |-> 5]

\* The sessions are alike.
Symmetry == Permutations({s1, s2})

MCDigits == [n \in 0..9 |-> IF n < 2 THEN 1 ELSE 2]
=============================================================================
