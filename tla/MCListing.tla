------------------------------ MODULE MCListing ------------------------------
(***************************************************************************)
(* Three rows with three times, in every combination of states and names   *)
(* of two, and once with two equal times.  Which row has which time does   *)
(* not matter: any of them may be in the table, come and go.               *)
(***************************************************************************)
EXTENDS Listing

CONSTANTS r1, r2, r3, draft, live, ann, bob

Content(times, states, names) ==
    [r \in {r1, r2, r3} |->
        LET i == CASE r = r1 -> 1 [] r = r2 -> 2 [] r = r3 -> 3
        IN  [at |-> times[i], state |-> states[i], name |-> names[i]]]

SomeContents ==
    {Content(<<1, 2, 3>>, states, <<ann, bob, bob>>) : states \in [1 .. 3 -> {draft, live}]}
    \cup {Content(<<1, 2, 3>>, <<draft, draft, live>>, names) : names \in [1 .. 3 -> {ann, bob}]}
    \cup {Content(<<1, 1, 2>>, <<draft, draft, live>>, <<ann, bob, bob>>)}
=============================================================================
