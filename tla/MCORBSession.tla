---------------------------- MODULE MCORBSession ----------------------------
(* ORBSession with a small market: every bar is one of a few shapes.          *)
EXTENDS ORBSession

MCShapes ==
    {[gap |-> 0, up |-> 2, down |-> 0, move |-> 2],      \* rises
     [gap |-> 0, up |-> 1, down |-> 3, move |-> -3],     \* falls, after a higher high
     [gap |-> 1, up |-> 1, down |-> 0, move |-> 0],      \* gaps up and stays
     [gap |-> 0, up |-> 9, down |-> 0, move |-> 8],      \* runs away
     [gap |-> -1, up |-> 9, down |-> 9, move |-> 0]}     \* reaches both sides
=============================================================================
