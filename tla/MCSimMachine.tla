---------------------------- MODULE MCSimMachine ----------------------------
\* An image of one track and one sector, drives without an image and a number
\* there is no drive for; a break point behind KBHIT; ^C,
\* a control key that repeats the interrupt, a letter.
EXTENDS SimMachine

MCPattern == [p |-> 17, q |-> 34]

Full(n, v) == [b \in 1 .. n |-> [i \in 0 .. SectorBytes - 1 |-> (MCPattern[v] + i) % 256]]

MCImages == [d \in 0 .. 3 |-> IF d \in {1, 3} THEN <<>> ELSE Full(IF d = 0 THEN 37 ELSE 36, "p")]

MCServices ==
  [op : {"read"}, sector : {<<0, 0, 36>>, <<0, 1, 1>>, <<1, 0, 1>>}, value : {None}]
    \cup [op : {"write"}, sector : {<<0, 0, 36>>}, value : {"q"}]
    \cup [op : {"inch", "inche", "inchek", "verify", "bad"}]
    \cup [op : {"outch"}, char : {65}] \cup [op : {"chkrdy"}, drive : {5}]

MCBreakPlaces == {Base + 32}
=============================================================================
