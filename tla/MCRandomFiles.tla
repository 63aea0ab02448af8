--------------------------- MODULE MCRandomFiles ---------------------------
(* Small limits for RandomFiles: tracks of two sectors, two entries in a    *)
(* sector of the map, counts up to two.                                     *)
EXTENDS RandomFiles

\* Behind the two sectors of the map the file gets: a run longer than a count
\* can tell; sectors that lie apart, more than the map has entries for; runs
\* and gaps on a disk that fills up; no more than the map.
SmallLayouts ==
  {<< <<1, 1>>, <<1, 2>>, <<2, 1>>, <<2, 2>>, <<3, 1>>, <<3, 2>>, <<4, 1>> >>,
   << <<1, 2>>, <<3, 1>>, <<2, 1>>, <<5, 2>>, <<4, 1>>, <<6, 2>>, <<7, 2>> >>,
   << <<4, 1>>, <<1, 1>>, <<2, 2>>, <<3, 1>>, <<5, 1>> >>,
   << <<3, 1>>, <<3, 2>> >>}

\* Record bytes that look like an entry.
SmallData == << [at |-> <<2, 1>>, count |-> 3], [at |-> Nil, count |-> 0] >>
=============================================================================
