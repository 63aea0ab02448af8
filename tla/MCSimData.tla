------------------------------ MODULE MCSimData ------------------------------
\* Second operands at the edges of the two orders; a postbyte of every kind
\* with the first and the last pointer register; files that end in, at and
\* after a record of every width.
EXTENDS SimData

MCSamples   == {0, 1, 127, 128, 129, 255}
MCPostbytes == (0 .. 31) \cup (96 .. 159) \cup (224 .. 255)
MCPlaces    == {<<0, 0, 1>>, <<0, 0, 36>>, <<0, 1, 1>>, <<2, 0, 1>>, <<1, 1, 36>>}
MCTextLengths == {1, 2, 7}
MCLengths   == {1, 2, 15, 16, 17, 33}
=============================================================================
