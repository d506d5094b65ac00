------------------------------ MODULE MCBrowser ------------------------------
EXTENDS Browser

Rd(offset, len) == [op |-> "read", offset |-> offset, len |-> len]
Wr(len) == [op |-> "write", len |-> len]

\* A header, then samples; an empty sample, one larger than the data region,
\* and one that ends after the file.
McPrograms ==
  {<<Rd(0, 3), Wr(3), Rd(4, 0), Wr(0), Rd(2, 2), Wr(1)>>,
   <<Rd(3, 1), Rd(1, 3), Wr(5)>>,
   <<Wr(1), Rd(3, 2), Wr(2)>>,
   <<Rd(4, 1)>>}
=============================================================================
