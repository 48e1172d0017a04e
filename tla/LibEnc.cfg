\* Three lengths: a box can be smaller than its source, and the next source
\* equal to that box, larger, or the same box turned.
SPECIFICATION EncSpec
CONSTANTS
  Lengths = {2, 4, 6}
INVARIANTS WithinBuffer
PROPERTIES HeaderFirst
