\* Five handlers: publish, three that meet, such as a rotation, an error and a
\* camera switch, and stop.  A second thread of each kind is only there when the
\* first was forgotten.
SPECIFICATION FairSpec
CHECK_DEADLOCK FALSE
CONSTANTS
  Lengths = {2, 4}
  Threads = {1, 2}
  MaxPictures = 1
  MaxClicks = 5
INVARIANTS NativeExclusive PictureFits EncoderThere Quiet
PROPERTIES HandlersEnd
