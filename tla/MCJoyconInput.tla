--------------------------- MODULE MCJoyconInput ----------------------------
EXTENDS JoyconInput

\* One button on either side of a byte's end.
SomeButtons == {7, 8}

\* The middle, the far end and a position with all three nibbles different.
SomePositions == {[x |-> 2048, y |-> 2048], [x |-> 4096, y |-> 291]}

\* Two that fit and one that does not: three, to tell ring order from others.
SomeSamples == {<<1, -2, 4000>>, <<-1, 256, 32767>>, <<40000, -40000, 0>>}

TheSamples ==
  {[d \in Axis |-> s[d + 1]] : s \in SomeSamples}
=============================================================================
