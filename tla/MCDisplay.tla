------------------------------ MODULE MCDisplay ------------------------------
EXTENDS Display
\* Off the screen on either side, and the edges of the clamps.
MCAxis == {-1, 8, 471, 472, 631, 632}
\* All of the screen, and a part of it.
MCGuestBoxes == {[x |-> 0, y |-> 0, w |-> 640, h |-> 480], [x |-> 100, y |-> 50, w |-> 32, h |-> 16]}
=============================================================================
