---------------------------- MODULE MCRecording ----------------------------
EXTENDS Recording

\* Two super-blocks side by side, and two one above the other.
MCFrameSizes == {<<40, 32>>, <<20, 40>>}

\* One tile; a part of two; three by two, cut in the middle of a tile as 720
\* lines are.
MCScreenSizes == {<<32, 32>>, <<40, 16>>, <<72, 48>>}
=============================================================================
