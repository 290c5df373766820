----------------------------- MODULE MC_Extents -----------------------------
EXTENDS Extents
\* An empty file, one written forwards with gaps, two written backwards.
MCLaid == {<<>>, <<0, 2, 4, 6>>, <<6, 4, 2, 0>>, <<7, 6, 5, 4, 3, 2, 1>>}
=============================================================================
