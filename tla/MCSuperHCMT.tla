----------------------------- MODULE MCSuperHCMT -----------------------------
EXTENDS SuperHCMT

\* The 16-bit RTE of the SuperH followed by its delay slot, and the 32-bit
\* word the hook looks for.
Rte16 == <<"rte", "op">>
Rte32 == <<"zero", "rte">>

OnlyRte16 == {Rte16}
OnlyRte32 == {Rte32}
BothRte == {Rte16, Rte32}
=============================================================================
