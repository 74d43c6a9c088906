------------------------- MODULE MCRedshiftSession -------------------------
\* RedshiftSession for TLC: what the connections of a session are answered.
EXTENDS RedshiftSession

\* A server answers every connection alike.
Uniform == {{TRUE}, {FALSE}}

\* An attempt at the read-only default may also fail on some connections only.
Varying == Uniform \cup {{TRUE, FALSE}}
=============================================================================
