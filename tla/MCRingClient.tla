----------------------------- MODULE MCRingClient -----------------------------
\* A ring of three buffers of two samples; a count of processed samples that was
\* never initialized may be zero or not.
EXTENDS RingClient

MCStale == {0, 3}
===============================================================================
