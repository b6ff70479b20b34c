----------------------------- MODULE MCProgress -----------------------------
EXTENDS Progress

\* Rounds with the higher frequency, with the lower one, and too short to be reported.
MCWorkloads == { <<11, 6>>, <<6, 2, 3>>, <<2, 4>> }
=============================================================================
