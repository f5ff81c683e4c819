------------------------------- MODULE MCTokens -------------------------------
\* Tokens on an instance TLC can exhaust: two rows, three requests that race
\* for them, and a clock that runs long enough for a row to lapse while a
\* request holds it and for a second row to be live meanwhile.
EXTENDS Tokens

CONSTANTS t1, t2, p1, p2, p3

MCId == {t1, t2}

MCProc == {p1, p2, p3}
===============================================================================
