----------------------------- MODULE MCWorkforce -----------------------------
\* TLC instance of Workforce.
EXTENDS Workforce
=============================================================================
