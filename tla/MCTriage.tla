------------------------------ MODULE MCTriage ------------------------------
EXTENDS Triage
CONSTANTS a1, a2, a3, a4
MCApp == {a1, a2, a3, a4}
MCListing == <<a1, a2, a3, a4>>
MCWithResume == {a1}
MCSettled == {a2}
=============================================================================
