--------------------------- MODULE MCPayrollLedger ---------------------------
EXTENDS PayrollLedger

\* A day of the first month and one of the second.
MCMonthOf == <<1, 2>>
=============================================================================
