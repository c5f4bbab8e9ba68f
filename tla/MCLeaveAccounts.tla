---- MODULE MCLeaveAccounts ----
EXTENDS LeaveAccounts
MCWorkDays == Days \ {2}
====
