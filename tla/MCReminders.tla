----------------------------- MODULE MCReminders -----------------------------
(* Two scenarios: any few steps with the reminders off, to compare the views, *)
(* and fewer with the loops, a stop and a start at any moment beside them.    *)
EXTENDS Reminders

CONSTANT StepsWatched \* bound: steps beside the loops

ASSUME MCAssumption ==
  StepsWatched \in Nat /\ MaxSteps \in Nat /\ StepsWatched <= MaxSteps /\ 1 \in Starts

VARIABLE watched      \* whether the loops run

Watched == INSTANCE Reminders WITH MaxSteps <- StepsWatched, Starts <- {1}

MCInit == ReminderInit /\ watched \in BOOLEAN /\ (watched => role # "zero hours" /\ start = 1)

MCNext ==
  /\ UNCHANGED watched
  /\ \/ ~watched /\ Next /\ UNCHANGED reminderVars
     \/ watched /\ Watched!ReminderNext

\* Beside the loops, absences of two days at most; and on a day when one of those
\* reminded clears their list, the other does not, and one step at most was taken.
Focus ==
  watched =>
    /\ \A a \in absences : a.to <= a.from + 1
    /\ cleared["submission"] = 0 \/ cleared["approval"] = 0
    /\ \A loop \in Loops : cleared[loop] # 0 => steps <= 1

MCSpec == MCInit /\ [][MCNext]_<<allVars, watched>>

\* The views are compared where the loops do not run, and what the loops
\* promise where they do.
VerdictsAgreeUnwatched == ~watched => VerdictsAgree
WaitingIsHeardWatched == [][watched => HeardOnMonday]_<<allVars, watched>>
=============================================================================
