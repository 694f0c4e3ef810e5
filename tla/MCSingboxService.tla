-------------------------- MODULE MCSingboxService --------------------------
EXTENDS SingboxService

CONSTANTS r1, r2, main, binder, null

\* What follows a disturbance is not explored: no property but AnsweredOnce
\* speaks of it.
UpToDisturbance == ~disturbed
=============================================================================
