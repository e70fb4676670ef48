------------------------ MODULE MCNotificationDispatch ------------------------
EXTENDS NotificationDispatch
CONSTANTS p1, p2, j1, j2, e1, s1
\* The second job is for no SMS.
MCRecipients == [j \in Job |-> IF j = j1 THEN Target ELSE Email]
==============================================================================
