------------------------ MODULE MCNotificationDelivery -----------------------
(* Instances of NotificationDelivery for TLC.                              *)
EXTENDS NotificationDelivery, TLC

CONSTANTS w1, w2, s1, r1, r2

TwoWorkers == {w1, w2}
OneSignal == {s1}
OneRecipient == {r1}
TwoRecipients == {r1, r2}

\* Workers are interchangeable, and so are recipients.
WorkerSymmetry == Permutations(TwoWorkers)
==============================================================================
