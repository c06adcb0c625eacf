----------------------- MODULE MCNotificationDelivery -----------------------
(* Instances of NotificationDelivery for TLC. *)
EXTENDS NotificationDelivery, TLC

CONSTANTS n1, n2, c1, c2, w1, w2

OneNotification == {n1}
TwoNotifications == {n1, n2}
OneClient == {c1}
TwoClients == {c1, c2}
OneWorker == {w1}
TwoWorkers == {w1, w2}
Everybody == {c1, w1}
ClientSymmetry == Permutations(TwoClients)

=============================================================================
