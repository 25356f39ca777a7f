----------------------------- MODULE MCIdentity -----------------------------
EXTENDS Identity

CONSTANTS e1, e2, n1, n2, p1, p2, g1, g2, a1, h1, h2

MCEmailOf == (g1 :> e1) @@ (g2 :> e2) @@ (a1 :> e1)
MCBaseOf == (e1 :> "base") @@ (e2 :> "base")

Scene(ops, member, m, f, t, lapse) ==
  [ops |-> ops, member |-> member, moves |-> m, faults |-> f, time |-> t, lapse |-> lapse]

\* What is requested together, and how much of it.
MCScenes ==
  { Scene({"registration", "confirm"}, FALSE, 3, 0, 0, TRUE),
    Scene({"registration"}, FALSE, 4, 0, 0, FALSE),
    Scene({"registration", "resend", "google"}, FALSE, 3, 1, 0, FALSE),
    Scene({"google", "github", "registration"}, TRUE, 3, 0, 0, FALSE),
    Scene({"login", "restore", "restoreConfirm"}, TRUE, 3, 0, 0, TRUE),
    Scene({"login", "restoreConfirm", "restore"}, TRUE, 4, 0, 0, FALSE),
    Scene({"renew", "logout", "login"}, TRUE, 3, 1, 1, FALSE),
    Scene({"terminate", "terminateOthers", "login"}, TRUE, 4, 0, 0, FALSE),
    Scene({"renew", "terminateOthers", "login"}, TRUE, 3, 0, 0, FALSE),
    Scene({"ban", "unban", "deleteUser", "login"}, TRUE, 3, 1, 0, FALSE),
    Scene({"ban", "restore", "restoreConfirm", "google"}, TRUE, 3, 0, 0, FALSE),
    Scene({"ban", "registration", "resend", "confirm"}, FALSE, 3, 0, 0, FALSE),
    Scene({"deleteUser", "registration"}, FALSE, 3, 0, 0, FALSE) }

SlotSymmetry == Permutations(Slots)
=============================================================================
