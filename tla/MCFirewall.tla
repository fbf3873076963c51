----------------------------- MODULE MCFirewall -----------------------------
(* Instances of Firewall.                                                  *)
EXTENDS Firewall

\* The settings the user switches between.
With(mode, tproxy, dpi, ports, admin, excludes) ==
  [mode |-> mode, tproxy |-> tproxy, dpi |-> dpi, ports |-> ports, admin |-> admin, excludes |-> excludes]

BothModes == {With("policy", FALSE, TRUE,  FALSE, TRUE,  TRUE),
              With("policy", TRUE,  FALSE, FALSE, FALSE, TRUE),
              With("policy", TRUE,  TRUE,  TRUE,  TRUE,  FALSE),
              With("full",   FALSE, TRUE,  TRUE,  TRUE,  TRUE),
              With("full",   FALSE, FALSE, FALSE, TRUE,  FALSE)}
=============================================================================
