-------------------------- MODULE MCAdmissionQueue --------------------------
\* AdmissionQueue for TLC.
EXTENDS AdmissionQueue, TLC

Alert == <<0, "alert">>
Issue == <<0, "issue">>
Upgrade == <<0, "upgrade">>

AlertIssue == {Alert, Issue}
AlertUpgrade == {Alert, Upgrade}
OnlyUpgrade == {Upgrade}
KindOfMC == [i \in Items |-> CASE i = Alert -> "incident" [] i = Upgrade -> "upgrade" [] OTHER -> "implement"]

EnqueuerSymmetry == Permutations(Enqueuers)

=============================================================================
