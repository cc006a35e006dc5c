--------------------------- MODULE MCK8sDiscovery ---------------------------
EXTENDS K8sDiscovery

CONSTANTS self, p, q, at0, a, b

MCAddressOf == [x \in Processes |-> CASE x = self -> {at0} [] x = p -> {a, b} [] x = q -> {a}]
MCSliceOf == [t \in Targets |-> IF t = b THEN "IPv6" ELSE "IPv4"]
MCEdits == [x \in Processes |-> IF x = q THEN 2 ELSE 1]
MCSettings == {<<"auto", TRUE>>, <<"api", TRUE>>, <<"dns", FALSE>>}
=============================================================================
