--------------------------- MODULE MCTlsCertificate ---------------------------
EXTENDS TlsCertificate

CONSTANTS d1, d2

With(domain, manual) == [enabled |-> TRUE, domain |-> domain, manual |-> manual]
Off == [enabled |-> FALSE, domain |-> NoDomain, manual |-> FALSE]

\* A Cloudflare domain, whose certificates the tick and a request order; any
\* one thing goes wrong.
Automatic == [ops |-> {"tick", "issue"}, kinds |-> FaultKinds, faults |-> 1,
              settings |-> With(d1, FALSE), patched |-> {}, patches |-> 0]
\* A manual challenge, while the settings change.
Manual == [ops |-> {"tick", "start", "confirm", "patch"}, kinds |-> {}, faults |-> 0,
           settings |-> With(d1, TRUE), patched |-> {With(d2, TRUE), With(d1, FALSE), Off},
           patches |-> 1]
MCProfiles == {Automatic, Manual}
=============================================================================
