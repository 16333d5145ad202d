----------------------------- MODULE MCBuiltin -----------------------------
EXTENDS Builtin, TLC

Port(lo, hi) == [lo |-> lo, hi |-> hi]
Scan(ports, n, ok) == [name |-> "porttcp", ports |-> ports, concurrency |-> n, targetOK |-> ok]
Other(name, ok) == [name |-> name, targetOK |-> ok]

MockJobs == {[name |-> "mock", targetOK |-> TRUE, steps |-> n, delay |-> d, fail |-> f] :
                n \in {0, 2}, d \in BOOLEAN, f \in BOOLEAN}

\* Ranges that overlap, twice as many ports as slots, an empty list, a port
\* and a range that are none.
Scans == {Scan({Port(1, 3), Port(2, 4)}, 2, TRUE), Scan({Port(1, 2)}, 0, TRUE),
          Scan({}, 1, TRUE), Scan({Port(0, 0)}, 1, TRUE), Scan({Port(2, 1)}, 1, TRUE),
          Scan({Port(4, 5)}, 1, TRUE), Scan({Port(1, 1)}, 1, FALSE)}

Jobs == MockJobs \cup Scans
        \cup {Other(name, ok) : name \in {"dns", "http", "tls"}, ok \in BOOLEAN}
        \cup {[name |-> "nmap", targetOK |-> ok, ports |-> {Port(1, 2)}] : ok \in BOOLEAN}

Cert(serial, issuer) == [serial |-> serial, issuer |-> issuer]
TwoChains == {<<>>, <<Cert(1, "a"), Cert(2, "b")>>, <<Cert(1, "a"), Cert(1, "b")>>}
=============================================================================
