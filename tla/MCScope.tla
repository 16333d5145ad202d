------------------------------ MODULE MCScope ------------------------------
(* The scope engine on every small input. *)
EXTENDS ScopeInputs

Names == {<<"com">>, <<"b">>, <<"b", ".", "com">>, <<"a", ".", "b", ".", "com">>,
          <<"x", "b", ".", "com">>}
Addresses == {<<"1", "0">>, <<"1", "0", "1">>}

NoURL == [host |-> <<>>, path |-> <<>>]

Target(kind, identity, stem) ==
    [kind |-> kind, identity |-> identity, stem |-> stem,
     host |-> <<>>, port |-> 0, url |-> <<>>, parsed |-> {NoURL}]

WithPort(kind, text) == Target(kind, text \o <<":", "80">>, text)

Page(path) ==
    [Target("url", <<"https", "://", "app">> \o path, <<"https">>) EXCEPT
        !.url = @ \o <<"https", "://", "app">> \o path,
        !.parsed = {[host |-> <<"app">>, path |-> path]}]

\* Names, addresses with and without a port (the last one a bare IPv6 address,
\* which its last colon cuts to another), pages, a URL that does not parse, a
\* name whose host is given as an address, and an account.
Targets ==
    {Target("dns_name", n, <<>>) : n \in Names} \cup {WithPort("dns_name", <<"b">>)}
    \cup {[t EXCEPT !.port = p] : p \in {0, 80, 443},
             t \in {Target("host", a, <<>>) : a \in Addresses}
                   \cup {WithPort("host", a) : a \in Addresses}
                   \cup {Target("host", <<"0", "1", "1">>, <<"0", "1">>)}}
    \cup {Page(path) : path \in {<<>>, <<"/x">>, <<"/x", "y">>, <<"/X">>}}
    \cup {[Page(<<"/x">>) EXCEPT !.parsed = {}],
          [Target("host", <<"b">>, <<>>) EXCEPT !.host = <<"1", "0">>],
          Target("account", <<"com">>, <<>>)}

Row(order, effect, kind, value) ==
    [NoRule EXCEPT !.order = order, !.effect = effect, !.kind = kind, !.value = value]

\* Two or three candidates for each place in the order; any may be missing.
AllRows ==
    {Row(1, "deny", "dns_exact", <<"b", ".", "com">>),
     [Row(1, "deny", "cidr", <<"1", "0", "1">>) EXCEPT !.portMin = 80, !.portMax = 100],
     [Row(2, "allow", "dns_suffix", <<"com">>) EXCEPT !.start = 1, !.end = 2],
     [Row(2, "deny", "path_glob", <<"/x">>) EXCEPT !.exact = TRUE],
     [Row(3, "allow", "host", <<"1", "0">>) EXCEPT !.portMin = 0, !.portMax = 443],
     Row(3, "allow", "url_prefix", <<"https", "://", "app", "/x">>),
     Row(3, "out_of_scope", "cidr", <<"0", "1">>),
     Row(4, "allow", "cidr", <<"1">>),
     Row(4, "deny", "vhost", <<"app">>),
     Row(5, "allow", "account", <<"com">>),
     Row(5, "allow", "path_glob", <<>>),
     Row(5, "deny", "dns_wildcard", <<"com">>)}

FourMoments == 0 .. 3
=============================================================================
