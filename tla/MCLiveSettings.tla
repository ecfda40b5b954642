--------------------------- MODULE MCLiveSettings ----------------------------
(***************************************************************************)
(* LiveSettings for TLC: a store that goes through the proxy and one that  *)
(* is excluded, an explicit proxy and one of the environment, forms that   *)
(* lock out or fail open when they are merged carelessly.                  *)
(***************************************************************************)
EXTENDS LiveSettings

Store == [scheme |-> "https", ip |-> FALSE, host |-> <<"store", "com">>]
Intranet == [scheme |-> "http", ip |-> TRUE, host |-> <<"10", "0", "0", "7">>]
MCTargets == {Store, Intranet}

Net == [kind |-> "net", hosts |-> {Intranet.host}]
Name == [kind |-> "name", name |-> <<"com">>]

MCEnvProxies == [http |-> "", https |-> "", all |-> "env:1"]

MCEnvNoProxy == {Net}

MCRetryAfters == {-1, 3}  \* a date that has passed, and more than the cap

MCProxyForms == {[mode |-> "EXPLICIT"], [mode |-> "EXPLICIT", url |-> "p:1"],
                 [url |-> ""], [url |-> "p:2", no_proxy |-> {Name}],
                 [mode |-> "junk"], [url |-> "odd"]}

Fn(p, v) == (p :> v)

MCOidcForms == {[mode |-> "oidc"], [mode |-> "local"], [mode |-> "both", maps |-> "odd"],
                [on |-> Fn("okta", FALSE)], [on |-> Fn("okta", TRUE)],
                [conf |-> Fn("okta", "c2")], [conf |-> Fn("okta", "")]}

Seed(mode, on, conf) == [mode |-> mode, on |-> on, conf |-> conf, maps |-> "ok"]
Both(e, o) == Fn("entra", e) @@ Fn("okta", o)

MCEnvs == {[proxy |-> Configured("SYSTEM", "", {}),
            oidc |-> Seed("local", Both(FALSE, TRUE), Both("c1", "c1")),
            secrets |-> {"okta"}],
           [proxy |-> Configured("EXPLICIT", "p:1", {Net}),
            oidc |-> Seed("oidc", Both(FALSE, FALSE), Both("", "odd")),
            secrets |-> {}],
           [proxy |-> Configured("EXPLICIT", "", {}),
            oidc |-> Seed("local", Both(FALSE, FALSE), Both("", "")),
            secrets |-> {"okta", "entra"}]}

Symmetry == Permutations(Tasks)

=============================================================================
