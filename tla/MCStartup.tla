----------------------------- MODULE MCStartup ------------------------------
(* The flags are one of each sort that the code tells apart; the last one  *)
(* registers the dialer of PostgreSQL twice.  The name n2 is the name n1   *)
(* with "-ssh" behind it, and the users of the tunnels are also users of   *)
(* the databases.                                                          *)
EXTENDS Startup, TLC

CONSTANTS n1, n2, s2

PostgresFlags ==
    [NoOptions EXCEPT !.driver = "postgres", !.host = "local", !.user = "u1",
                      !.pass = "p1", !.ssl = "require", !.sslPassword = "k1"]
MySQLTunnel ==
    [NoOptions EXCEPT !.driver = "mysql", !.host = "remote", !.user = "u2",
                      !.pass = "p2", !.sshHost = "h", !.sshUser = "u2",
                      !.sshPass = "p3"]
URLTunnelFlags ==
    [NoOptions EXCEPT !.sshHost = "h", !.sshUser = "u1",
                      !.sshPass = "p4", !.url =
        [NoURL EXCEPT !.scheme = "postgres", !.valid = TRUE, !.host = "local",
                      !.user = "u1", !.pass = "p1", !.names = {"postgres"}]]
TwiceFlags == [URLTunnelFlags EXCEPT !.driver = "postgres"]

AllFlags == {NoOptions, PostgresFlags, URLTunnelFlags, TwiceFlags}

(* Nothing saved before, n2 alone, or both profiles.                       *)
PriorProfiles ==
    {[n \in {} |-> NoOptions], [n \in {n2} |-> PostgresFlags],
     [n \in Names |-> MySQLTunnel]}

SSHServices == n1 :> n2 @@ n2 :> s2

Symmetry == Permutations(Jobs) \union Permutations(Fetches)
=============================================================================
