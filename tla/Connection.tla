----------------------------- MODULE Connection -----------------------------
(***************************************************************************)
(* From the options of a launch to what the database driver is opened      *)
(* with: ValidateOpts and BuildConnectionFromOpts (pkg/connection) and the *)
(* dialers SSHTunnel registers (pkg/sshdb).                                *)
(*                                                                         *)
(* Options are a record.  A field that the code only copies is a value, "" *)
(* when it is not given, and one field stands for those copied alike (the  *)
(* SSL files go the way of sslPassword, the wallet of sslVerify); a host   *)
(* is "local", "remote" or "".  url is NoURL or a record: its scheme,      *)
(* whether it parses, its host, its sslmode, whom it logs in as, the       *)
(* network it names (MySQL) and the driver names its text contains.  A     *)
(* connection string is the record of what it carries: params are its      *)
(* parameters.                                                             *)
(***************************************************************************)
EXTENDS Naturals, FiniteSets, Sequences

CONSTANT SystemUser     \* the name currentUser finds in the system

NoURL == [scheme |-> "", valid |-> FALSE, host |-> "", sslmode |-> "",
          user |-> "", pass |-> "", net |-> "", names |-> {}]

NoOptions ==
    [driver |-> "", url |-> NoURL, host |-> "", port |-> "", user |-> "",
     pass |-> "", ssl |-> "", sslPassword |-> "", encrypt |-> "", trust |-> "",
     sslVerify |-> "", socket |-> "", readOnly |-> FALSE,
     sshHost |-> "", sshUser |-> "", sshPass |-> ""]

(* The options there are: those fields, and a URL that parses has its      *)
(* scheme in its text.                                                     *)
WellFormed(o) ==
    /\ DOMAIN o = DOMAIN NoOptions
    /\ o.url.valid /\ o.url.scheme \in {"postgres", "postgresql", "mysql"} =>
            o.url.scheme \in o.url.names

(* What BuildConnectionFromOpts answers: the driver to open, whom to log   *)
(* in as, the network it dials and the parameters of the string.           *)
Refused == [ok |-> FALSE, driver |-> "", user |-> "", pass |-> "",
            net |-> "", params |-> {}]
Opened(driver, user, pass, net, params) ==
    [ok |-> TRUE, driver |-> driver, user |-> user, pass |-> pass,
     net |-> net, params |-> params]

Given(key, value) == IF value = "" THEN {} ELSE {<<key, value>>}

ValidateOpts(o) ==
    \/ o.host # "" \/ o.port # "" \/ o.user # "" \/ o.pass # ""
    \/ o.driver # "" \/ o.url # NoURL
-----------------------------------------------------------------------------
(* sslmode of PostgreSQL: off for this machine when nobody asked for one.  *)
LocalMode(ssl, host) ==
    IF ssl # "" THEN ssl ELSE IF host = "local" THEN "disable" ELSE ""

FromPostgresURL(o) ==
    IF ~o.url.valid
    THEN Refused
    ELSE Opened(IF o.sshHost # "" THEN "postgres+ssh" ELSE "postgres",
                o.url.user, o.url.pass, "tcp",
                Given("sslmode", IF o.url.sslmode # "" THEN o.url.sslmode
                                 ELSE LocalMode(o.ssl, o.url.host)))

FromURL(o) ==
    CASE o.url.scheme \in {"postgres", "postgresql"} -> FromPostgresURL(o)
      [] o.url.scheme = "file" ->
            Opened("sqlite", o.url.user, o.url.pass, "", {})
      [] o.url.scheme \in {"mysql", "oracle", "sqlserver"} /\ o.url.valid ->
            Opened(o.url.scheme, o.url.user, o.url.pass,
                   IF o.url.scheme = "mysql" THEN o.url.net ELSE "tcp",
                   IF o.url.scheme = "sqlserver" /\ o.readOnly
                   THEN {<<"ApplicationIntent", "ReadOnly">>} ELSE {})
      [] OTHER -> Refused

FromPostgresFields(o, user) ==
    IF o.socket # ""
    THEN Opened("postgres", user, o.pass, o.socket, {})
    ELSE Opened(IF o.sshHost # "" THEN "postgres+ssh" ELSE "postgres",
                user, o.pass, "tcp",
                Given("sslmode", LocalMode(o.ssl, o.host))
                    \union Given("sslpassword", o.sslPassword))

(* A socket must end in .sock and exist: both are in its validity.         *)
FromMySQLFields(o, user) ==
    CASE o.socket = "bad" -> Refused
      [] o.socket \notin {"", "bad"} ->
            Opened("mysql", user, o.pass, o.socket, {})
      [] OTHER -> Opened("mysql", user, o.pass,
                         IF o.sshHost # "" THEN "mysql+tcp" ELSE "tcp", {})

FromSQLServerFields(o, user) ==
    Opened("sqlserver", user, o.pass, "tcp",
           Given("encrypt", o.encrypt)
               \union Given("trustservercertificate", o.trust)
               \union (IF o.readOnly
                       THEN {<<"ApplicationIntent", "ReadOnly">>} ELSE {}))

FromFields(o) ==
    LET user == IF o.user = "" THEN SystemUser ELSE o.user
    IN  CASE o.driver = "postgres"  -> FromPostgresFields(o, user)
          [] o.driver = "mysql"     -> FromMySQLFields(o, user)
          [] o.driver = "sqlserver" -> FromSQLServerFields(o, user)
          [] o.driver = "sqlite"    -> Opened("sqlite", user, o.pass, "", {})
          [] o.driver = "oracle" /\ o.port # "" ->      \* Atoi
                Opened("oracle", user, o.pass, "tcp",
                       Given("SSL", o.ssl)
                           \union Given("SSL Verify", o.sslVerify))
          [] OTHER -> Refused

BuildConnectionFromOpts(o) ==
    IF o.url # NoURL THEN FromURL(o) ELSE FromFields(o)
-----------------------------------------------------------------------------
(* SSHTunnel registers a dialer for the driver it was given, and then one  *)
(* for the first driver name the URL's text contains.                      *)
RegisteredForDriver(o) ==
    CASE o.driver \in {"postgres", "postgresql"} -> <<"postgres+ssh">>
      [] o.driver = "mysql"                      -> <<"mysql+tcp">>
      [] OTHER                                   -> <<>>

(* Mutant of RegisteredForURL: only the driver's own flag counts.          *)
NoneForURL(o) == <<>>

RegisteredForURL(o) ==
    IF {"postgres", "postgresql"} \intersect o.url.names # {}
    THEN <<"postgres+ssh">>
    ELSE IF "mysql" \in o.url.names THEN <<"mysql+tcp">> ELSE <<>>

SSHTunnel(o) ==
    IF o.sshHost = "" THEN <<>>
    ELSE RegisteredForDriver(o) \o RegisteredForURL(o)

(* database/sql panics when a driver name is registered a second time; the *)
(* MySQL driver replaces the dialer of the same name.                      *)
Panics(dialers) ==
    \E i, j \in DOMAIN dialers :
        i < j /\ dialers[i] = "postgres+ssh" /\ dialers[j] = "postgres+ssh"
=============================================================================
